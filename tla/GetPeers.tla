------------------------------ MODULE GetPeers ------------------------------
(***************************************************************************)
(* GetPeers of proxy/announce.go: one DHT traversal and one goroutine for  *)
(* each pair of a server and an info-hash, all of them sending what they   *)
(* find on the caller's channel, the goroutine of GetPeers that starts and *)
(* waits for them, and the caller's goroutine that ranges over the channel.*)
(*                                                                         *)
(* A traversal belongs to the dht library: it hands peers over in batches  *)
(* on its own channel, which it closes when it is exhausted or closed.     *)
(***************************************************************************)
EXTENDS Naturals

CONSTANTS
    N,         \* pairs of a server and an info-hash, in the loops' order
    MaxPeers,  \* bound: peers one traversal can find
    MaxBatch   \* bound: peers in one of its batches

ASSUME GetPeersAssumption == N \in Nat /\ MaxPeers \in Nat /\ MaxBatch \in Nat

Pairs == 1 .. N

VARIABLES
    main,       \* where the goroutine of GetPeers stands
    started,    \* how many traversals it has started
    result,     \* what GetPeers is returning
    ctx,        \* the context is done
    traversal,  \* the traversal of each pair
    found,      \* how many peers it has handed over
    worker,     \* where the goroutine of each pair stands
    batch,      \* how many peers of the batch at hand are still to be sent
    peers,      \* the channel of the caller
    delivered,  \* how many peers of each pair were received from it
    consumer    \* where the caller's receiving goroutine stands

vars == <<main, started, result, ctx, traversal, found, worker, batch, peers,
          delivered, consumer>>

(* The types of the variables.                                             *)
TypeOK ==
    /\ main \in {"starting", "waiting", "closing", "deferred", "returned"}
    /\ started \in 0 .. N
    /\ result \in {"none", "ok", "cancelled", "error"}
    /\ ctx \in BOOLEAN
    /\ traversal \in [Pairs -> {"none", "running", "exhausted", "closed"}]
    /\ found \in [Pairs -> 0 .. MaxPeers]
    /\ worker \in [Pairs -> {"none", "receiving", "sending", "done"}]
    /\ batch \in [Pairs -> 0 .. MaxBatch]
    /\ peers \in {"open", "closed"}
    /\ delivered \in [Pairs -> 0 .. MaxPeers]
    /\ consumer \in {"ranging", "finished"}

Init ==
    /\ main = "starting"
    /\ started = 0
    /\ result = "none"
    /\ ctx = FALSE
    /\ traversal = [t \in Pairs |-> "none"]
    /\ found = [t \in Pairs |-> 0]
    /\ worker = [t \in Pairs |-> "none"]
    /\ batch = [t \in Pairs |-> 0]
    /\ peers = "open"
    /\ delivered = [t \in Pairs |-> 0]
    /\ consumer = "ranging"

-----------------------------------------------------------------------------
(* AnnounceTraversal succeeds: wg.Add(1) and the goroutine.                *)
StartsTraversal ==
    /\ main = "starting"
    /\ started < N
    /\ started' = started + 1
    /\ traversal' = [traversal EXCEPT ![started + 1] = "running"]
    /\ worker' = [worker EXCEPT ![started + 1] = "receiving"]
    /\ UNCHANGED <<main, result, ctx, found, batch, peers, delivered,
                   consumer>>

(* AnnounceTraversal fails: GetPeers returns at once.                      *)
StartFails ==
    /\ main = "starting"
    /\ started < N
    /\ result' = "error"
    /\ main' = "deferred"
    /\ UNCHANGED <<started, ctx, traversal, found, worker, batch, peers,
                   delivered, consumer>>

StartsWaiting ==
    /\ main = "starting"
    /\ started = N
    /\ main' = "waiting"
    /\ UNCHANGED <<started, result, ctx, traversal, found, worker, batch,
                   peers, delivered, consumer>>

(* Mutant of WaitReturns: it does not wait.                                *)
WaitSkipped ==
    /\ main = "waiting"
    /\ main' = "closing"
    /\ UNCHANGED <<started, result, ctx, traversal, found, worker, batch,
                   peers, delivered, consumer>>

(* wg.Wait: every goroutine started has called Done.                       *)
WaitReturns ==
    /\ main = "waiting"
    /\ \A t \in 1 .. started : worker[t] = "done"
    /\ main' = "closing"
    /\ UNCHANGED <<started, result, ctx, traversal, found, worker, batch,
                   peers, delivered, consumer>>

(* Mutant of ClosesPeers: GetPeers returns without the close.              *)
ClosesNothing ==
    /\ main = "closing"
    /\ result' = IF ctx THEN "cancelled" ELSE "ok"
    /\ main' = "deferred"
    /\ UNCHANGED <<started, ctx, traversal, found, worker, batch, peers,
                   delivered, consumer>>

ClosesPeers ==
    /\ main = "closing"
    /\ peers = "open"
    /\ peers' = "closed"
    /\ UNCHANGED <<main, started, result, ctx, traversal, found, worker, batch,
                   delivered, consumer>>

(* Mutant of ReadsCtxErr: return nil.                                      *)
ReturnsNil ==
    /\ main = "closing"
    /\ peers = "closed"
    /\ result' = "ok"
    /\ main' = "deferred"
    /\ UNCHANGED <<started, ctx, traversal, found, worker, batch, peers,
                   delivered, consumer>>

(* return ctx.Err()                                                        *)
ReadsCtxErr ==
    /\ main = "closing"
    /\ peers = "closed"
    /\ result' = IF ctx THEN "cancelled" ELSE "ok"
    /\ main' = "deferred"
    /\ UNCHANGED <<started, ctx, traversal, found, worker, batch, peers,
                   delivered, consumer>>

(* Mutant of Closed: Close is not called.                                  *)
Abandoned(ts) == traversal

(* Closing a traversal that still runs stops it.                           *)
Closed(ts) == [t \in Pairs |->
                 IF t \in ts /\ traversal[t] = "running" THEN "closed"
                 ELSE traversal[t]]

(* The deferred Close of every traversal that was started, on every way    *)
(* out.                                                                    *)
Returns ==
    /\ main = "deferred"
    /\ traversal' = Closed(1 .. started)
    /\ main' = "returned"
    /\ UNCHANGED <<started, result, ctx, found, worker, batch, peers,
                   delivered, consumer>>

-----------------------------------------------------------------------------
(* The traversal hands a batch to the goroutine that ranges over it.       *)
WorkerReceives(t) ==
    /\ worker[t] = "receiving"
    /\ traversal[t] = "running"
    /\ \E k \in 1 .. MaxBatch :
         /\ found[t] + k <= MaxPeers
         /\ found' = [found EXCEPT ![t] = @ + k]
         /\ batch' = [batch EXCEPT ![t] = k]
    /\ worker' = [worker EXCEPT ![t] = "sending"]
    /\ UNCHANGED <<main, started, result, ctx, traversal, peers, delivered,
                   consumer>>

(* The traversal's channel is closed: Close and Done are deferred.         *)
WorkerEnds(t) ==
    /\ worker[t] = "receiving"
    /\ traversal[t] # "running"
    /\ worker' = [worker EXCEPT ![t] = "done"]
    /\ UNCHANGED <<main, started, result, ctx, traversal, found, batch, peers,
                   delivered, consumer>>

(* peers is not buffered: a send is a receive of the consumer.             *)
WorkerSends(t) ==
    /\ worker[t] = "sending"
    /\ peers = "open"
    /\ consumer = "ranging"
    /\ delivered' = [delivered EXCEPT ![t] = @ + 1]
    /\ batch' = [batch EXCEPT ![t] = @ - 1]
    /\ worker' = [worker EXCEPT ![t] = IF batch[t] = 1 THEN "receiving"
                                       ELSE "sending"]
    /\ UNCHANGED <<main, started, result, ctx, traversal, found, peers,
                   consumer>>

(* The other case of the select: the rest of the batch is given up.        *)
WorkerGivesUp(t) ==
    /\ worker[t] = "sending"
    /\ ctx
    /\ worker' = [worker EXCEPT ![t] = "done"]
    /\ traversal' = Closed({t})
    /\ UNCHANGED <<main, started, result, ctx, found, batch, peers, delivered,
                   consumer>>

-----------------------------------------------------------------------------
(* The library runs out of nodes to ask.                                   *)
TraversalExhausts(t) ==
    /\ traversal[t] = "running"
    /\ traversal' = [traversal EXCEPT ![t] = "exhausted"]
    /\ UNCHANGED <<main, started, result, ctx, found, worker, batch, peers,
                   delivered, consumer>>

(* The caller's context ends, by its timeout or otherwise.                 *)
ContextEnds ==
    /\ ~ctx
    /\ ctx' = TRUE
    /\ UNCHANGED <<main, started, result, traversal, found, worker, batch,
                   peers, delivered, consumer>>

(* The consumer ranges over the channel until it is closed.                *)
ConsumerFinishes ==
    /\ consumer = "ranging"
    /\ peers = "closed"
    /\ consumer' = "finished"
    /\ UNCHANGED <<main, started, result, ctx, traversal, found, worker, batch,
                   peers, delivered>>

WorkersDone == \A t \in 1 .. started : worker[t] = "done"

Terminated == main = "returned" /\ WorkersDone /\ UNCHANGED vars

Main == \/ StartsTraversal \/ StartFails \/ StartsWaiting \/ WaitReturns
        \/ ClosesPeers \/ ReadsCtxErr \/ Returns

Worker(t) == \/ WorkerReceives(t) \/ WorkerEnds(t) \/ WorkerSends(t)
             \/ WorkerGivesUp(t)

Next == \/ Main
        \/ \E t \in Pairs : Worker(t) \/ TraversalExhausts(t)
        \/ ContextEnds \/ ConsumerFinishes \/ Terminated

(* Goroutines that can run do, and a traversal of a finite network ends    *)
(* ("Returns when all traversals are exhausted"). Nothing ends the context.*)
Fairness == /\ WF_vars(Main)
            /\ \A t \in Pairs : /\ WF_vars(Worker(t))
                                /\ WF_vars(TraversalExhausts(t))
            /\ WF_vars(ConsumerFinishes)

Spec == Init /\ [][Next]_vars
FairSpec == Spec /\ Fairness

-----------------------------------------------------------------------------
(* close(peers) never meets a goroutine that is sending, which would panic *)
(* it (announce.go:63, 72-73).                                             *)
NoSendOnClosedChannel ==
    peers = "closed" => \A t \in Pairs : worker[t] # "sending"

(* A nil error means that every peer any traversal found was received by   *)
(* the caller, duplicates included (41-43, 74).                            *)
NilMeansAllDelivered ==
    result = "ok" => \A t \in Pairs : delivered[t] = found[t]

(* No traversal outlives GetPeers, whichever way it returns and however    *)
(* many it had started (55, 59).                                           *)
NoTraversalOutlives ==
    main = "returned" => \A t \in Pairs : traversal[t] # "running"

(* "Returns when all traversals are exhausted or there's an error          *)
(* initiating a traversal" (42-43), and no goroutine of it stays behind,   *)
(* not even one that an error surprised with a peer in hand; the caller's  *)
(* range over the channel ends too, unless GetPeers fails.                 *)
EverythingEnds == <>(/\ main = "returned" /\ WorkersDone
                     /\ consumer = "finished" \/ result = "error")

(* announce.go:45: "'peers' will close when this function returns." The    *)
(* return at line 53 does not close it, so a caller that ranges over the   *)
(* channel, as TestP2pNetworking does, waits for ever.                     *)
ClosedOnReturn == main = "returned" => peers = "closed"
=============================================================================
