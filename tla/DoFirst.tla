------------------------------ MODULE DoFirst ------------------------------
(***************************************************************************)
(* doFirst of server/handler.go, which handleMetadata and handleObjectInfo *)
(* use to ask several mirrors at once: one goroutine for each url, one     *)
(* that collects the results, the caller, and one that cleans up after the *)
(* caller has its result. With no urls doFirst returns an error before any *)
(* of this (750-752).                                                      *)
(*                                                                         *)
(* results is a channel buffered for all urls: it is the part of arrived   *)
(* the collector has not received. retChan is unbuffered: a value goes     *)
(* over in one step of the collector and the caller together.              *)
(***************************************************************************)
EXTENDS Naturals, Sequences

CONSTANT N    \* how many urls doFirst is given

ASSUME DoFirstAssumption == N \in Nat \ {0}

Urls == 1 .. N

VARIABLES
    arrived,    \* results sent by the workers so far, in order
    received,   \* how many of them the collector has received
    collector,  \* where the collector stands
    gotOne,     \* the collector's gotOne
    rejected,   \* the collector's rejected: urls, in order
    offered,    \* the url whose result the collector is sending, or 0
    caller,     \* where the caller of doFirst stands
    ret,        \* the url whose result the caller has, or 0
    retClosed,  \* close(retChan) has been called
    next,       \* the url whose cancel function is to be looked at next
    cancelled,  \* urls whose cancel function has been called
    parent,     \* the context of the caller's request is done
    body        \* the response body of each url

fanout  == <<arrived, body>>
collect == <<received, collector, gotOne, rejected, offered>>
cleanup == <<retClosed, next, cancelled>>
vars == <<fanout, collect, cleanup, caller, ret, parent>>

(* good: a response the filter accepts; bad: one it does not.              *)
Outcome == {"good", "bad", "error"}
Result == [url : Urls, outcome : Outcome]
NoUrl == 0

(* The types of the variables.                                             *)
TypeOK ==
    /\ arrived \in Seq(Result)
    /\ received \in 0 .. N
    /\ collector \in {"collect", "offer", "fallback", "close", "done"}
    /\ gotOne \in BOOLEAN
    /\ rejected \in Seq(Urls)
    /\ offered \in Urls \cup {NoUrl}
    /\ caller \in {"waiting", "reading", "finished"}
    /\ ret \in Urls \cup {NoUrl}
    /\ retClosed \in BOOLEAN
    /\ next \in 1 .. N + 1
    /\ cancelled \in SUBSET Urls
    /\ parent \in BOOLEAN
    /\ body \in [Urls -> {"none", "open", "closed"}]

Init ==
    /\ arrived = <<>>
    /\ received = 0
    /\ collector = "collect"
    /\ gotOne = FALSE
    /\ rejected = <<>>
    /\ offered = NoUrl
    /\ caller = "waiting"
    /\ ret = NoUrl
    /\ retClosed = FALSE
    /\ next = 1
    /\ cancelled = {}
    /\ parent = FALSE
    /\ body = [u \in Urls |-> "none"]

-----------------------------------------------------------------------------
Done(u) == \E i \in DOMAIN arrived : arrived[i].url = u

(* client.Do returns, sooner or later, and the result is sent: results has *)
(* room for every url, so the send never blocks.                           *)
WorkerSends(u) ==
    /\ ~Done(u)
    /\ \E o \in Outcome :
         /\ arrived' = Append(arrived, [url |-> u, outcome |-> o])
         /\ body' = [body EXCEPT ![u] = IF o = "error" THEN "none"
                                        ELSE "open"]
    /\ UNCHANGED <<collect, cleanup, caller, ret, parent>>

ContextDone(u) == parent \/ u \in cancelled

(* Mutant of HasResult: nothing is chosen before every mirror has answered.*)
HasEveryResult == Len(arrived) = N

HasResult == received < Len(arrived)

(* Mutant of Passes: the filter is left out.                               *)
PassesUnfiltered(res) == ~gotOne

(* !gotOne && filter(res)                                                  *)
Passes(res) == ~gotOne /\ res.outcome = "good"

(* Mutant of Reject: a result after the chosen one is not kept for closing.*)
RejectEarly(res) == rejected' = IF gotOne THEN rejected
                                ELSE Append(rejected, res.url)

Reject(res) == rejected' = Append(rejected, res.url)

(* The collector's loop: the first result that passes is offered to the    *)
(* caller, the others are rejected; after as many results as urls it looks *)
(* whether one was chosen.                                                 *)
CollectorReceives ==
    /\ collector = "collect"
    /\ received < N
    /\ HasResult
    /\ LET res == arrived[received + 1] IN
       \/ /\ Passes(res)
          /\ collector' = "offer"
          /\ offered' = res.url
          /\ UNCHANGED rejected
       \/ /\ ~Passes(res)
          /\ Reject(res)
          /\ UNCHANGED <<collector, offered>>
    /\ received' = received + 1
    /\ UNCHANGED <<fanout, cleanup, gotOne, caller, ret, parent>>

(* Mutant of CollectorLeavesLoop: bodies are closed after a fallback only. *)
CollectorLeavesBodies ==
    /\ collector = "collect"
    /\ received = N
    /\ \/ /\ gotOne
          /\ collector' = "done"
          /\ UNCHANGED offered
       \/ /\ ~gotOne
          /\ collector' = "fallback"
          /\ \E i \in DOMAIN rejected : offered' = rejected[i]
    /\ UNCHANGED <<fanout, cleanup, received, gotOne, rejected, caller, ret,
                   parent>>

CollectorLeavesLoop ==
    /\ collector = "collect"
    /\ received = N
    /\ \/ /\ gotOne
          /\ collector' = "close"
          /\ UNCHANGED offered
       \/ /\ ~gotOne
          /\ collector' = "fallback"
          /\ \E i \in DOMAIN rejected : offered' = rejected[i]
    /\ UNCHANGED <<fanout, cleanup, received, gotOne, rejected, caller, ret,
                   parent>>

(* rejected without the result just sent: the last takes its place.        *)
Without(s, u) ==
    LET i == CHOOSE i \in DOMAIN s : s[i] = u
    IN  SubSeq([s EXCEPT ![i] = s[Len(s)]], 1, Len(s) - 1)

(* Mutant of Handover: gotOne is not set.                                  *)
HandoverUnnoticed ==
    /\ collector \in {"offer", "fallback"}
    /\ caller = "waiting"
    /\ ret' = offered
    /\ caller' = "reading"
    /\ offered' = NoUrl
    /\ collector' = IF collector = "offer" THEN "collect" ELSE "close"
    /\ rejected' = IF collector = "offer" THEN rejected
                   ELSE Without(rejected, offered)
    /\ UNCHANGED <<fanout, cleanup, received, gotOne, parent>>

(* retChan hands the result over: the caller goes on with it, and the      *)
(* collector to the rest of its loop or, after a fallback, to the closing  *)
(* of what is left in rejected. The send of the fallback does not set      *)
(* gotOne.                                                                 *)
Handover ==
    /\ collector \in {"offer", "fallback"}
    /\ caller = "waiting"
    /\ ret' = offered
    /\ caller' = "reading"
    /\ offered' = NoUrl
    /\ IF collector = "offer"
       THEN /\ collector' = "collect"
            /\ gotOne' = TRUE
            /\ UNCHANGED rejected
       ELSE /\ collector' = "close"
            /\ rejected' = Without(rejected, offered)
            /\ UNCHANGED gotOne
    /\ UNCHANGED <<fanout, cleanup, received, parent>>

(* The bodies of unused responses are closed one after the other; a result *)
(* that is an error has none.                                              *)
CollectorCloses ==
    /\ collector = "close"
    /\ IF rejected = <<>>
       THEN /\ collector' = "done"
            /\ UNCHANGED <<rejected, body>>
       ELSE /\ rejected' = Tail(rejected)
            /\ body' = [body EXCEPT ![Head(rejected)] =
                          IF @ = "open" THEN "closed" ELSE @]
            /\ UNCHANGED collector
    /\ UNCHANGED <<arrived, received, gotOne, offered, cleanup, caller, ret,
                   parent>>

(* The goroutine doFirst starts once it has the result: "Assert that no    *)
(* more returns are provided", "Cancel everything we're not using".        *)
ClosesRetChan ==
    /\ caller # "waiting"
    /\ ~retClosed
    /\ retClosed' = TRUE
    /\ UNCHANGED <<fanout, collect, next, cancelled, caller, ret, parent>>

(* Mutant of Unused: the returned request is cancelled with the others.    *)
UsedOrNot(u) == TRUE

Unused(u) == u # ret

MoreToCancel == next <= N

CancelsNext ==
    /\ retClosed
    /\ MoreToCancel
    /\ cancelled' = IF Unused(next) THEN cancelled \cup {next} ELSE cancelled
    /\ next' = next + 1
    /\ UNCHANGED <<fanout, collect, retClosed, caller, ret, parent>>

(* The handler reads the body of the response it was given and closes it;  *)
(* net/http ends the context of a request whose handler has returned.      *)
CallerFinishes ==
    /\ caller = "reading"
    /\ caller' = "finished"
    /\ body' = [body EXCEPT ![ret] = IF @ = "open" THEN "closed" ELSE @]
    /\ parent' = TRUE
    /\ UNCHANGED <<arrived, collect, cleanup, ret>>

(* The client of the handler goes away.                                    *)
ClientLeaves ==
    /\ ~parent
    /\ parent' = TRUE
    /\ UNCHANGED <<fanout, collect, cleanup, caller, ret>>

(* Every goroutine of doFirst has ended.                                   *)
Settled == /\ \A u \in Urls : Done(u)
           /\ collector = "done"
           /\ next = N + 1

Terminated == Settled /\ caller = "finished" /\ UNCHANGED vars

Next == \/ \E u \in Urls : WorkerSends(u)
        \/ CollectorReceives \/ CollectorLeavesLoop \/ Handover
        \/ CollectorCloses \/ ClosesRetChan \/ CancelsNext
        \/ CallerFinishes \/ ClientLeaves \/ Terminated

(* Go runs every goroutine that can run, handlers end, and client.Do       *)
(* returns once its context is done. Nothing makes a mirror answer, and    *)
(* nothing makes a client leave.                                           *)
Fairness == /\ WF_vars(CollectorReceives) /\ WF_vars(CollectorLeavesLoop)
            /\ WF_vars(Handover) /\ WF_vars(CollectorCloses)
            /\ WF_vars(ClosesRetChan) /\ WF_vars(CancelsNext)
            /\ WF_vars(CallerFinishes)
            /\ \A u \in Urls : WF_vars(ContextDone(u) /\ WorkerSends(u))

Spec == Init /\ [][Next]_vars
FairSpec == Spec /\ Fairness

-----------------------------------------------------------------------------
(* Nothing is sent on retChan once it is closed, which would panic: after  *)
(* the caller has its result the collector never offers another, whatever  *)
(* still arrives ("Assert that no more returns are provided", 809-810).    *)
NoSendAfterClose == retClosed => collector \notin {"offer", "fallback"}

(* The response doFirst returns stays usable: while the handler reads it   *)
(* nobody else closes its body (801-805), and its request is never         *)
(* cancelled by the clean-up (812-816), which runs at the same time.       *)
ReturnedStaysUsable ==
    ret # NoUrl =>
      /\ ret \notin cancelled
      /\ caller = "reading" => body[ret] # "closed"
      /\ \A i \in DOMAIN rejected : rejected[i] # ret

(* Every response body has an owner that will close it: a result still in  *)
(* the channel, one offered to the caller, one rejected, or the caller's.  *)
NoBodyLost ==
    \A u \in Urls :
      body[u] = "open" =>
        \/ \E i \in received + 1 .. Len(arrived) : arrived[i].url = u
        \/ u = offered
        \/ \E i \in DOMAIN rejected : rejected[i] = u
        \/ u = ret /\ caller = "reading"

(* The caller has its result without waiting for mirrors that do not       *)
(* answer once there is a good answer, however late and among however many *)
(* failures, or its client has left, although it waits on retChan alone    *)
(* (807).                                                                  *)
CallerReturns ==
    (parent \/ \E i \in DOMAIN arrived : arrived[i].outcome = "good")
      ~> (caller # "waiting")

(* Once the caller has its result every request still running is cancelled *)
(* or ends with it, every goroutine of doFirst ends, and no body stays     *)
(* open (800-817).                                                         *)
EverythingReleased ==
    (caller # "waiting") ~> (Settled /\ \A u \in Urls : body[u] # "open")

(* doFirst does what its comment says.                                     *)
First == INSTANCE FirstResponse WITH answers <- arrived
ImplementsFirstResponse == First!Spec
=============================================================================
