--------------------------- MODULE GetPeersProofs ---------------------------
(***************************************************************************)
(* Theorems about GetPeers, for any number of servers and info-hashes and  *)
(* whatever the traversals find.                                           *)
(***************************************************************************)
EXTENDS GetPeers, FiniteSetTheorems, TLAPS

(* The loops start the traversals in order, and what has not been started  *)
(* has neither traversal nor goroutine; past wg.Wait every goroutine is    *)
(* done, and only past it is the channel closed.                           *)
Staged ==
    /\ \A t \in Pairs : t > started => /\ worker[t] = "none"
                                       /\ traversal[t] = "none"
    /\ \A t \in 1 .. started : worker[t] # "none"
    /\ main \in {"waiting", "closing"} => started = N
    /\ main = "closing" \/ peers = "closed" =>
         \A t \in Pairs : worker[t] = "done"
    /\ peers = "closed" => main \in {"closing", "deferred", "returned"}
    /\ main = "returned" => \A t \in Pairs : traversal[t] # "running"

(* What a traversal handed over was received by the caller or is still to  *)
(* be sent; a goroutine leaves peers unsent only when the context is done. *)
Balanced ==
    /\ \A t \in Pairs :
         /\ found[t] = delivered[t] + batch[t]
         /\ worker[t] = "sending" => batch[t] > 0
         /\ worker[t] \in {"none", "receiving"} => batch[t] = 0
         /\ worker[t] = "done" /\ batch[t] # 0 => ctx
    /\ result = "ok" =>
         /\ peers = "closed"
         /\ \A t \in Pairs : worker[t] = "done" /\ batch[t] = 0

Inv == TypeOK /\ Staged /\ Balanced

LEMMA InvInit == Init => Inv
<1> SUFFICES ASSUME Init PROVE Inv
    OBVIOUS
<1> USE GetPeersAssumption DEF Init, Pairs
<1>1. TypeOK
  <2>1. /\ found \in [Pairs -> 0 .. MaxPeers]
        /\ batch \in [Pairs -> 0 .. MaxBatch]
        OBVIOUS
  <2>2. delivered \in [Pairs -> 0 .. MaxPeers] /\ started \in 0 .. N
        OBVIOUS
  <2> QED BY <2>1, <2>2 DEF TypeOK
<1>2. Staged
      BY DEF Staged
<1>3. Balanced
      BY DEF Balanced
<1> QED BY <1>1, <1>2, <1>3 DEF Inv

LEMMA TypeNext == Inv /\ [Next]_vars => TypeOK'
<1> SUFFICES ASSUME Inv, [Next]_vars PROVE TypeOK'
    OBVIOUS
<1> USE GetPeersAssumption DEF Inv, TypeOK, Pairs, vars
<1>1. CASE StartsTraversal
  <2>1. started + 1 \in 1 .. N
        BY <1>1 DEF StartsTraversal
  <2> QED BY <1>1, <2>1 DEF StartsTraversal
<1>2. CASE StartFails
      BY <1>2 DEF StartFails
<1>3. CASE StartsWaiting
      BY <1>3 DEF StartsWaiting
<1>4. CASE WaitReturns
      BY <1>4 DEF WaitReturns
<1>5. CASE ClosesPeers
      BY <1>5 DEF ClosesPeers
<1>6. CASE ReadsCtxErr
      BY <1>6 DEF ReadsCtxErr
<1>7. CASE Returns
      BY <1>7 DEF Returns, Closed
<1>8. ASSUME NEW t \in Pairs, WorkerReceives(t) PROVE TypeOK'
  <2>1. PICK k \in 1 .. MaxBatch :
          /\ found[t] + k <= MaxPeers
          /\ found' = [found EXCEPT ![t] = @ + k]
          /\ batch' = [batch EXCEPT ![t] = k]
        BY <1>8 DEF WorkerReceives
  <2>2. found[t] + k \in 0 .. MaxPeers /\ k \in 0 .. MaxBatch
        BY <2>1
  <2>3. found' \in [Pairs -> 0 .. MaxPeers]
        BY <2>1, <2>2
  <2>4. batch' \in [Pairs -> 0 .. MaxBatch]
        BY <2>1, <2>2
  <2> QED BY <1>8, <2>3, <2>4 DEF WorkerReceives
<1>9. ASSUME NEW t \in Pairs, WorkerEnds(t) PROVE TypeOK'
      BY <1>9 DEF WorkerEnds
<1>10. ASSUME NEW t \in Pairs, WorkerSends(t) PROVE TypeOK'
  <2>1. /\ batch[t] - 1 \in 0 .. MaxBatch
        /\ delivered[t] + 1 \in 0 .. MaxPeers
    <3>1. /\ batch[t] \in 0 .. MaxBatch /\ batch[t] > 0
          /\ found[t] \in 0 .. MaxPeers /\ delivered[t] \in 0 .. MaxPeers
          /\ found[t] = delivered[t] + batch[t]
          BY <1>10 DEF WorkerSends, Balanced
    <3> HIDE DEF Inv, TypeOK, Pairs
    <3> QED BY <3>1
  <2> QED BY <1>10, <2>1 DEF WorkerSends
<1>11. ASSUME NEW t \in Pairs, WorkerGivesUp(t) PROVE TypeOK'
      BY <1>11 DEF WorkerGivesUp, Closed
<1>12. ASSUME NEW t \in Pairs, TraversalExhausts(t) PROVE TypeOK'
      BY <1>12 DEF TraversalExhausts
<1>13. CASE ContextEnds
      BY <1>13 DEF ContextEnds
<1>14. CASE ConsumerFinishes
      BY <1>14 DEF ConsumerFinishes
<1>15. CASE Terminated
      BY <1>15 DEF Terminated
<1>16. CASE UNCHANGED vars
      BY <1>16
<1> QED BY <1>1, <1>2, <1>3, <1>4, <1>5, <1>6, <1>7,
        <1>8, <1>9, <1>10, <1>11, <1>12, <1>13, <1>14, <1>15, <1>16
        DEF Next, Main, Worker

LEMMA StagedNext == Inv /\ [Next]_vars => Staged'
<1> SUFFICES ASSUME Inv, [Next]_vars PROVE Staged'
    OBVIOUS
<1> USE GetPeersAssumption DEF Inv, TypeOK, Pairs, Staged, vars
<1>1. CASE StartsTraversal
      BY <1>1 DEF StartsTraversal
<1>2. CASE StartFails
      BY <1>2 DEF StartFails
<1>3. CASE StartsWaiting
      BY <1>3 DEF StartsWaiting
<1>4. CASE WaitReturns
      BY <1>4 DEF WaitReturns
<1>5. CASE ClosesPeers
      BY <1>5 DEF ClosesPeers
<1>6. CASE ReadsCtxErr
      BY <1>6 DEF ReadsCtxErr
<1>7. CASE Returns
      BY <1>7 DEF Returns, Closed
<1>8. ASSUME NEW t \in Pairs, WorkerReceives(t) PROVE Staged'
      BY <1>8 DEF WorkerReceives
<1>9. ASSUME NEW t \in Pairs, WorkerEnds(t) PROVE Staged'
      BY <1>9 DEF WorkerEnds
<1>10. ASSUME NEW t \in Pairs, WorkerSends(t) PROVE Staged'
      BY <1>10 DEF WorkerSends
<1>11. ASSUME NEW t \in Pairs, WorkerGivesUp(t) PROVE Staged'
      BY <1>11 DEF WorkerGivesUp, Closed
<1>12. ASSUME NEW t \in Pairs, TraversalExhausts(t) PROVE Staged'
      BY <1>12 DEF TraversalExhausts
<1>13. CASE ContextEnds
      BY <1>13 DEF ContextEnds
<1>14. CASE ConsumerFinishes
      BY <1>14 DEF ConsumerFinishes
<1>15. CASE Terminated
      BY <1>15 DEF Terminated
<1>16. CASE UNCHANGED vars
      BY <1>16
<1> QED BY <1>1, <1>2, <1>3, <1>4, <1>5, <1>6, <1>7,
        <1>8, <1>9, <1>10, <1>11, <1>12, <1>13, <1>14, <1>15, <1>16
        DEF Next, Main, Worker

LEMMA BalancedNext == Inv /\ [Next]_vars => Balanced'
<1> SUFFICES ASSUME Inv, [Next]_vars PROVE Balanced'
    OBVIOUS
<1> USE GetPeersAssumption DEF Inv, TypeOK, Pairs, Balanced, vars
<1>1. CASE StartsTraversal
      BY <1>1 DEF StartsTraversal, Staged
<1>2. CASE StartFails
      BY <1>2 DEF StartFails
<1>3. CASE StartsWaiting
      BY <1>3 DEF StartsWaiting
<1>4. CASE WaitReturns
      BY <1>4 DEF WaitReturns
<1>5. CASE ClosesPeers
      BY <1>5 DEF ClosesPeers
<1>6. CASE ReadsCtxErr
      BY <1>6 DEF ReadsCtxErr, Staged
<1>7. CASE Returns
      BY <1>7 DEF Returns
<1>8. ASSUME NEW t \in Pairs, WorkerReceives(t) PROVE Balanced'
      BY <1>8 DEF WorkerReceives, Staged
<1>9. ASSUME NEW t \in Pairs, WorkerEnds(t) PROVE Balanced'
      BY <1>9 DEF WorkerEnds
<1>10. ASSUME NEW t \in Pairs, WorkerSends(t) PROVE Balanced'
  <2>1. result # "ok"
        BY <1>10 DEF WorkerSends
  <2>0. /\ batch[t] > 0 /\ batch'[t] = batch[t] - 1
        /\ delivered'[t] = delivered[t] + 1
        BY <1>10 DEF WorkerSends
  <2>2. /\ worker'[t] = IF batch[t] = 1 THEN "receiving" ELSE "sending"
        /\ UNCHANGED <<found, ctx, result>>
        BY <1>10 DEF WorkerSends
  <2>3. \A u \in Pairs \ {t} : /\ batch'[u] = batch[u]
                               /\ delivered'[u] = delivered[u]
                               /\ worker'[u] = worker[u]
        BY <1>10 DEF WorkerSends
  <2>4. /\ found[t] \in Nat /\ delivered[t] \in Nat /\ batch[t] \in Nat
        /\ found[t] = delivered[t] + batch[t]
        OBVIOUS
  <2>5. /\ found'[t] = delivered'[t] + batch'[t]
        /\ worker'[t] = "sending" => batch'[t] > 0
        /\ worker'[t] = "receiving" => batch'[t] = 0
        /\ worker'[t] \in {"sending", "receiving"}
    <3> HIDE DEF Inv, TypeOK, Pairs, Balanced
    <3> QED BY <2>0, <2>2, <2>4
  <2>6. \A u \in Pairs \ {t} :
          /\ found'[u] = delivered'[u] + batch'[u]
          /\ worker'[u] = "sending" => batch'[u] > 0
          /\ worker'[u] \in {"none", "receiving"} => batch'[u] = 0
          /\ worker'[u] = "done" /\ batch'[u] # 0 => ctx'
        BY <2>2, <2>3
  <2> QED BY <2>0, <2>1, <2>2, <2>5, <2>6
<1>11. ASSUME NEW t \in Pairs, WorkerGivesUp(t) PROVE Balanced'
      BY <1>11 DEF WorkerGivesUp
<1>12. ASSUME NEW t \in Pairs, TraversalExhausts(t) PROVE Balanced'
      BY <1>12 DEF TraversalExhausts
<1>13. CASE ContextEnds
      BY <1>13 DEF ContextEnds
<1>14. CASE ConsumerFinishes
      BY <1>14 DEF ConsumerFinishes
<1>15. CASE Terminated
      BY <1>15 DEF Terminated
<1>16. CASE UNCHANGED vars
      BY <1>16
<1> QED BY <1>1, <1>2, <1>3, <1>4, <1>5, <1>6, <1>7,
        <1>8, <1>9, <1>10, <1>11, <1>12, <1>13, <1>14, <1>15, <1>16
        DEF Next, Main, Worker

LEMMA InvAlways == Spec => []Inv
<1>1. Inv /\ [Next]_vars => Inv'
      BY TypeNext, StagedNext, BalancedNext DEF Inv
<1> QED BY InvInit, <1>1, PTL DEF Spec

(* Every variable keeps its type: in particular a goroutine never delivers *)
(* more than its traversal handed over.                                    *)
THEOREM TypeCorrect == Spec => []TypeOK
<1>1. Inv => TypeOK
      BY DEF Inv
<1> QED BY <1>1, InvAlways, PTL

(* close(peers) meets no goroutine that is sending, however many there are *)
(* and even when the traversals they range over are still running          *)
(* (announce.go:60-73).                                                    *)
THEOREM ClosedAfterSends == Spec => []NoSendOnClosedChannel
<1>1. Inv => NoSendOnClosedChannel
      BY DEF Inv, Staged, NoSendOnClosedChannel
<1> QED BY <1>1, InvAlways, PTL

(* A nil error means that every peer found was delivered (announce.go:74): *)
(* a goroutine that gave some up did so with the context done, and a       *)
(* context that is done stays so until it is read.                         *)
THEOREM NilDelivered == Spec => []NilMeansAllDelivered
<1>1. Inv => NilMeansAllDelivered
      BY DEF Inv, TypeOK, Balanced, NilMeansAllDelivered
<1> QED BY <1>1, InvAlways, PTL

(* Once GetPeers has returned no traversal it started still runs           *)
(* (announce.go:55-59).                                                    *)
THEOREM TraversalsClosed == Spec => []NoTraversalOutlives
<1>1. Inv => NoTraversalOutlives
      BY DEF Inv, Staged, NoTraversalOutlives
<1> QED BY <1>1, InvAlways, PTL

-----------------------------------------------------------------------------
(* A channel that is not closed when GetPeers returns is that of a failed  *)
(* start, and only a closed one ends the caller's range over it.           *)
Ending ==
    /\ consumer = "finished" => peers = "closed"
    /\ main \in {"deferred", "returned"} =>
         peers = "closed" \/ result = "error"

(* What EverythingEnds is about is still to come.                          *)
Owed == ~(/\ main = "returned" /\ WorkersDone
          /\ consumer = "finished" \/ result = "error")

(* The guards of the actions Fairness names: those of Main, of Worker and  *)
(* TraversalExhausts, and of ConsumerFinishes.                             *)
CanGoOn ==
    \/ main \in {"starting", "closing", "deferred"}
    \/ main = "waiting" /\ \A t \in 1 .. started : worker[t] = "done"
    \/ \E t \in Pairs :
         \/ worker[t] = "receiving" /\ traversal[t] # "running"
         \/ /\ worker[t] = "sending"
            /\ ctx \/ (peers = "open" /\ consumer = "ranging")
         \/ traversal[t] = "running"
    \/ consumer = "ranging" /\ peers = "closed"

(* Until everything has ended something can go on: wg.Wait does not wait   *)
(* for a goroutine that waits for a send nobody receives, nor the caller   *)
(* for a close that does not come (announce.go:41-75).                     *)
NeverStuck == Owed => CanGoOn

LEMMA EndingNext == Inv /\ Ending /\ [Next]_vars => Ending'
<1> SUFFICES ASSUME Inv, Ending, [Next]_vars PROVE Ending'
    OBVIOUS
<1>1. CASE Main
      BY <1>1 DEF Ending, Main, StartsTraversal, StartFails, StartsWaiting,
                  WaitReturns, ClosesPeers, ReadsCtxErr, Returns
<1>2. ASSUME NEW t \in Pairs, Worker(t) \/ TraversalExhausts(t)
      PROVE  Ending'
      BY <1>2 DEF Ending, Worker, WorkerReceives, WorkerEnds, WorkerSends,
                  WorkerGivesUp, TraversalExhausts
<1>3. CASE ContextEnds \/ ConsumerFinishes \/ Terminated \/ UNCHANGED vars
      BY <1>3 DEF Ending, ContextEnds, ConsumerFinishes, Terminated, vars
<1> QED BY <1>1, <1>2, <1>3 DEF Next

LEMMA NotStuck == Inv /\ Ending => NeverStuck
<1> SUFFICES ASSUME Inv, Ending, Owed, ~CanGoOn PROVE FALSE
    BY DEF NeverStuck
<1>1. TypeOK /\ Staged /\ Balanced
      BY DEF Inv
<1>2. main \in {"waiting", "returned"}
      BY <1>1 DEF CanGoOn, TypeOK
<1>3. \A t \in Pairs : worker[t] # "sending"
  <2> SUFFICES ASSUME NEW t \in Pairs, worker[t] = "sending" PROVE FALSE
      OBVIOUS
  <2>1. peers = "open"
        BY <1>1 DEF Staged, TypeOK
  <2>2. consumer = "ranging"
        BY <1>1, <2>1 DEF Ending, TypeOK
  <2> QED BY <2>1, <2>2 DEF CanGoOn
<1>4. \A t \in Pairs : worker[t] \in {"none", "done"}
      BY <1>1, <1>3 DEF CanGoOn, TypeOK
<1>5. \A t \in 1 .. started : t \in Pairs
      BY <1>1, GetPeersAssumption DEF TypeOK, Pairs
<1>6. WorkersDone
      BY <1>1, <1>4, <1>5 DEF Staged, WorkersDone
<1>7. main = "returned"
      BY <1>2, <1>6 DEF CanGoOn, WorkersDone
<1>8. consumer = "ranging" /\ result # "error"
      BY <1>1, <1>6, <1>7 DEF Owed, TypeOK
<1>9. peers = "closed"
      BY <1>7, <1>8 DEF Ending
<1> QED BY <1>8, <1>9 DEF CanGoOn

(* GetPeers, its goroutines and the caller's never wait for each other all *)
(* at once, for any number of traversals: the safety half of               *)
(* EverythingEnds (announce.go:41-75).                                     *)
THEOREM GetPeersGoesOn == Spec => []NeverStuck
<1>1. Init => Ending
      BY DEF Init, Ending
<1> QED BY <1>1, EndingNext, NotStuck, InvAlways, PTL DEF Spec

(* What is still to come, as sets: traversals to start, stages of GetPeers,*)
(* peers to find and to deliver, goroutines to end, traversals to stop,    *)
(* and the single events.                                                  *)
Stage == [starting |-> 0, waiting |-> 1, closing |-> 2, deferred |-> 3,
          returned |-> 4]

Starts == {t \in Pairs : started < t}
Stages == Stage[main] + 1 .. 4
Finds == {p \in Pairs \X (1 .. MaxPeers) : found[p[1]] < p[2]}
Deliveries == {p \in Pairs \X (1 .. MaxPeers) : delivered[p[1]] < p[2]}
Goroutines == {t \in Pairs : worker[t] # "done"}
Traversals == {t \in Pairs : traversal[t] \in {"none", "running"}}
Events == {e \in {"done", "close", "leave"} :
             \/ e = "done" /\ ~ctx
             \/ e = "close" /\ peers = "open"
             \/ e = "leave" /\ consumer = "ranging"}

Left == <<Starts, Stages, Finds, Deliveries, Goroutines, Traversals, Events>>

(* Every step takes something from one of these sets and adds to none.     *)
StepsRunOut == [][/\ \A k \in 1 .. 7 : Left'[k] \subseteq Left[k]
                  /\ \E k \in 1 .. 7 : Left'[k] # Left[k]]_vars

(* What no step ever takes back.                                           *)
Onward ==
    /\ started <= started' /\ Stage[main] <= Stage[main']
    /\ \A t \in Pairs : /\ found[t] <= found'[t]
                        /\ delivered[t] <= delivered'[t]
                        /\ worker[t] = "done" => worker'[t] = "done"
                        /\ traversal[t] \in {"exhausted", "closed"} =>
                             traversal'[t] \in {"exhausted", "closed"}
    /\ ctx => ctx'
    /\ peers = "closed" => peers' = "closed"
    /\ consumer = "finished" => consumer' = "finished"

(* What a step brings nearer.                                              *)
Farther ==
    \/ started < started' \/ Stage[main] < Stage[main']
    \/ \E t \in Pairs : \/ found[t] < found'[t]
                        \/ delivered[t] < delivered'[t]
                        \/ worker[t] # "done" /\ worker'[t] = "done"
                        \/ /\ traversal[t] \in {"none", "running"}
                           /\ traversal'[t] \notin {"none", "running"}
    \/ ~ctx /\ ctx'
    \/ peers = "open" /\ peers' = "closed"
    \/ consumer = "ranging" /\ consumer' = "finished"

LEMMA ClosedStops ==
    ASSUME TypeOK, NEW S \in SUBSET Pairs, NEW t \in Pairs,
           traversal[t] \in {"exhausted", "closed"}
    PROVE  Closed(S)[t] \in {"exhausted", "closed"}
BY DEF Closed, TypeOK

LEMMA StepsForward == TypeOK /\ Staged /\ Balanced /\ TypeOK' /\ Next
                        => UNCHANGED vars \/ (Onward /\ Farther)
<1> SUFFICES ASSUME TypeOK, Staged, Balanced, TypeOK', Next
             PROVE  UNCHANGED vars \/ (Onward /\ Farther)
    OBVIOUS
<1>1. started \in 0 .. N /\ N \in Nat
      BY GetPeersAssumption DEF TypeOK
<1>2. \A t \in Pairs : found[t] \in Nat /\ delivered[t] \in Nat
      BY GetPeersAssumption DEF TypeOK
<1>3. /\ found \in [Pairs -> 0 .. MaxPeers]
      /\ delivered \in [Pairs -> 0 .. MaxPeers]
      /\ worker \in [Pairs -> {"none", "receiving", "sending", "done"}]
      /\ traversal \in [Pairs -> {"none", "running", "exhausted", "closed"}]
      BY DEF TypeOK
<1> USE DEF Onward, Farther, Stage
<1>4. CASE StartsTraversal
  <2>1. started + 1 \in Pairs /\ started + 1 > started
        BY <1>1, <1>4 DEF StartsTraversal, Pairs
  <2>2. worker[started + 1] = "none" /\ traversal[started + 1] = "none"
        BY <2>1 DEF Staged
  <2> QED BY <1>1, <1>2, <1>3, <1>4, <2>1, <2>2 DEF StartsTraversal
<1>5. CASE StartFails \/ StartsWaiting \/ WaitReturns \/ ReadsCtxErr
      BY <1>1, <1>2, <1>5
         DEF StartFails, StartsWaiting, WaitReturns, ReadsCtxErr
<1>6. CASE ClosesPeers
      BY <1>1, <1>2, <1>6 DEF ClosesPeers, TypeOK
<1>7. CASE Returns
  <2>1. 1 .. started \in SUBSET Pairs
        BY <1>1 DEF Pairs
  <2>2. \A t \in Pairs : traversal[t] \in {"exhausted", "closed"} =>
          traversal'[t] \in {"exhausted", "closed"}
        BY <1>7, <2>1, ClosedStops DEF Returns
  <2> QED BY <1>1, <1>2, <1>7, <2>2 DEF Returns
<1>8. ASSUME NEW t \in Pairs, WorkerReceives(t) PROVE Onward /\ Farther
      BY <1>1, <1>2, <1>3, <1>8 DEF WorkerReceives, TypeOK
<1>9. ASSUME NEW t \in Pairs, WorkerEnds(t) PROVE Onward /\ Farther
      BY <1>1, <1>2, <1>3, <1>9 DEF WorkerEnds, TypeOK
<1>10. ASSUME NEW t \in Pairs, WorkerSends(t) PROVE Onward /\ Farther
      BY <1>1, <1>2, <1>3, <1>10 DEF WorkerSends, TypeOK
<1>11. ASSUME NEW t \in Pairs, WorkerGivesUp(t) PROVE Onward /\ Farther
  <2>1. \A v \in Pairs : traversal[v] \in {"exhausted", "closed"} =>
          traversal'[v] \in {"exhausted", "closed"}
        BY <1>11, ClosedStops DEF WorkerGivesUp
  <2> QED BY <1>1, <1>2, <1>3, <1>11, <2>1 DEF WorkerGivesUp, TypeOK
<1>12. ASSUME NEW t \in Pairs, TraversalExhausts(t) PROVE Onward /\ Farther
      BY <1>1, <1>2, <1>3, <1>12 DEF TraversalExhausts, TypeOK
<1>13. CASE ContextEnds \/ ConsumerFinishes
      BY <1>1, <1>2, <1>13 DEF ContextEnds, ConsumerFinishes, TypeOK
<1>14. CASE Terminated
      BY <1>14 DEF Terminated
<1> QED BY <1>4, <1>5, <1>6, <1>7, <1>8, <1>9, <1>10, <1>11, <1>12, <1>13,
           <1>14
        DEF Next, Main, Worker

LEMMA OnwardAddsNothing ==
    ASSUME TypeOK, TypeOK', Onward
    PROVE  /\ Starts' \subseteq Starts /\ Stages' \subseteq Stages
           /\ Finds' \subseteq Finds /\ Deliveries' \subseteq Deliveries
           /\ Goroutines' \subseteq Goroutines
           /\ Traversals' \subseteq Traversals /\ Events' \subseteq Events
<1> USE GetPeersAssumption
<1>1. Starts' \subseteq Starts
  <2>1. started \in Int /\ started' \in Int /\ Pairs \subseteq Int
        BY DEF TypeOK, Pairs
  <2>2. started <= started'
        BY DEF Onward
  <2>3. \A t \in Pairs : started' < t => started < t
        BY <2>1, <2>2
  <2> QED BY <2>3 DEF Starts
<1>2. Stages' \subseteq Stages
  <2>1. Stage[main] \in 0 .. 4 /\ Stage[main'] \in 0 .. 4
        BY DEF TypeOK, Stage
  <2>2. Stage[main] <= Stage[main']
        BY DEF Onward
  <2> QED BY <2>1, <2>2 DEF Stages
<1>3. /\ \A t \in Pairs : /\ found[t] \in Nat /\ found'[t] \in Nat
                          /\ delivered[t] \in Nat /\ delivered'[t] \in Nat
      BY DEF TypeOK
<1>4. Finds' \subseteq Finds
      BY <1>3 DEF Finds, Onward
<1>5. Deliveries' \subseteq Deliveries
      BY <1>3 DEF Deliveries, Onward
<1>6. Goroutines' \subseteq Goroutines
      BY DEF Goroutines, Onward
<1>7. Traversals' \subseteq Traversals
      BY DEF Traversals, Onward, TypeOK
<1>8. Events' \subseteq Events
      BY DEF Events, Onward, TypeOK
<1> QED BY <1>1, <1>2, <1>4, <1>5, <1>6, <1>7, <1>8

LEMMA FartherTakesSome ==
    ASSUME TypeOK, TypeOK', Onward, Farther
    PROVE  \/ Starts' # Starts \/ Stages' # Stages \/ Finds' # Finds
           \/ Deliveries' # Deliveries \/ Goroutines' # Goroutines
           \/ Traversals' # Traversals \/ Events' # Events
<1> USE GetPeersAssumption
<1>1. CASE started < started'
  <2>1. started \in Nat /\ started' \in Nat /\ started' <= N
        BY DEF TypeOK
  <2>2. started' \in Pairs
        BY <1>1, <2>1 DEF Pairs
  <2>3. started' \in Starts /\ started' \notin Starts'
        BY <1>1, <2>1, <2>2 DEF Starts
  <2> QED BY <2>3
<1>2. CASE Stage[main] < Stage[main']
  <2>1. Stage[main] \in 0 .. 4 /\ Stage[main'] \in 0 .. 4
        BY DEF TypeOK, Stage
  <2>2. Stage[main'] \in Stages /\ Stage[main'] \notin Stages'
        BY <1>2, <2>1 DEF Stages
  <2> QED BY <2>2
<1>3. ASSUME NEW t \in Pairs, found[t] < found'[t]
      PROVE  Finds' # Finds
  <2>1. found[t] \in Nat /\ found'[t] \in 1 .. MaxPeers
        BY <1>3 DEF TypeOK
  <2>2. <<t, found'[t]>> \in Finds /\ <<t, found'[t]>> \notin Finds'
        BY <1>3, <2>1 DEF Finds
  <2> QED BY <2>2
<1>4. ASSUME NEW t \in Pairs, delivered[t] < delivered'[t]
      PROVE  Deliveries' # Deliveries
  <2>1. delivered[t] \in Nat /\ delivered'[t] \in 1 .. MaxPeers
        BY <1>4 DEF TypeOK
  <2>2. /\ <<t, delivered'[t]>> \in Deliveries
        /\ <<t, delivered'[t]>> \notin Deliveries'
        BY <1>4, <2>1 DEF Deliveries
  <2> QED BY <2>2
<1>5. ASSUME NEW t \in Pairs, worker[t] # "done", worker'[t] = "done"
      PROVE  Goroutines' # Goroutines
  <2>1. t \in Goroutines /\ t \notin Goroutines'
        BY <1>5 DEF Goroutines
  <2> QED BY <2>1
<1>6. ASSUME NEW t \in Pairs, traversal[t] \in {"none", "running"},
             traversal'[t] \notin {"none", "running"}
      PROVE  Traversals' # Traversals
  <2>1. t \in Traversals /\ t \notin Traversals'
        BY <1>6 DEF Traversals
  <2> QED BY <2>1
<1>7. CASE ~ctx /\ ctx'
  <2>1. "done" \in Events /\ "done" \notin Events'
        BY <1>7 DEF Events
  <2> QED BY <2>1
<1>8. CASE peers = "open" /\ peers' = "closed"
  <2>1. "close" \in Events /\ "close" \notin Events'
        BY <1>8 DEF Events
  <2> QED BY <2>1
<1>9. CASE consumer = "ranging" /\ consumer' = "finished"
  <2>1. "leave" \in Events /\ "leave" \notin Events'
        BY <1>9 DEF Events
  <2> QED BY <2>1
<1> QED BY <1>1, <1>2, <1>3, <1>4, <1>5, <1>6, <1>7, <1>8, <1>9 DEF Farther

LEMMA ForwardShrinks == TypeOK /\ TypeOK' /\ Onward /\ Farther
    => /\ \A k \in 1 .. 7 : Left'[k] \subseteq Left[k]
       /\ \E k \in 1 .. 7 : Left'[k] # Left[k]
<1> SUFFICES ASSUME TypeOK, TypeOK', Onward, Farther
             PROVE  /\ \A k \in 1 .. 7 : Left'[k] \subseteq Left[k]
                    /\ \E k \in 1 .. 7 : Left'[k] # Left[k]
    OBVIOUS
<1>1. \A k \in 1 .. 7 : Left'[k] \subseteq Left[k]
  <2>1. \A k \in 1 .. 7 : k = 1 \/ k = 2 \/ k = 3 \/ k = 4 \/ k = 5 \/ k = 6
                          \/ k = 7
        OBVIOUS
  <2> QED BY <2>1, OnwardAddsNothing DEF Left
<1>2. \E k \in 1 .. 7 : Left'[k] # Left[k]
  <2>1. /\ Left[1] = Starts /\ Left[2] = Stages /\ Left[3] = Finds
        /\ Left[4] = Deliveries /\ Left[5] = Goroutines
        /\ Left[6] = Traversals /\ Left[7] = Events
        BY DEF Left
  <2>2. /\ Left'[1] = Starts' /\ Left'[2] = Stages' /\ Left'[3] = Finds'
        /\ Left'[4] = Deliveries' /\ Left'[5] = Goroutines'
        /\ Left'[6] = Traversals' /\ Left'[7] = Events'
        BY DEF Left
  <2> QED BY <2>1, <2>2, FartherTakesSome
<1> QED BY <1>1, <1>2

(* The sets are finite, whatever the traversals find.                      *)
LEMMA LeftIsFinite == TypeOK => \A k \in 1 .. 7 : IsFiniteSet(Left[k])
<1> SUFFICES ASSUME TypeOK PROVE \A k \in 1 .. 7 : IsFiniteSet(Left[k])
    OBVIOUS
<1>1. IsFiniteSet(Pairs) /\ IsFiniteSet(1 .. MaxPeers)
      BY FS_Interval, GetPeersAssumption DEF Pairs
<1>2. IsFiniteSet(Pairs \X (1 .. MaxPeers))
      BY <1>1, FS_Product
<1>3. IsFiniteSet(Starts)
  <2>1. Starts \in SUBSET Pairs
        BY DEF Starts
  <2> QED BY <1>1, <2>1, FS_Subset
<1>4. IsFiniteSet(Stages)
  <2>1. Stage[main] + 1 \in Int /\ 4 \in Int
        BY DEF TypeOK, Stage
  <2> QED BY <2>1, FS_Interval DEF Stages
<1>5. IsFiniteSet(Finds) /\ IsFiniteSet(Deliveries)
  <2>1. /\ Finds \in SUBSET (Pairs \X (1 .. MaxPeers))
        /\ Deliveries \in SUBSET (Pairs \X (1 .. MaxPeers))
        BY DEF Finds, Deliveries
  <2> QED BY <1>2, <2>1, FS_Subset
<1>6. IsFiniteSet(Goroutines) /\ IsFiniteSet(Traversals)
  <2>1. Goroutines \in SUBSET Pairs /\ Traversals \in SUBSET Pairs
        BY DEF Goroutines, Traversals
  <2> QED BY <1>1, <2>1, FS_Subset
<1>7. IsFiniteSet(Events)
  <2>1. IsFiniteSet({}) /\ IsFiniteSet({} \cup {"done"})
        BY FS_EmptySet, FS_AddElement
  <2>2. IsFiniteSet({"done"} \cup {"close"})
        BY <2>1, FS_AddElement
  <2>3. IsFiniteSet({"done", "close"} \cup {"leave"})
        BY <2>2, FS_AddElement
  <2>4. Events \in SUBSET ({"done", "close"} \cup {"leave"})
        BY DEF Events
  <2> QED BY <2>3, <2>4, FS_Subset
<1>8. \A k \in 1 .. 7 : k = 1 \/ k = 2 \/ k = 3 \/ k = 4 \/ k = 5 \/ k = 6
                        \/ k = 7
      OBVIOUS
<1> QED BY <1>3, <1>4, <1>5, <1>6, <1>7, <1>8 DEF Left

(* GetPeers and all it starts end after finitely many steps, whatever the  *)
(* traversals find and whenever the context ends: with NeverStuck this is  *)
(* why EverythingEnds, which TLC checks, holds (announce.go:41-75).        *)
THEOREM GetPeersRunsOut ==
    Spec => [](\A k \in 1 .. 7 : IsFiniteSet(Left[k])) /\ StepsRunOut
<1>1. Inv => TypeOK /\ Staged /\ Balanced
      BY DEF Inv
<1>2. TypeOK /\ Staged /\ Balanced /\ TypeOK' /\ [Next]_vars =>
        [/\ \A k \in 1 .. 7 : Left'[k] \subseteq Left[k]
         /\ \E k \in 1 .. 7 : Left'[k] # Left[k]]_vars
      BY StepsForward, ForwardShrinks
<1> QED BY <1>1, <1>2, LeftIsFinite, InvAlways, PTL DEF Spec, StepsRunOut
=============================================================================
