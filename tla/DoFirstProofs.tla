--------------------------- MODULE DoFirstProofs ---------------------------
(***************************************************************************)
(* Theorems about DoFirst, for every number of mirrors.                    *)
(*                                                                         *)
(* Sent says what the two channels hold, Chosen ties where the collector   *)
(* stands to what it has received and to the caller, Sorted keeps the      *)
(* returned result apart from the rejected ones.                           *)
(***************************************************************************)
EXTENDS DoFirst, SequenceTheorems, FiniteSetTheorems, TLAPS

(* rejected without one of its urls, when no url is in it twice: a shorter *)
(* sequence of the other urls, none of them twice.                         *)
LEMMA WithoutProperties ==
    ASSUME NEW s \in Seq(Urls), NEW k \in DOMAIN s,
           \A i, j \in DOMAIN s : s[i] = s[j] => i = j
    PROVE  /\ Without(s, s[k]) \in Seq(Urls)
           /\ \A i \in DOMAIN Without(s, s[k]) :
                /\ \E j \in DOMAIN s : Without(s, s[k])[i] = s[j]
                /\ Without(s, s[k])[i] # s[k]
           /\ \A i, j \in DOMAIN Without(s, s[k]) :
                Without(s, s[k])[i] = Without(s, s[k])[j] => i = j
           /\ \A j \in DOMAIN s : s[j] # s[k] =>
                \E i \in DOMAIN Without(s, s[k]) : Without(s, s[k])[i] = s[j]
           /\ Len(Without(s, s[k])) = Len(s) - 1
<1> DEFINE n == Len(s)
           c == CHOOSE i \in DOMAIN s : s[i] = s[k]
           r == [s EXCEPT ![c] = s[n]]
           w == SubSeq(r, 1, n - 1)
<1>1. n \in Nat /\ DOMAIN s = 1 .. n /\ k \in 1 .. n
      OBVIOUS
<1>2. c = k
      OBVIOUS
<1>3. \A i \in 1 .. n : r[i] = IF i = k THEN s[n] ELSE s[i]
      BY <1>1, <1>2
<1>4. \A i \in 1 .. n : s[i] \in Urls
      BY <1>1
<1>5. \A i \in 1 .. n - 1 : r[i] \in Urls
      BY <1>1, <1>3, <1>4
<1>6. /\ w \in Seq(Urls)
      /\ Len(w) = n - 1
      /\ \A i \in 1 .. n - 1 : w[i] = r[i]
      <2> HIDE DEF r
      <2>1. 1 \in Int /\ n - 1 \in Int
            BY <1>1
      <2> QED BY <1>1, <1>5, <2>1, SubSeqProperties
<1>7. Without(s, s[k]) = w
      BY DEF Without
<1>8. DOMAIN w = 1 .. n - 1
      BY <1>6
<1>9. \A i \in 1 .. n - 1 : w[i] = IF i = k THEN s[n] ELSE s[i]
      BY <1>1, <1>3, <1>6
<1> HIDE DEF w, r, c
<1>10. \A i \in 1 .. n - 1 : /\ \E j \in DOMAIN s : w[i] = s[j]
                             /\ w[i] # s[k]
      BY <1>1, <1>9
<1>11. \A i, j \in 1 .. n - 1 : w[i] = w[j] => i = j
      BY <1>1, <1>9
<1>12. \A j \in DOMAIN s : s[j] # s[k] => \E i \in 1 .. n - 1 : w[i] = s[j]
  <2> SUFFICES ASSUME NEW j \in DOMAIN s, s[j] # s[k]
               PROVE  \E i \in 1 .. n - 1 : w[i] = s[j]
      OBVIOUS
  <2>1. CASE j = n
        BY <1>1, <1>9, <2>1
  <2>2. CASE j # n
        BY <1>1, <1>9, <2>2
  <2> QED BY <2>1, <2>2
<1> QED BY <1>6, <1>7, <1>8, <1>10, <1>11, <1>12

-----------------------------------------------------------------------------
(* What the channels hold: every url answers once, and what is rejected,   *)
(* offered or returned has been received.                                  *)
Heard == {arrived[k].url : k \in 1 .. received}

Sent ==
    /\ received <= Len(arrived)
    /\ \A i, j \in DOMAIN arrived : arrived[i].url = arrived[j].url => i = j
    /\ \A i \in DOMAIN rejected : rejected[i] \in Heard
    /\ offered # NoUrl => offered \in Heard
    /\ ret # NoUrl => ret \in Heard
    /\ collector \in {"offer", "fallback"} <=> offered # NoUrl

(* No url is rejected twice, nor rejected and returned; the one offered is *)
(* rejected only when it is offered for want of a better one.              *)
Sorted ==
    /\ \A i, j \in DOMAIN rejected : rejected[i] = rejected[j] => i = j
    /\ \A i \in DOMAIN rejected : rejected[i] # ret
    /\ collector = "offer" => \A i \in DOMAIN rejected : rejected[i] # offered
    /\ collector = "fallback" =>
         \E i \in DOMAIN rejected : rejected[i] = offered

LEMMA TypeInit == Init => TypeOK
<1> SUFFICES ASSUME Init PROVE TypeOK
    OBVIOUS
<1> USE DoFirstAssumption DEF Init
<1>1. arrived \in Seq(Result) /\ rejected \in Seq(Urls)
      OBVIOUS
<1>2. received \in 0 .. N /\ next \in 1 .. N + 1
      OBVIOUS
<1>3. body \in [Urls -> {"none", "open", "closed"}]
      OBVIOUS
<1> QED BY <1>1, <1>2, <1>3 DEF TypeOK, NoUrl

LEMMA TypeNext == TypeOK /\ Sorted /\ [Next]_vars => TypeOK'
<1> SUFFICES ASSUME TypeOK, Sorted, [Next]_vars PROVE TypeOK'
    OBVIOUS
<1> USE DoFirstAssumption DEF TypeOK, Urls, NoUrl, vars, fanout, collect,
        cleanup
<1>1. ASSUME NEW u \in Urls, WorkerSends(u) PROVE TypeOK'
      BY <1>1, AppendProperties DEF WorkerSends, Outcome, Result
<1>2. CASE CollectorReceives
  <2>1. arrived[received + 1] \in Result
        BY <1>2, ElementOfSeq DEF CollectorReceives, HasResult, Passes, Reject
  <2>2. arrived[received + 1].url \in Urls
        BY <2>1 DEF Result
  <2>3. received + 1 \in 0 .. N
        BY <1>2 DEF CollectorReceives, HasResult, Passes, Reject
  <2>4. rejected' \in Seq(Urls)
    <3>1. CASE rejected' = rejected
          BY <3>1
    <3>2. CASE rejected' = Append(rejected, arrived[received + 1].url)
          BY <2>2, <3>2, AppendProperties
    <3> QED BY <1>2, <3>1, <3>2
               DEF CollectorReceives, HasResult, Passes, Reject
  <2> QED BY <1>2, <2>2, <2>3, <2>4
             DEF CollectorReceives, HasResult, Passes, Reject
<1>3. CASE CollectorLeavesLoop
      BY <1>3 DEF CollectorLeavesLoop
<1>4. CASE Handover
  <2>1. rejected' \in Seq(Urls)
    <3>1. CASE collector = "fallback"
      <4>1. PICK k \in DOMAIN rejected : rejected[k] = offered
            BY <3>1 DEF Sorted
      <4>2. \A i, j \in DOMAIN rejected : rejected[i] = rejected[j] => i = j
            BY DEF Sorted
      <4>3. Without(rejected, rejected[k]) \in Seq(Urls)
            BY <4>2, WithoutProperties
      <4> QED BY <1>4, <3>1, <4>1, <4>3 DEF Handover
    <3> QED BY <1>4, <3>1 DEF Handover
  <2> QED BY <1>4, <2>1 DEF Handover
<1>5. CASE CollectorCloses
  <2>1. CASE rejected = <<>>
        BY <1>5, <2>1 DEF CollectorCloses
  <2>2. CASE rejected # <<>>
    <3>1. Tail(rejected) \in Seq(Urls)
          BY <2>2, HeadTailProperties
    <3>2. body' \in [Urls -> {"none", "open", "closed"}]
          BY <1>5, <2>2 DEF CollectorCloses
    <3> QED BY <1>5, <2>2, <3>1, <3>2 DEF CollectorCloses
  <2> QED BY <2>1, <2>2
<1>6. CASE ClosesRetChan
      BY <1>6 DEF ClosesRetChan
<1>7. CASE CancelsNext
      BY <1>7 DEF CancelsNext, MoreToCancel, Unused
<1>8. CASE CallerFinishes
      BY <1>8 DEF CallerFinishes
<1>9. CASE ClientLeaves
      BY <1>9 DEF ClientLeaves
<1>10. CASE Terminated
      BY <1>10 DEF Terminated
<1>11. CASE UNCHANGED vars
      BY <1>11
<1> QED BY <1>1, <1>2, <1>3, <1>4, <1>5, <1>6, <1>7, <1>8, <1>9, <1>10, <1>11
        DEF Next


-----------------------------------------------------------------------------
(* The results already sent stay where they are.                           *)
LEMMA WorkerAppends ==
    ASSUME TypeOK, NEW u \in Urls, WorkerSends(u)
    PROVE  /\ Len(arrived') = Len(arrived) + 1
           /\ DOMAIN arrived = 1 .. Len(arrived)
           /\ DOMAIN arrived' = 1 .. Len(arrived) + 1
           /\ \A i \in DOMAIN arrived : arrived'[i] = arrived[i]
           /\ arrived'[Len(arrived) + 1].url = u
           /\ \A i \in DOMAIN arrived : arrived[i].url # u
<1>1. PICK o \in Outcome :
        arrived' = Append(arrived, [url |-> u, outcome |-> o])
      BY DEF WorkerSends
<1>2. arrived \in Seq(Result) /\ [url |-> u, outcome |-> o] \in Result
      BY DEF TypeOK, Result
<1>3. /\ Len(arrived') = Len(arrived) + 1
      /\ \A i \in 1 .. Len(arrived) : arrived'[i] = arrived[i]
      /\ arrived'[Len(arrived) + 1] = [url |-> u, outcome |-> o]
      /\ arrived' \in Seq(Result)
      BY <1>1, <1>2, AppendProperties
<1> QED BY <1>2, <1>3 DEF WorkerSends, Done

(* What the collector's receive does to rejected.                          *)
LEMMA ReceiveRejects ==
    ASSUME TypeOK, CollectorReceives
    PROVE  /\ arrived[received + 1].url \in Urls
           /\ \/ rejected' = rejected
              \/ /\ rejected' \in Seq(Urls)
                 /\ Len(rejected') = Len(rejected) + 1
                 /\ \A i \in 1 .. Len(rejected) : rejected'[i] = rejected[i]
                 /\ rejected'[Len(rejected) + 1] = arrived[received + 1].url
                 /\ DOMAIN rejected = 1 .. Len(rejected)
                 /\ DOMAIN rejected' = 1 .. Len(rejected) + 1
                 /\ UNCHANGED <<collector, offered>>
<1>1. arrived[received + 1] \in Result
      BY ElementOfSeq DEF CollectorReceives, HasResult, Passes, Reject, TypeOK
<1>2. arrived[received + 1].url \in Urls
      BY <1>1 DEF Result
<1>3. rejected \in Seq(Urls)
      BY DEF TypeOK
<1> QED BY <1>2, <1>3, AppendProperties
           DEF CollectorReceives, HasResult, Passes, Reject

LEMMA RejectedAreUrls ==
    ASSUME TypeOK
    PROVE  \A i \in DOMAIN rejected : rejected[i] \in Urls
BY ElementOfSeq DEF TypeOK

(* The closing of bodies only shortens rejected.                           *)
LEMMA ClosingShortens ==
    ASSUME TypeOK, CollectorCloses
    PROVE  \/ rejected' = rejected
           \/ /\ rejected # <<>>
              /\ DOMAIN rejected = 1 .. Len(rejected)
              /\ DOMAIN rejected' = 1 .. Len(rejected) - 1
              /\ \A i \in 1 .. Len(rejected) - 1 :
                   rejected'[i] = rejected[i + 1]
<1>1. CASE rejected = <<>>
      BY <1>1 DEF CollectorCloses
<1>2. CASE rejected # <<>>
  <2>1. rejected \in Seq(Urls) /\ rejected' = Tail(rejected)
        BY <1>2 DEF TypeOK, CollectorCloses
  <2>2. /\ Tail(rejected) \in Seq(Urls)
        /\ Len(Tail(rejected)) = Len(rejected) - 1
        /\ \A i \in 1 .. Len(Tail(rejected)) :
             Tail(rejected)[i] = rejected[i + 1]
        BY <1>2, <2>1, HeadTailProperties
  <2>3. /\ DOMAIN rejected = 1 .. Len(rejected)
        /\ DOMAIN Tail(rejected) = 1 .. Len(Tail(rejected))
        BY <2>1, <2>2
  <2> DEFINE t == Tail(rejected)
  <2> HIDE DEF t
  <2> QED BY <1>2, <2>1, <2>2, <2>3 DEF t
<1> QED BY <1>1, <1>2

LEMMA SentNext == TypeOK /\ Sorted /\ Sent /\ [Next]_vars => Sent'
<1> SUFFICES ASSUME TypeOK, Sorted, Sent, [Next]_vars PROVE Sent'
    OBVIOUS
<1> USE DEF TypeOK, Urls, NoUrl, vars, fanout, collect, cleanup, Sent,
        Heard
<1>1. ASSUME NEW u \in Urls, WorkerSends(u) PROVE Sent'
  <2>1. received \in Nat /\ received <= Len(arrived)
        OBVIOUS
  <2>2. Heard \subseteq Heard'
        BY <1>1, <2>1, WorkerAppends DEF WorkerSends
  <2>3. \A i, j \in DOMAIN arrived' :
          arrived'[i].url = arrived'[j].url => i = j
        BY <1>1, WorkerAppends
  <2>4. received' <= Len(arrived')
        BY <1>1, <2>1, WorkerAppends DEF WorkerSends
  <2> HIDE DEF Heard
  <2> QED BY <1>1, <2>2, <2>3, <2>4 DEF WorkerSends
<1>2. CASE CollectorReceives
  <2>1. /\ received \in Nat /\ received' = received + 1
        /\ received' <= Len(arrived') /\ UNCHANGED <<arrived, ret>>
    <3>1. received \in Nat /\ Len(arrived) \in Nat
          OBVIOUS
    <3>2. /\ received' = received + 1 /\ received < Len(arrived)
          /\ UNCHANGED <<arrived, ret>>
          BY <1>2 DEF CollectorReceives, HasResult
    <3> HIDE DEF TypeOK, Sent, Heard
    <3> QED BY <3>1, <3>2
  <2>2. Heard \subseteq Heard' /\ arrived[received + 1].url \in Heard'
    <3>1. /\ arrived' = arrived
          /\ 1 .. received \subseteq 1 .. received'
          /\ received + 1 \in 1 .. received'
      <4> HIDE DEF TypeOK, Sent, Heard
      <4> QED BY <2>1
    <3> HIDE DEF TypeOK, Sent
    <3> QED BY <3>1
  <2> HIDE DEF Heard
  <2>3. \A i \in DOMAIN rejected' : rejected'[i] \in Heard'
    <3>1. \A i \in DOMAIN rejected : rejected[i] \in Heard
          OBVIOUS
    <3>2. TypeOK
          OBVIOUS
    <3> HIDE DEF TypeOK, Sent
    <3> QED BY <1>2, <2>2, <3>1, <3>2, ReceiveRejects
  <2>4. /\ offered' # NoUrl => offered' \in Heard'
        /\ collector' \in {"offer", "fallback"} <=> offered' # NoUrl
    <3>1. arrived[received + 1].url # NoUrl
          BY <1>2, ReceiveRejects
    <3>2. \/ /\ offered' = arrived[received + 1].url
             /\ collector' = "offer"
          \/ UNCHANGED <<collector, offered>>
          BY <1>2 DEF CollectorReceives, HasResult, Passes, Reject
    <3> QED BY <2>2, <3>1, <3>2
  <2> QED BY <2>1, <2>2, <2>3, <2>4
<1>3. CASE CollectorLeavesLoop
  <2> HIDE DEF Heard
  <2>1. \A i \in DOMAIN rejected : rejected[i] # NoUrl
        BY RejectedAreUrls, DoFirstAssumption
  <2>2. Heard' = Heard
        BY <1>3 DEF CollectorLeavesLoop, Heard
  <2> QED BY <1>3, <2>1, <2>2 DEF CollectorLeavesLoop
<1>4. CASE Handover
  <2> HIDE DEF Heard
  <2>1. Heard' = Heard
        BY <1>4 DEF Handover, Heard
  <2>2. CASE collector = "fallback"
    <3>1. PICK k \in DOMAIN rejected : rejected[k] = offered
          BY <2>2 DEF Sorted
    <3>2. \A i \in DOMAIN rejected' :
            \E j \in DOMAIN rejected : rejected'[i] = rejected[j]
          BY <1>4, <2>2, <3>1, WithoutProperties DEF Handover, Sorted
    <3> QED BY <1>4, <2>1, <2>2, <3>2 DEF Handover
  <2> QED BY <1>4, <2>1, <2>2 DEF Handover
<1>5. CASE CollectorCloses
  <2> HIDE DEF Heard
  <2>1. Heard' = Heard
        BY <1>5 DEF CollectorCloses, Heard
  <2>2. \A i \in DOMAIN rejected' : rejected'[i] \in Heard
        BY <1>5, ClosingShortens
  <2> QED BY <1>5, <2>1, <2>2 DEF CollectorCloses
<1>6. CASE ClosesRetChan
      BY <1>6 DEF ClosesRetChan
<1>7. CASE CancelsNext
      BY <1>7 DEF CancelsNext, MoreToCancel, Unused
<1>8. CASE CallerFinishes
      BY <1>8 DEF CallerFinishes
<1>9. CASE ClientLeaves
      BY <1>9 DEF ClientLeaves
<1>10. CASE Terminated
      BY <1>10 DEF Terminated
<1>11. CASE UNCHANGED vars
      BY <1>11
<1> QED BY <1>1, <1>2, <1>3, <1>4, <1>5, <1>6, <1>7, <1>8, <1>9, <1>10, <1>11
        DEF Next

LEMMA SortedNext == TypeOK /\ Sent /\ Sorted /\ [Next]_vars => Sorted'
<1> SUFFICES ASSUME TypeOK, Sent, Sorted, [Next]_vars PROVE Sorted'
    OBVIOUS
<1> USE DEF Sorted, vars, fanout, collect, cleanup
<1>1. ASSUME NEW u \in Urls, WorkerSends(u) PROVE Sorted'
      BY <1>1 DEF WorkerSends
<1>2. CASE CollectorReceives
  <2>0. arrived[received + 1].url \notin Heard
    <3>1. /\ received \in Nat /\ received + 1 \in DOMAIN arrived
          /\ 1 .. received \subseteq DOMAIN arrived
          BY <1>2 DEF CollectorReceives, HasResult, TypeOK
    <3> QED BY <3>1 DEF Sent, Heard
  <2>1. \A i \in DOMAIN rejected : rejected[i] # arrived[received + 1].url
        BY <2>0 DEF Sent
  <2>2. ret # NoUrl => ret # arrived[received + 1].url
        BY <2>0 DEF Sent
  <2>3. arrived[received + 1].url # NoUrl
        BY <1>2, ReceiveRejects, DoFirstAssumption DEF Urls, NoUrl
  <2>4. ret \in Nat
        BY DoFirstAssumption DEF TypeOK, Urls, NoUrl
  <2>5. CASE rejected' = rejected
        BY <1>2, <2>1, <2>5 DEF CollectorReceives, HasResult, Passes, Reject
  <2>6. CASE rejected' # rejected
    <3> DEFINE n == Len(rejected)
    <3>1. /\ n \in Nat
          /\ DOMAIN rejected = 1 .. n /\ DOMAIN rejected' = 1 .. n + 1
          /\ \A i \in 1 .. n : rejected'[i] = rejected[i]
          /\ rejected'[n + 1] = arrived[received + 1].url
          /\ collector' = "collect"
          /\ UNCHANGED <<offered, ret>>
          BY <1>2, <2>6, ReceiveRejects
             DEF CollectorReceives, HasResult, Passes, Reject, TypeOK
    <3> HIDE DEF n
    <3>2. \A i \in DOMAIN rejected' : rejected'[i] # ret'
          BY <3>1, <2>2, <2>3, <2>4 DEF NoUrl
    <3>3. \A i, j \in DOMAIN rejected' : rejected'[i] = rejected'[j] => i = j
          BY <3>1, <2>1
    <3> QED BY <3>1, <3>2, <3>3
  <2> QED BY <2>5, <2>6
<1>3. CASE CollectorLeavesLoop
      BY <1>3 DEF CollectorLeavesLoop
<1>4. CASE Handover
  <2>1. CASE collector = "fallback"
    <3>1. PICK k \in DOMAIN rejected : rejected[k] = offered
          BY <2>1
    <3>2. /\ rejected' = Without(rejected, rejected[k])
          /\ ret' = rejected[k] /\ collector' = "close"
          BY <1>4, <2>1, <3>1 DEF Handover
    <3> QED BY <3>2, WithoutProperties DEF TypeOK
  <2> QED BY <1>4, <2>1 DEF Handover
<1>5. CASE CollectorCloses
  <2> DEFINE n == Len(rejected)
  <2>1. n \in Nat
        BY DEF TypeOK
  <2>2. \/ rejected' = rejected
        \/ /\ DOMAIN rejected = 1 .. n /\ DOMAIN rejected' = 1 .. n - 1
           /\ \A i \in 1 .. n - 1 : rejected'[i] = rejected[i + 1]
        BY <1>5, ClosingShortens
  <2>3. collector' \in {"close", "done"} /\ UNCHANGED <<offered, ret>>
        BY <1>5 DEF CollectorCloses
  <2> HIDE DEF n
  <2>4. CASE rejected' = rejected
        BY <2>3, <2>4
  <2>5. CASE rejected' # rejected
    <3>1. \A i \in DOMAIN rejected' : /\ i \in Nat
                                      /\ i + 1 \in DOMAIN rejected
                                      /\ rejected'[i] = rejected[i + 1]
          BY <2>1, <2>2, <2>5
    <3>2. \A i, j \in DOMAIN rejected' : rejected'[i] = rejected'[j] => i = j
          BY <3>1
    <3>3. \A i \in DOMAIN rejected' : rejected'[i] # ret'
          BY <2>3, <3>1
    <3> QED BY <2>3, <3>2, <3>3
  <2> QED BY <2>4, <2>5
<1>6. CASE ClosesRetChan
      BY <1>6 DEF ClosesRetChan
<1>7. CASE CancelsNext
      BY <1>7 DEF CancelsNext, MoreToCancel, Unused
<1>8. CASE CallerFinishes
      BY <1>8 DEF CallerFinishes
<1>9. CASE ClientLeaves
      BY <1>9 DEF ClientLeaves
<1>10. CASE Terminated
      BY <1>10 DEF Terminated
<1>11. CASE UNCHANGED vars
      BY <1>11
<1> QED BY <1>1, <1>2, <1>3, <1>4, <1>5, <1>6, <1>7, <1>8, <1>9, <1>10, <1>11
        DEF Next

(* Where the collector stands, what it has received, and whether the       *)
(* caller has its result.                                                  *)
NoneGood(k) == \A i \in 1 .. k : arrived[i].outcome # "good"

Chosen ==
    /\ caller = "waiting" <=> ret = NoUrl
    /\ gotOne => ret # NoUrl
    /\ collector = "collect" /\ ~gotOne => ret = NoUrl /\ NoneGood(received)
    /\ collector = "offer" =>
         /\ ret = NoUrl
         /\ received \in 1 .. Len(arrived)
         /\ arrived[received].url = offered
         /\ arrived[received].outcome = "good"
         /\ NoneGood(received - 1)
    /\ collector = "fallback" =>
         ret = NoUrl /\ received = N /\ NoneGood(N)
    /\ collector \in {"close", "done"} => ret # NoUrl
    /\ retClosed => ret # NoUrl

LEMMA ChosenNext ==
    TypeOK /\ Sent /\ Chosen /\ [Next]_vars => Chosen'
<1> SUFFICES ASSUME TypeOK, Sent, Chosen, [Next]_vars PROVE Chosen'
    OBVIOUS
<1> USE DoFirstAssumption DEF TypeOK, Urls, NoUrl, Chosen, NoneGood, vars,
        fanout, collect, cleanup
<1>1. ASSUME NEW u \in Urls, WorkerSends(u) PROVE Chosen'
      BY <1>1, WorkerAppends DEF WorkerSends, Sent
<1>2. CASE CollectorReceives
      BY <1>2 DEF CollectorReceives, HasResult, Passes, Reject, Sent
<1>3. CASE CollectorLeavesLoop
      BY <1>3 DEF CollectorLeavesLoop
<1>4. CASE Handover
      BY <1>4 DEF Handover, Sent
<1>5. CASE CollectorCloses
      BY <1>5 DEF CollectorCloses
<1>6. CASE ClosesRetChan
      BY <1>6 DEF ClosesRetChan
<1>7. CASE CancelsNext
      BY <1>7 DEF CancelsNext, MoreToCancel, Unused
<1>8. CASE CallerFinishes
      BY <1>8 DEF CallerFinishes
<1>9. CASE ClientLeaves
      BY <1>9 DEF ClientLeaves
<1>10. CASE Terminated
      BY <1>10 DEF Terminated
<1>11. CASE UNCHANGED vars
      BY <1>11
<1> QED BY <1>1, <1>2, <1>3, <1>4, <1>5, <1>6, <1>7, <1>8, <1>9, <1>10, <1>11
        DEF Next


-----------------------------------------------------------------------------
(* The inductive invariant: types, channels, sorting and choice need each  *)
(* other.                                                                  *)
Inv == TypeOK /\ Sent /\ Sorted /\ Chosen

LEMMA InvInit == Init => Inv
<1> SUFFICES ASSUME Init PROVE Inv
    OBVIOUS
<1>1. TypeOK
      BY TypeInit
<1>2. Sent /\ Sorted /\ Chosen
      BY DEF Init, Sent, Sorted, Chosen, Heard, NoneGood, NoUrl
<1> QED BY <1>1, <1>2 DEF Inv

LEMMA InvNext == Inv /\ [Next]_vars => Inv'
BY TypeNext, SentNext, SortedNext, ChosenNext DEF Inv

LEMMA InvAlways == Spec => []Inv
BY InvInit, InvNext, PTL DEF Spec

(* Every variable keeps its type: in particular the collector never        *)
(* receives more than it was sent, and Without always finds the result it  *)
(* has to remove (handler.go:744-820).                                     *)
THEOREM TypeCorrect == Spec => []TypeOK
<1>1. Inv => TypeOK
      BY DEF Inv
<1> QED BY <1>1, InvAlways, PTL

(* retChan is never sent on after its close, for any number of mirrors: it *)
(* is closed only once the caller has a result, and the collector offers   *)
(* one only while the caller has none (handler.go:768-798, 809-810).       *)
THEOREM ClosedForGood == Spec => []NoSendAfterClose
<1>1. Inv => NoSendAfterClose
      BY DEF Inv, Chosen, NoSendAfterClose
<1> QED BY <1>1, InvAlways, PTL

-----------------------------------------------------------------------------
(* What protects the response while the handler reads it: nothing is       *)
(* cancelled or closed before there is a result, and nothing that is the   *)
(* result afterwards.                                                      *)
Usable ==
    /\ ret \notin cancelled
    /\ ~retClosed => cancelled = {}
    /\ caller = "waiting" => \A u \in Urls : body[u] # "closed"
    /\ caller = "reading" => body[ret] # "closed"

LEMMA UsableNext == Inv /\ Usable /\ [Next]_vars => Usable'
<1> SUFFICES ASSUME Inv, Usable, [Next]_vars PROVE Usable'
    OBVIOUS
<1>0. TypeOK /\ Sent /\ Sorted /\ Chosen
      BY DEF Inv
<1> USE <1>0 DEF Usable, vars, fanout, collect, cleanup
<1>1. ASSUME NEW u \in Urls, WorkerSends(u) PROVE Usable'
      BY <1>1 DEF WorkerSends, TypeOK, Chosen
<1>2. CASE CollectorReceives
      BY <1>2 DEF CollectorReceives, HasResult, Passes, Reject
<1>3. CASE CollectorLeavesLoop
      BY <1>3 DEF CollectorLeavesLoop
<1>4. CASE Handover
  <2>1. offered \in Urls
        BY <1>4 DEF Handover, Sent, TypeOK
  <2> QED BY <1>4, <2>1 DEF Handover, Chosen
<1>5. CASE CollectorCloses
  <2>1. caller # "waiting"
        BY <1>5 DEF CollectorCloses, Chosen
  <2>2. rejected # <<>> => Head(rejected) # ret
    <3> SUFFICES ASSUME rejected # <<>> PROVE Head(rejected) # ret
        OBVIOUS
    <3>1. Head(rejected) = rejected[1] /\ 1 \in DOMAIN rejected
          BY DEF TypeOK
    <3> QED BY <3>1 DEF Sorted
  <2>3. /\ UNCHANGED <<caller, ret, retClosed, cancelled>>
        /\ body' = body \/ ret \notin Urls \/ body'[ret] = body[ret]
    <3>1. CASE rejected = <<>>
          BY <1>5, <3>1 DEF CollectorCloses
    <3>2. CASE rejected # <<>>
          BY <1>5, <2>2, <3>2 DEF CollectorCloses, TypeOK
    <3> QED BY <3>1, <3>2
  <2>4. ret \in Urls
        BY <2>1 DEF Chosen, TypeOK
  <2> QED BY <2>1, <2>3, <2>4
<1>6. CASE ClosesRetChan
      BY <1>6 DEF ClosesRetChan
<1>7. CASE CancelsNext
      BY <1>7 DEF CancelsNext, MoreToCancel, Unused
<1>8. CASE CallerFinishes
      BY <1>8 DEF CallerFinishes
<1>9. CASE ClientLeaves
      BY <1>9 DEF ClientLeaves
<1>10. CASE Terminated
      BY <1>10 DEF Terminated
<1>11. CASE UNCHANGED vars
      BY <1>11
<1> QED BY <1>1, <1>2, <1>3, <1>4, <1>5, <1>6, <1>7, <1>8, <1>9, <1>10, <1>11
        DEF Next

(* The response doFirst returned is neither cancelled by the clean-up nor  *)
(* closed by the collector, both of which run while the handler reads it   *)
(* (handler.go:801-816).                                                   *)
THEOREM ReturnedUsable == Spec => []ReturnedStaysUsable
<1>1. Init => Usable
      BY DEF Init, Usable
<1>2. Inv /\ Usable => ReturnedStaysUsable
      BY DEF Inv, Usable, Sorted, ReturnedStaysUsable
<1> QED BY <1>1, <1>2, UsableNext, InvAlways, PTL DEF Spec

-----------------------------------------------------------------------------
(* Who will close the body of u, if it is open.                            *)
Owned(u) == \/ \E i \in received + 1 .. Len(arrived) : arrived[i].url = u
            \/ u = offered
            \/ \E i \in DOMAIN rejected : rejected[i] = u
            \/ u = ret /\ caller = "reading"

LEMMA OwnedNext ==
    Inv /\ NoBodyLost /\ [Next]_vars => NoBodyLost'
<1> SUFFICES ASSUME Inv, NoBodyLost, [Next]_vars,
                    NEW u \in Urls, body'[u] = "open"
             PROVE  Owned(u)'
    BY DEF NoBodyLost, Owned
<1>0. TypeOK /\ Sent /\ Sorted /\ Chosen
      BY DEF Inv
<1>00. /\ body[u] = "open" => Owned(u)
       /\ body \in [Urls -> {"none", "open", "closed"}]
       BY <1>0 DEF NoBodyLost, Owned, TypeOK
<1> USE DEF fanout, collect, cleanup
<1>1. ASSUME NEW v \in Urls, WorkerSends(v) PROVE Owned(u)'
  <2>1. received \in Nat /\ received <= Len(arrived) /\ Len(arrived) \in Nat
        BY <1>0 DEF TypeOK, Sent
  <2>2. UNCHANGED <<received, rejected, offered, ret, caller>>
        BY <1>1 DEF WorkerSends
  <2>3. CASE u = v
    <3>1. /\ Len(arrived) + 1 \in received' + 1 .. Len(arrived')
          /\ arrived'[Len(arrived) + 1].url = u
          BY <1>0, <1>1, <2>1, <2>2, <2>3, WorkerAppends
    <3> QED BY <3>1 DEF Owned
  <2>4. CASE u # v
    <3>1. Owned(u)
          BY <1>00, <1>1, <2>4 DEF WorkerSends
    <3>2. CASE \E i \in received + 1 .. Len(arrived) : arrived[i].url = u
      <4>1. PICK i \in received + 1 .. Len(arrived) : arrived[i].url = u
            BY <3>2
      <4>2. i \in received' + 1 .. Len(arrived') /\ arrived'[i].url = u
            BY <1>0, <1>1, <2>1, <2>2, <4>1, WorkerAppends
      <4> QED BY <4>2 DEF Owned
    <3> QED BY <2>2, <3>1, <3>2 DEF Owned
  <2> QED BY <2>3, <2>4
<1>2. CASE CollectorReceives
  <2> DEFINE n == received + 1
  <2>1. /\ received' = n /\ received \in Nat /\ Len(arrived) \in Nat
        /\ UNCHANGED <<arrived, body, ret, caller>>
        /\ offered = NoUrl
        BY <1>0, <1>2 DEF CollectorReceives, TypeOK, Sent
  <2>2. Owned(u) /\ u # offered
        BY <1>00, <2>1 DEF Urls, NoUrl
  <2>3. arrived[n].url = offered'
        \/ \E i \in DOMAIN rejected' : rejected'[i] = arrived[n].url
    <3>1. CASE Passes(arrived[n]) /\ offered' = arrived[n].url
          BY <3>1
    <3>2. CASE rejected' = Append(rejected, arrived[n].url)
      <4>1. /\ Len(rejected) + 1 \in DOMAIN rejected'
            /\ rejected'[Len(rejected) + 1] = arrived[n].url
            BY <1>0, <1>2, <3>2, ReceiveRejects, AppendProperties DEF TypeOK
      <4> QED BY <4>1
    <3> QED BY <1>2, <3>1, <3>2 DEF CollectorReceives, Reject
  <2>4. \A i \in DOMAIN rejected :
          \E j \in DOMAIN rejected' : rejected'[j] = rejected[i]
        BY <1>0, <1>2, ReceiveRejects
  <2>5. CASE \E i \in received + 1 .. Len(arrived) : arrived[i].url = u
    <3>1. PICK i \in received + 1 .. Len(arrived) : arrived[i].url = u
          BY <2>5
    <3>2. CASE i = n
          BY <2>3, <3>1, <3>2 DEF Owned
    <3>3. CASE i # n
      <4>1. i \in received' + 1 .. Len(arrived')
            BY <2>1, <3>1, <3>3
      <4> QED BY <2>1, <3>1, <4>1 DEF Owned
    <3> QED BY <3>2, <3>3
  <2>6. CASE \E i \in DOMAIN rejected : rejected[i] = u
        BY <2>4, <2>6 DEF Owned
  <2> QED BY <2>1, <2>2, <2>5, <2>6 DEF Owned
<1>3. CASE CollectorLeavesLoop
  <2>1. Owned(u) /\ u # offered
        BY <1>0, <1>00, <1>3 DEF CollectorLeavesLoop, Sent, Urls, NoUrl
  <2> QED BY <1>3, <2>1 DEF CollectorLeavesLoop, Owned
<1>4. CASE Handover
  <2>1. Owned(u) /\ UNCHANGED <<arrived, received>>
        /\ caller' = "reading" /\ ret' = offered /\ caller = "waiting"
        BY <1>00, <1>4 DEF Handover
  <2>2. CASE u = offered
        BY <2>1, <2>2 DEF Owned
  <2>3. CASE u # offered
    <3>1. ASSUME NEW j \in DOMAIN rejected, rejected[j] = u
          PROVE  \E i \in DOMAIN rejected' : rejected'[i] = u
      <4>1. CASE collector = "offer"
            BY <1>4, <3>1, <4>1 DEF Handover
      <4>2. CASE collector = "fallback"
        <5>1. PICK k \in DOMAIN rejected : rejected[k] = offered
              BY <1>0, <4>2 DEF Sorted
        <5>2. rejected' = Without(rejected, rejected[k])
              BY <1>4, <4>2, <5>1 DEF Handover
        <5>3. rejected \in Seq(Urls)
              /\ \A a, b \in DOMAIN rejected :
                   rejected[a] = rejected[b] => a = b
              BY <1>0 DEF TypeOK, Sorted
        <5>4. \E i \in DOMAIN Without(rejected, rejected[k]) :
                Without(rejected, rejected[k])[i] = rejected[j]
              BY <2>3, <3>1, <5>1, <5>3, WithoutProperties
        <5> QED BY <3>1, <5>2, <5>4
      <4> QED BY <1>4, <4>1, <4>2 DEF Handover
    <3> QED BY <2>1, <2>3, <3>1 DEF Owned
  <2> QED BY <2>2, <2>3
<1>5. CASE CollectorCloses
  <2>1. /\ UNCHANGED <<arrived, received, offered, ret, caller>>
        /\ Len(rejected) \in Nat
        BY <1>0, <1>5 DEF CollectorCloses, TypeOK
  <2>2. body[u] = "open" /\ (rejected # <<>> => u # Head(rejected))
        BY <1>0, <1>00, <1>5 DEF CollectorCloses, TypeOK
  <2>3. ASSUME NEW j \in DOMAIN rejected, rejected[j] = u
        PROVE  \E i \in DOMAIN rejected' : rejected'[i] = u
    <3>1. CASE rejected' = rejected
          BY <2>3, <3>1
    <3>2. CASE rejected' # rejected
      <4>1. /\ j \in 1 .. Len(rejected) /\ rejected # <<>>
            /\ DOMAIN rejected' = 1 .. Len(rejected) - 1
            /\ \A i \in 1 .. Len(rejected) - 1 :
                 rejected'[i] = rejected[i + 1]
            BY <1>0, <1>5, <3>2, ClosingShortens
      <4>2. j # 1
            BY <1>0, <2>2, <2>3, <4>1, HeadTailProperties DEF TypeOK
      <4>3. /\ j - 1 \in DOMAIN rejected'
            /\ rejected'[j - 1] = rejected[j - 1 + 1]
            BY <2>1, <4>1, <4>2
      <4> QED BY <2>1, <2>3, <4>1, <4>3
    <3> QED BY <3>1, <3>2
  <2> QED BY <1>00, <2>1, <2>2, <2>3 DEF Owned
<1>6. CASE CallerFinishes
  <2>1. /\ UNCHANGED <<arrived, received, offered, rejected, ret>>
        /\ body[u] = "open" /\ u # ret
        BY <1>00, <1>6 DEF CallerFinishes
  <2> QED BY <1>00, <2>1 DEF Owned
<1>7. CASE ClosesRetChan \/ CancelsNext \/ ClientLeaves \/ Terminated
             \/ UNCHANGED vars
  <2>1. UNCHANGED <<arrived, received, offered, rejected, ret, caller, body>>
        BY <1>7 DEF ClosesRetChan, CancelsNext, ClientLeaves, Terminated, vars
  <2> QED BY <1>00, <2>1 DEF Owned
<1> QED BY <1>1, <1>2, <1>3, <1>4, <1>5, <1>6, <1>7 DEF Next

(* No response body is lost between the workers, the collector and the     *)
(* caller, for any number of mirrors and in any order of their answers     *)
(* (handler.go:768-805).                                                   *)
THEOREM BodiesHaveOwners == Spec => []NoBodyLost
<1>1. Init => NoBodyLost
      BY DEF Init, NoBodyLost
<1> QED BY <1>1, OwnedNext, InvAlways, PTL DEF Spec

-----------------------------------------------------------------------------
(* A url answers once, so there are never more results than urls.          *)
LEMMA OneResultEach ==
    ASSUME TypeOK, Sent
    PROVE  Len(arrived) <= N
<1> DEFINE n == Len(arrived)
           f == [i \in 1 .. n |-> arrived[i].url]
<1>1. n \in Nat /\ DOMAIN arrived = 1 .. n
      BY DEF TypeOK
<1>2. \A i \in 1 .. n : arrived[i].url \in 1 .. N
  <2> SUFFICES ASSUME NEW i \in 1 .. n PROVE arrived[i].url \in 1 .. N
      OBVIOUS
  <2>1. arrived[i] \in Result
        BY <1>1, ElementOfSeq DEF TypeOK
  <2> QED BY <2>1 DEF Result, Urls
<1>3. f \in [1 .. n -> 1 .. N]
      BY <1>2
<1>4. \A i, j \in 1 .. n : f[i] = f[j] => i = j
      BY <1>1 DEF Sent
<1>5. /\ IsFiniteSet(1 .. n) /\ Cardinality(1 .. n) = n
      /\ IsFiniteSet(1 .. N) /\ Cardinality(1 .. N) = N
  <2> HIDE DEF n
  <2>1. 1 \in Int /\ n \in Int /\ N \in Int
        BY <1>1, DoFirstAssumption
  <2>2. /\ IsFiniteSet(1 .. n)
        /\ Cardinality(1 .. n) = IF 1 > n THEN 0 ELSE n - 1 + 1
        BY <2>1, FS_Interval
  <2>3. /\ IsFiniteSet(1 .. N)
        /\ Cardinality(1 .. N) = IF 1 > N THEN 0 ELSE N - 1 + 1
        BY <2>1, FS_Interval
  <2> QED BY <1>1, <2>2, <2>3, DoFirstAssumption
<1>6. ~ Cardinality(1 .. N) < Cardinality(1 .. n)
  <2> HIDE DEF n, f
  <2> SUFFICES ASSUME Cardinality(1 .. N) < Cardinality(1 .. n) PROVE FALSE
      OBVIOUS
  <2> DEFINE S == 1 .. n
             T == 1 .. N
  <2>1. IsFiniteSet(S) /\ IsFiniteSet(T) /\ Cardinality(T) < Cardinality(S)
        BY <1>5
  <2>2. f \in [S -> T]
        BY <1>3
  <2>3. \A i, j \in S : f[i] = f[j] => i = j
        BY <1>4
  <2> HIDE DEF S, T
  <2>4. \E i, j \in S : i # j /\ f[i] = f[j]
        BY <2>1, <2>2, FS_PigeonHole
  <2> QED BY <2>3, <2>4
<1> HIDE DEF n, f
<1> QED BY <1>1, <1>5, <1>6, DoFirstAssumption DEF n

LEMMA StepImplements == Inv /\ [Next]_vars =>
        [First!Arrive \/ First!Return]_<<arrived, ret>>
<1> SUFFICES ASSUME Inv, Next
             PROVE  \/ First!Arrive \/ First!Return
                    \/ UNCHANGED <<arrived, ret>>
    BY DEF vars, fanout
<1>0. TypeOK /\ Sent /\ Chosen
      BY DEF Inv
<1> USE DEF fanout
<1>1. ASSUME NEW u \in Urls, WorkerSends(u) PROVE First!Arrive
  <2>1. PICK o \in Outcome :
          arrived' = Append(arrived, [url |-> u, outcome |-> o])
        BY <1>1 DEF WorkerSends
  <2>2. [url |-> u, outcome |-> o] \in First!Answer
        BY DEF First!Answer, First!Outcome, Outcome, Urls
  <2>3. \A i \in DOMAIN arrived : arrived[i].url # u
        BY <1>1 DEF WorkerSends, Done
  <2>4. UNCHANGED ret
        BY <1>1 DEF WorkerSends
  <2> QED BY <2>1, <2>2, <2>3, <2>4 DEF First!Arrive
<1>2. ASSUME Handover PROVE First!Return
  <2>1. ret = 0 /\ ret' = offered /\ UNCHANGED arrived
        BY <1>0, <1>2 DEF Handover, Chosen, NoUrl
  <2>2. CASE collector = "offer"
    <3>1. /\ received \in DOMAIN arrived
          /\ arrived[received].outcome = "good"
          /\ arrived[received].url = offered
          /\ \A j \in 1 .. received - 1 : arrived[j].outcome # "good"
          BY <1>0, <2>2 DEF Chosen, NoneGood, TypeOK
    <3>2. First!ReturnFirst
          BY <2>1, <3>1 DEF First!ReturnFirst, First!Good
    <3> QED BY <2>1, <3>2 DEF First!Return
  <2>3. CASE collector = "fallback"
    <3>1. received = N /\ NoneGood(N)
          BY <1>0, <2>3 DEF Chosen
    <3>2. Len(arrived) = N /\ DOMAIN arrived = 1 .. N
          BY <1>0, <3>1, OneResultEach, DoFirstAssumption DEF Sent, TypeOK
    <3>3. offered \in Heard
          BY <1>0, <2>3 DEF Sent
    <3>4. PICK k \in 1 .. N : offered = arrived[k].url
          BY <3>1, <3>3 DEF Heard
    <3>5. First!ReturnAny
          BY <2>1, <3>1, <3>2, <3>4 DEF First!ReturnAny, First!Good, NoneGood
    <3> QED BY <2>1, <3>5 DEF First!Return
  <2> QED BY <1>2, <2>2, <2>3 DEF Handover
<1>3. CASE CollectorReceives \/ CollectorLeavesLoop
      BY <1>3
         DEF CollectorReceives, HasResult, Passes, Reject, CollectorLeavesLoop
<1>4. CASE CollectorCloses
      BY <1>4 DEF CollectorCloses
<1>5. CASE ClosesRetChan \/ CancelsNext \/ ClientLeaves
      BY <1>5 DEF ClosesRetChan, CancelsNext, ClientLeaves
<1>6. CASE CallerFinishes
      BY <1>6 DEF CallerFinishes
<1>7. CASE Terminated
      BY <1>7 DEF Terminated, vars
<1> QED BY <1>1, <1>2, <1>3, <1>4, <1>5, <1>6, <1>7 DEF Next

(* doFirst keeps the promise of its comment (handler.go:742-743): the      *)
(* caller gets the first good result in the order of arrival, and one that *)
(* is not good only when every mirror has answered and none was.           *)
THEOREM FirstResponseImplemented == Spec => ImplementsFirstResponse
<1>1. Init => First!Init
      BY DEF Init, First!Init, NoUrl
<1> QED BY <1>1, StepImplements, InvAlways, PTL
        DEF Spec, ImplementsFirstResponse, First!Spec

(* What the caller has is, and stays while later answers arrive, the first *)
(* good answer; or there are all answers, none of them good, and it is one *)
(* of them (handler.go:742-743, 776-791).                                  *)
ResultIsFirst ==
    ret # NoUrl =>
      \E i \in DOMAIN arrived :
        /\ arrived[i].url = ret
        /\ \/ First!Good(i) /\ \A j \in 1 .. i - 1 : ~First!Good(j)
           \/ Len(arrived) = N /\ \A j \in DOMAIN arrived : ~First!Good(j)

LEMMA ResultStaysFirst ==
    ASSUME Inv, Len(arrived') <= N, ResultIsFirst,
           First!Arrive \/ First!Return
    PROVE  ResultIsFirst'
<1>0. arrived \in Seq(Result) /\ N \in Nat /\ Len(arrived) \in Nat
      BY DoFirstAssumption DEF Inv, TypeOK
<1>1. CASE First!Arrive
  <2>1. PICK a \in First!Answer : arrived' = Append(arrived, a) /\ ret' = ret
        BY <1>1 DEF First!Arrive
  <2>2. /\ Len(arrived') = Len(arrived) + 1
        /\ \A i \in DOMAIN arrived :
             i \in DOMAIN arrived' /\ arrived'[i] = arrived[i]
        BY <1>0, <2>1
  <2>3. Len(arrived) # N
        BY <1>0, <2>2
  <2>4. SUFFICES ASSUME ret # NoUrl
                 PROVE  \E i \in DOMAIN arrived' :
                          /\ arrived'[i].url = ret
                          /\ arrived'[i].outcome = "good"
                          /\ \A j \in 1 .. i - 1 : arrived'[j].outcome # "good"
        BY <2>1 DEF ResultIsFirst, First!Good
  <2>5. PICK i \in DOMAIN arrived :
          /\ arrived[i].url = ret /\ arrived[i].outcome = "good"
          /\ \A j \in 1 .. i - 1 : arrived[j].outcome # "good"
        BY <2>3, <2>4 DEF ResultIsFirst, First!Good
  <2>6. i \in DOMAIN arrived' /\ arrived'[i] = arrived[i]
        BY <2>2
  <2>7. \A j \in 1 .. i - 1 : arrived'[j] = arrived[j]
        BY <1>0, <2>2
  <2> QED BY <2>5, <2>6, <2>7
<1>2. CASE First!Return
  <2>1. arrived' = arrived
        BY <1>2 DEF First!Return
  <2>2. CASE First!ReturnFirst
        BY <2>1, <2>2 DEF First!ReturnFirst, First!Good, ResultIsFirst
  <2>3. CASE First!ReturnAny
        BY <2>1, <2>3 DEF First!ReturnAny, First!Good, ResultIsFirst
  <2> QED BY <1>2, <2>2, <2>3 DEF First!Return
<1> QED BY <1>1, <1>2

(* The caller's result is the first good one for ever, for any number of   *)
(* mirrors: it follows from what doFirst implements.                       *)
THEOREM FirstWins == Spec => []ResultIsFirst
<1>1. Init => ResultIsFirst
      BY DEF Init, ResultIsFirst
<1>2. Inv => Len(arrived) <= N
      BY OneResultEach DEF Inv
<1>3. Inv /\ (Len(arrived) <= N)' /\ ResultIsFirst /\ [Next]_vars
        => ResultIsFirst'
  <2> SUFFICES ASSUME Inv, (Len(arrived) <= N)', ResultIsFirst, [Next]_vars
               PROVE  ResultIsFirst'
      OBVIOUS
  <2>1. \/ First!Arrive \/ First!Return
        \/ UNCHANGED <<arrived, ret>>
        BY StepImplements
  <2>2. CASE UNCHANGED <<arrived, ret>>
        BY <2>2 DEF ResultIsFirst, First!Good
  <2> QED BY <2>1, <2>2, ResultStaysFirst
<1> QED BY <1>1, <1>2, <1>3, InvAlways, PTL DEF Spec

-----------------------------------------------------------------------------
(* How many steps there still can be. AskLeft: a result for each url to    *)
(* send, the caller's way through doFirst, and the client's leaving.       *)
(* CollectLeft: each result is received and, rejected, closed, and the     *)
(* collector goes through its stages. CleanLeft: retChan is closed and     *)
(* every url looked at.                                                    *)
Stage == [offer |-> 4, collect |-> 3, fallback |-> 2, close |-> 1, done |-> 0]
ToReturn == [waiting |-> 2, reading |-> 1, finished |-> 0]
Open(b) == IF b THEN 0 ELSE 1

AskLeft == (N - Len(arrived)) + ToReturn[caller] + Open(parent)
CollectLeft == 2 * (N - received) + Len(rejected) + Stage[collector]
CleanLeft == (N + 1 - next) + Open(retClosed)
StepsLeft == AskLeft + CollectLeft + CleanLeft

(* What the clean-up has done and left: a url it has passed is cancelled   *)
(* unless it was returned, the collector stops when it has received every  *)
(* result, and has nothing left to close when it ends.                     *)
Swept ==
    /\ ~retClosed => next = 1
    /\ \A u \in Urls : u < next /\ u # ret => u \in cancelled
    /\ collector \in {"close", "done"} => received = N
    /\ collector = "done" => rejected = <<>>
    /\ caller = "finished" => parent
    /\ collector \in {"collect", "offer"} /\ ~gotOne =>
         Len(rejected) = received - (IF collector = "offer" THEN 1 ELSE 0)

(* What Go's scheduler, a handler that ends and a request whose context is *)
(* done must bring about: a result for a caller who has been answered well *)
(* or whose client left, and the end of everything once it is returned.    *)
Owed ==
    \/ /\ caller = "waiting"
       /\ parent \/ \E i \in DOMAIN arrived : arrived[i].outcome = "good"
    \/ /\ caller # "waiting"
       /\ ~(Settled /\ \A u \in Urls : body[u] # "open")

(* The guards of the actions Fairness names.                               *)
CanGoOn ==
    \/ collector = "collect" /\ received < N /\ HasResult
    \/ collector = "collect" /\ received = N /\ (gotOne \/ rejected # <<>>)
    \/ collector \in {"offer", "fallback"} /\ caller = "waiting"
    \/ collector = "close"
    \/ caller # "waiting" /\ ~retClosed
    \/ retClosed /\ MoreToCancel
    \/ caller = "reading"
    \/ \E u \in Urls : ContextDone(u) /\ ~Done(u)


LEMMA SweptNext == Inv /\ Swept /\ [Next]_vars => Swept'
<1> SUFFICES ASSUME Inv, Swept, [Next]_vars PROVE Swept'
    OBVIOUS
<1>0. TypeOK /\ Sent /\ Sorted /\ Chosen
      BY DEF Inv
<1> USE <1>0, DoFirstAssumption DEF Swept, vars, fanout, collect, cleanup
<1>1. ASSUME NEW u \in Urls, WorkerSends(u) PROVE Swept'
      BY <1>1 DEF WorkerSends
<1>2. CASE CollectorReceives
  <2> DEFINE res == arrived[received + 1]
  <2>1. /\ collector = "collect" /\ received \in Nat
        /\ received' = received + 1
        /\ UNCHANGED <<gotOne, retClosed, next, cancelled, caller, ret,
                       parent>>
        BY <1>2 DEF CollectorReceives, TypeOK
  <2>2. CASE collector' = "offer" /\ rejected' = rejected
        BY <2>1, <2>2
  <2>3. CASE collector' = "collect" /\ rejected' = Append(rejected, res.url)
    <3>1. Len(rejected') = Len(rejected) + 1 /\ Len(rejected) \in Nat
          BY <2>3 DEF TypeOK
    <3> QED BY <2>1, <2>3, <3>1
  <2> QED BY <1>2, <2>1, <2>2, <2>3
          DEF CollectorReceives, Passes, Reject
<1>3. CASE CollectorLeavesLoop
      BY <1>3 DEF CollectorLeavesLoop
<1>4. CASE Handover
      BY <1>4 DEF Handover, Chosen, Urls, NoUrl
<1>5. CASE CollectorCloses
      BY <1>5 DEF CollectorCloses, Chosen
<1>6. CASE ClosesRetChan
      BY <1>6 DEF ClosesRetChan
<1>7. CASE CancelsNext
      BY <1>7 DEF CancelsNext, MoreToCancel, Unused, TypeOK, Urls
<1>8. CASE CallerFinishes
      BY <1>8 DEF CallerFinishes
<1>9. CASE ClientLeaves
      BY <1>9 DEF ClientLeaves
<1>10. CASE Terminated
      BY <1>10 DEF Terminated
<1>11. CASE UNCHANGED vars
      BY <1>11
<1> QED BY <1>1, <1>2, <1>3, <1>4, <1>5, <1>6, <1>7, <1>8, <1>9, <1>10, <1>11
        DEF Next

LEMMA SweptAlways == Spec => []Swept
<1>1. Init => Swept
      BY DEF Init, Swept, Urls
<1> QED BY <1>1, SweptNext, InvAlways, PTL DEF Spec

(* When no good result has come, every url is among the rejected ones and  *)
(* there is at least one: rand.Intn is never given 0, which would panic    *)
(* (handler.go:786-788).                                                   *)
FallbackHasChoice ==
    collector = "collect" /\ received = N /\ ~gotOne => Len(rejected) = N

(* The fallback has every answer to choose from (handler.go:786-788).      *)
THEOREM FallbackFinds == Spec => []FallbackHasChoice
<1>1. TypeOK /\ Swept => FallbackHasChoice
      BY DoFirstAssumption DEF TypeOK, Swept, FallbackHasChoice
<1> QED BY <1>1, SweptAlways, TypeCorrect, PTL

(* A url that has no result, when there are fewer results than urls.       *)
LEMMA SomeUrlIsOut ==
    ASSUME TypeOK, Len(arrived) < N
    PROVE  \E u \in Urls : ~Done(u)
<1> DEFINE n == Len(arrived)
           f == [i \in 1 .. n |-> arrived[i].url]
           T == {f[i] : i \in 1 .. n}
<1>1. n \in Nat /\ DOMAIN arrived = 1 .. n /\ N \in Nat
      BY DoFirstAssumption DEF TypeOK
<1>2. /\ IsFiniteSet(1 .. n) /\ Cardinality(1 .. n) = n
      /\ IsFiniteSet(1 .. N) /\ Cardinality(1 .. N) = N
  <2> HIDE DEF n
  <2>1. /\ IsFiniteSet(1 .. n)
        /\ Cardinality(1 .. n) = IF 1 > n THEN 0 ELSE n - 1 + 1
        BY <1>1, FS_Interval
  <2>2. /\ IsFiniteSet(1 .. N)
        /\ Cardinality(1 .. N) = IF 1 > N THEN 0 ELSE N - 1 + 1
        BY <1>1, FS_Interval
  <2> QED BY <1>1, <2>1, <2>2
<1>3. f \in Surjection(1 .. n, T)
  <2> HIDE DEF n
  <2> QED BY DEF Surjection
<1>4. Cardinality(T) <= n
  <2> HIDE DEF T, f, n
  <2> QED BY <1>2, <1>3, FS_Surjection
<1>5. T # Urls
  <2> HIDE DEF T, f, n
  <2> QED BY <1>1, <1>2, <1>4, Len(arrived) < N DEF Urls, n
<1>6. \A i \in 1 .. n : arrived[i].url \in Urls
  <2> SUFFICES ASSUME NEW i \in 1 .. n PROVE arrived[i].url \in Urls
      OBVIOUS
  <2>1. arrived[i] \in Result
        BY <1>1, ElementOfSeq DEF TypeOK
  <2> QED BY <2>1 DEF Result
<1>7. T \subseteq Urls
      BY <1>6
<1>8. PICK u \in Urls : u \notin T
      BY <1>5, <1>7
<1> QED BY <1>1, <1>8 DEF Done

(* Nothing that is owed waits for ever on something that may never happen: *)
(* as long as the caller's result, or the end of everything after it, is   *)
(* owed, some goroutine can go on or some request to a mirror is about to  *)
(* end because its context has. So no order of answers, failures, the      *)
(* client's leaving and the clean-up leaves the collector waiting for a    *)
(* mirror whose request nobody cancels (handler.go:768-817).               *)
NeverStuck == Owed => CanGoOn

LEMMA CallerNotStuck ==
    Inv /\ Swept /\ caller = "waiting" /\ Owed => CanGoOn
<1> SUFFICES ASSUME Inv, Swept, caller = "waiting", Owed, ~CanGoOn PROVE FALSE
    OBVIOUS
<1>1. TypeOK /\ Sent /\ Chosen
      BY DEF Inv
<1>2. collector = "collect"
      BY <1>1 DEF CanGoOn, Chosen, TypeOK
<1>3. /\ received \in Nat /\ Len(arrived) \in Nat /\ received <= Len(arrived)
      /\ DOMAIN arrived = 1 .. Len(arrived) /\ received <= N
      /\ Len(rejected) \in Nat
      BY <1>1, DoFirstAssumption DEF TypeOK, Sent
<1>4. ~gotOne
      BY <1>1 DEF Chosen
<1>5. received # N
  <2> SUFFICES ASSUME received = N PROVE FALSE
      OBVIOUS
  <2>1. Len(rejected) = N
        BY <1>2, <1>3, <1>4 DEF Swept
  <2>2. rejected # <<>>
        BY <2>1, DoFirstAssumption
  <2> QED BY <1>2, <2>2 DEF CanGoOn
<1>6. received = Len(arrived) /\ Len(arrived) < N
  <2>1. received < N
        BY <1>3, <1>5, DoFirstAssumption
  <2>2. ~(received < Len(arrived))
        BY <1>2, <2>1 DEF CanGoOn, HasResult
  <2>3. received \in Nat /\ Len(arrived) \in Nat /\ received <= Len(arrived)
        BY <1>3
  <2>4. received = Len(arrived)
        BY <2>2, <2>3
  <2> QED BY <2>1, <2>4
<1>7. \A i \in DOMAIN arrived : arrived[i].outcome # "good"
      BY <1>1, <1>2, <1>3, <1>4, <1>6 DEF Chosen, NoneGood
<1>8. parent
      BY <1>7 DEF Owed
<1>9. PICK u \in Urls : ~Done(u)
      BY <1>1, <1>6, SomeUrlIsOut
<1> QED BY <1>8, <1>9 DEF CanGoOn, ContextDone

LEMMA CleanupNotStuck ==
    Inv /\ NoBodyLost /\ Swept /\ caller # "waiting" /\ Owed => CanGoOn
<1> SUFFICES ASSUME Inv, NoBodyLost, Swept, caller # "waiting", Owed, ~CanGoOn
             PROVE  FALSE
    OBVIOUS
<1>1. TypeOK /\ Sent /\ Chosen
      BY DEF Inv
<1>2. caller = "finished" /\ parent /\ retClosed /\ next = N + 1
      BY <1>1, DoFirstAssumption
         DEF CanGoOn, TypeOK, MoreToCancel, Swept
<1>3. \A u \in Urls : Done(u)
      BY <1>2 DEF CanGoOn, ContextDone
<1>4. Len(arrived) = N
  <2>1. Len(arrived) <= N /\ Len(arrived) \in Nat
        BY <1>1, OneResultEach DEF TypeOK
  <2>2. ~(Len(arrived) < N)
        BY <1>1, <1>3, SomeUrlIsOut
  <2> QED BY <2>1, <2>2, DoFirstAssumption
<1>5. received = N
  <2>1. CASE collector = "collect"
        BY <1>1, <1>4, <2>1, DoFirstAssumption DEF CanGoOn, HasResult, TypeOK
  <2>2. CASE collector \in {"offer", "fallback"}
        BY <1>1, <1>2, <2>2 DEF Chosen
  <2>3. CASE collector \in {"close", "done"}
        BY <2>3 DEF Swept
  <2> QED BY <1>1, <2>1, <2>2, <2>3 DEF TypeOK
<1>6. collector = "done"
  <2>1. collector # "collect"
    <3> SUFFICES ASSUME collector = "collect" PROVE FALSE
        OBVIOUS
    <3>1. ~gotOne
          BY <1>5 DEF CanGoOn
    <3> QED BY <1>1, <1>2, <3>1 DEF Chosen
  <2>2. collector \notin {"offer", "fallback"}
        BY <1>1, <1>2 DEF Chosen
  <2> QED BY <1>1, <2>1, <2>2 DEF CanGoOn, TypeOK
<1>7. \A u \in Urls : body[u] # "open"
  <2> SUFFICES ASSUME NEW u \in Urls, body[u] = "open" PROVE FALSE
      OBVIOUS
  <2>1. rejected = <<>> /\ offered = NoUrl
        BY <1>1, <1>6 DEF Swept, Sent
  <2>2. u # offered
        BY <2>1 DEF Urls, NoUrl
  <2>3. received + 1 .. Len(arrived) = {}
        BY <1>4, <1>5, DoFirstAssumption
  <2>4. DOMAIN rejected = {}
        BY <2>1
  <2> QED BY <1>2, <2>2, <2>3, <2>4 DEF NoBodyLost
<1> QED BY <1>2, <1>3, <1>6, <1>7 DEF Owed, Settled

(* Nothing owed is ever stuck, for any number of mirrors: the safety half  *)
(* of CallerReturns and EverythingReleased (handler.go:768-817).           *)
THEOREM DoFirstGoesOn == Spec => []NeverStuck
<1>1. Inv /\ NoBodyLost /\ Swept => NeverStuck
      BY CallerNotStuck, CleanupNotStuck DEF NeverStuck
<1> QED BY <1>1, InvAlways, BodiesHaveOwners, SweptAlways, PTL

-----------------------------------------------------------------------------
(* There are never more than 4 * N + 7 steps left, of doFirst's            *)
(* goroutines, its caller and the client (handler.go:744-820).             *)
StepsBounded == StepsLeft \in 0 .. 4 * N + 7

(* Every step uses up at least one of those that are left: no goroutine    *)
(* can go round for ever, in whatever order mirrors answer.                *)
StepsRunOut == [][StepsLeft' < StepsLeft]_vars

Parts == AskLeft \in Nat /\ CollectLeft \in Nat /\ CleanLeft \in Nat

LEMMA PartsTyped == Inv => Parts
<1> SUFFICES ASSUME Inv PROVE Parts
    OBVIOUS
<1>0. TypeOK /\ Sent
      BY DEF Inv
<1>1. /\ Len(arrived) \in Nat /\ Len(arrived) <= N
      /\ received \in Nat /\ received <= N
      /\ Len(rejected) \in Nat
      /\ next \in Nat /\ 1 <= next /\ next <= N + 1 /\ N \in Nat
      BY <1>0, OneResultEach, DoFirstAssumption DEF TypeOK
<1>2. Stage[collector] \in 0 .. 4 /\ ToReturn[caller] \in 0 .. 2
      BY <1>0 DEF TypeOK, Stage, ToReturn
<1>3. Open(retClosed) \in 0 .. 1 /\ Open(parent) \in 0 .. 1
      BY DEF Open
<1>4. AskLeft \in Nat
      BY <1>1, <1>2, <1>3 DEF AskLeft
<1>5. CollectLeft \in Nat
      BY <1>1, <1>2 DEF CollectLeft
<1>6. CleanLeft \in Nat
      BY <1>1, <1>3 DEF CleanLeft
<1> QED BY <1>4, <1>5, <1>6 DEF Parts

AskKept == UNCHANGED <<arrived, caller, parent>>
CollectKept == UNCHANGED <<received, rejected, collector>>
CleanKept == UNCHANGED <<next, retClosed>>

(* Which part a step uses up: no step adds to any.                         *)
LEMMA PartsDecrease ==
    ASSUME Inv, Inv', Parts, Parts', Next
    PROVE  \/ UNCHANGED vars
           \/ /\ AskLeft' <= AskLeft /\ CollectLeft' <= CollectLeft
              /\ CleanLeft' <= CleanLeft
              /\ \/ AskLeft' < AskLeft \/ CollectLeft' < CollectLeft
                 \/ CleanLeft' < CleanLeft
<1>0. TypeOK /\ Sent /\ Sorted /\ Chosen /\ TypeOK'
      BY DEF Inv
<1>1. /\ AskLeft \in Nat /\ CollectLeft \in Nat /\ CleanLeft \in Nat
      /\ AskLeft' \in Nat /\ CollectLeft' \in Nat /\ CleanLeft' \in Nat
      BY DEF Parts
<1>2. /\ N \in Nat /\ Len(arrived) \in Nat /\ received \in Nat
      /\ Len(rejected) \in Nat /\ Len(rejected') \in Nat /\ next \in Nat
      BY <1>0, DoFirstAssumption DEF TypeOK
<1>3. /\ Stage[collector] \in Nat /\ Stage[collector'] \in Nat
      /\ ToReturn[caller] \in Nat /\ ToReturn[caller'] \in Nat
      BY <1>0 DEF TypeOK, Stage, ToReturn
<1>4. /\ Open(retClosed) \in Nat /\ Open(parent) \in Nat
      /\ Open(retClosed') \in Nat /\ Open(parent') \in Nat
      BY DEF Open
<1>5. /\ AskKept => AskLeft' <= AskLeft
      /\ CollectKept => CollectLeft' <= CollectLeft
      /\ CleanKept => CleanLeft' <= CleanLeft
      BY <1>1 DEF AskLeft, CollectLeft, CleanLeft, AskKept, CollectKept,
                  CleanKept
<1> USE DEF fanout, collect, cleanup, AskKept, CollectKept, CleanKept
<1>6. ASSUME NEW u \in Urls, WorkerSends(u)
      PROVE  AskLeft' < AskLeft /\ CollectKept /\ CleanKept
  <2>1. /\ Len(arrived') = Len(arrived) + 1 /\ UNCHANGED <<caller, parent>>
        /\ CollectKept /\ CleanKept
        BY <1>0, <1>6 DEF WorkerSends, TypeOK
  <2> QED BY <1>2, <1>3, <1>4, <2>1 DEF AskLeft
<1>7. CASE CollectorReceives
  <2>1. /\ received' = received + 1 /\ collector = "collect"
        /\ AskKept /\ CleanKept
        BY <1>7 DEF CollectorReceives
  <2>2. \/ collector' = "offer" /\ rejected' = rejected
        \/ collector' = "collect" /\ Len(rejected') = Len(rejected) + 1
        BY <1>0, <1>7 DEF CollectorReceives, Reject, TypeOK
  <2>3. Stage["offer"] = 4 /\ Stage["collect"] = 3
        BY DEF Stage
  <2>6. CollectLeft' < CollectLeft
    <3>1. CASE collector' = "offer" /\ rejected' = rejected
          BY <1>2, <2>1, <2>3, <3>1 DEF CollectLeft
    <3>2. CASE collector' = "collect" /\ Len(rejected') = Len(rejected) + 1
          BY <1>2, <2>1, <2>3, <3>2 DEF CollectLeft
    <3> QED BY <2>2, <3>1, <3>2
  <2> HIDE DEF AskKept, CollectKept, CleanKept
  <2> QED BY <1>1, <1>5, <2>1, <2>6
<1>8. CASE CollectorLeavesLoop
  <2>1. AskKept /\ CleanKept /\ UNCHANGED <<received, rejected>>
        BY <1>8 DEF CollectorLeavesLoop
  <2>2. Stage[collector'] < Stage[collector]
        BY <1>8 DEF CollectorLeavesLoop, Stage
  <2>3. CollectLeft' < CollectLeft
        BY <1>2, <1>3, <2>1, <2>2 DEF CollectLeft
  <2> HIDE DEF AskKept, CollectKept, CleanKept
  <2> QED BY <1>1, <1>5, <2>1, <2>3
<1>9. CASE Handover
  <2>1. CleanKept /\ UNCHANGED <<arrived, received, parent>>
        BY <1>9 DEF Handover
  <2>2. /\ Stage[collector'] < Stage[collector]
        /\ ToReturn[caller'] < ToReturn[caller]
        BY <1>9 DEF Handover, Stage, ToReturn
  <2>3. Len(rejected') <= Len(rejected)
    <3>1. CASE collector = "offer"
          BY <1>9, <1>2, <3>1 DEF Handover
    <3>2. CASE collector = "fallback"
      <4>1. PICK k \in DOMAIN rejected : rejected[k] = offered
            BY <1>0, <3>2 DEF Sorted
      <4>2. \A i, j \in DOMAIN rejected : rejected[i] = rejected[j] => i = j
            BY <1>0 DEF Sorted
      <4>3. Len(Without(rejected, rejected[k])) = Len(rejected) - 1
            BY <1>0, <4>2, WithoutProperties DEF TypeOK
      <4> QED BY <1>9, <1>2, <3>2, <4>1, <4>3 DEF Handover
    <3> QED BY <1>9, <3>1, <3>2 DEF Handover
  <2>4. AskLeft' < AskLeft
        BY <1>2, <1>3, <1>4, <2>1, <2>2 DEF AskLeft
  <2>5. CollectLeft' < CollectLeft
        BY <1>2, <1>3, <2>1, <2>2, <2>3 DEF CollectLeft
  <2> HIDE DEF AskKept, CollectKept, CleanKept
  <2> QED BY <1>1, <1>5, <2>1, <2>4, <2>5
<1>10. CASE CollectorCloses
  <2>1. AskKept /\ CleanKept /\ UNCHANGED received
        BY <1>10 DEF CollectorCloses
  <2>2. Len(rejected') + Stage[collector'] < Len(rejected) + Stage[collector]
    <3>1. CASE rejected = <<>>
      <4>1. Stage[collector'] = 0 /\ Stage[collector] = 1
            BY <1>10, <3>1 DEF CollectorCloses, Stage
      <4> QED BY <1>10, <1>2, <3>1, <4>1 DEF CollectorCloses
    <3>2. CASE rejected # <<>>
      <4>1. Len(Tail(rejected)) = Len(rejected) - 1
            BY <1>0, <3>2 DEF TypeOK
      <4> QED BY <1>10, <1>2, <1>3, <3>2, <4>1 DEF CollectorCloses
    <3> QED BY <3>1, <3>2
  <2>3. CollectLeft' < CollectLeft
        BY <1>2, <1>3, <2>1, <2>2 DEF CollectLeft
  <2> HIDE DEF AskKept, CollectKept, CleanKept
  <2> QED BY <1>1, <1>5, <2>1, <2>3
<1>11. CASE ClosesRetChan
  <2>1. AskKept /\ CollectKept /\ UNCHANGED next
        BY <1>11 DEF ClosesRetChan
  <2>2. Open(retClosed') < Open(retClosed)
        BY <1>11 DEF ClosesRetChan, Open
  <2>3. CleanLeft' < CleanLeft
        BY <1>2, <1>4, <2>1, <2>2 DEF CleanLeft
  <2> HIDE DEF AskKept, CollectKept, CleanKept
  <2> QED BY <1>1, <1>5, <2>1, <2>3
<1>12. CASE CancelsNext
  <2>1. AskKept /\ CollectKept /\ next' = next + 1 /\ UNCHANGED retClosed
        BY <1>12 DEF CancelsNext
  <2>2. CleanLeft' < CleanLeft
        BY <1>2, <1>4, <2>1 DEF CleanLeft
  <2> HIDE DEF AskKept, CollectKept, CleanKept
  <2> QED BY <1>1, <1>5, <2>1, <2>2
<1>13. CASE CallerFinishes \/ ClientLeaves
  <2>1. CollectKept /\ CleanKept /\ UNCHANGED arrived
        BY <1>13 DEF CallerFinishes, ClientLeaves
  <2>2. /\ ToReturn[caller'] <= ToReturn[caller]
        /\ Open(parent') <= Open(parent)
        /\ ToReturn[caller'] # ToReturn[caller] \/ Open(parent') # Open(parent)
    <3>1. CASE CallerFinishes
      <4>1. ToReturn[caller'] = 0 /\ ToReturn[caller] = 1
            BY <1>13, <3>1 DEF CallerFinishes, ToReturn
      <4>2. Open(parent') <= Open(parent)
            BY <3>1 DEF CallerFinishes, Open
      <4> QED BY <4>1, <4>2
    <3>2. CASE ClientLeaves
      <4>1. caller' = caller
            BY <3>2 DEF ClientLeaves
      <4>2. Open(parent') = 0 /\ Open(parent) = 1
            BY <3>2 DEF ClientLeaves, Open
      <4> QED BY <1>3, <4>1, <4>2
    <3> QED BY <1>13, <3>1, <3>2
  <2>3. AskLeft' < AskLeft
        BY <1>2, <1>3, <1>4, <2>1, <2>2 DEF AskLeft
  <2> HIDE DEF AskKept, CollectKept, CleanKept
  <2> QED BY <1>1, <1>5, <2>1, <2>3
<1>14. CASE Terminated
      BY <1>14 DEF Terminated
<1>15. (\E u \in Urls : WorkerSends(u)) =>
          AskLeft' < AskLeft /\ CollectKept /\ CleanKept
      BY <1>6
<1> HIDE DEF AskKept, CollectKept, CleanKept
<1> QED BY <1>1, <1>5, <1>7, <1>8, <1>9, <1>10, <1>11, <1>12, <1>13, <1>14,
           <1>15
        DEF Next

LEMMA SumDecreases ==
    \A a, b, c, x, y, z \in Nat :
      x <= a /\ y <= b /\ z <= c /\ (x < a \/ y < b \/ z < c)
        => x + y + z < a + b + c
OBVIOUS

LEMMA StepsDecrease ==
    Inv /\ Inv' /\ Parts /\ Parts' /\ [Next]_vars
      => [StepsLeft' < StepsLeft]_vars
<1> SUFFICES ASSUME Inv, Inv', Parts, Parts', Next
             PROVE  UNCHANGED vars \/ StepsLeft' < StepsLeft
    OBVIOUS
<1>1. /\ AskLeft \in Nat /\ CollectLeft \in Nat /\ CleanLeft \in Nat
      /\ AskLeft' \in Nat /\ CollectLeft' \in Nat /\ CleanLeft' \in Nat
      BY DEF Parts
<1>2. \/ UNCHANGED vars
      \/ /\ AskLeft' <= AskLeft /\ CollectLeft' <= CollectLeft
         /\ CleanLeft' <= CleanLeft
         /\ \/ AskLeft' < AskLeft \/ CollectLeft' < CollectLeft
            \/ CleanLeft' < CleanLeft
      BY PartsDecrease
<1>3. StepsLeft' = AskLeft' + CollectLeft' + CleanLeft'
      BY DEF StepsLeft
<1> QED BY <1>1, <1>2, <1>3, SumDecreases DEF StepsLeft

(* doFirst takes at most 4 * N + 7 steps. With NeverStuck this is why      *)
(* CallerReturns and EverythingReleased, which TLC checks, hold when every *)
(* goroutine that can run does (handler.go:744-820).                       *)
THEOREM DoFirstRunsOut == Spec => []StepsBounded /\ StepsRunOut
<1>1. Init => StepsLeft = 4 * N + 7
  <2> SUFFICES ASSUME Init PROVE StepsLeft = 4 * N + 7
      OBVIOUS
  <2>1. Len(arrived) = 0 /\ Len(rejected) = 0 /\ Open(parent) = 1
        /\ Open(retClosed) = 1 /\ ToReturn[caller] = 2 /\ Stage[collector] = 3
        BY DEF Init, Open, ToReturn, Stage
  <2> QED BY <2>1, DoFirstAssumption
          DEF Init, StepsLeft, AskLeft, CollectLeft, CleanLeft
<1>2. Init => StepsLeft <= 4 * N + 7
      BY <1>1, DoFirstAssumption
<1>3. Parts => StepsLeft \in Nat
      BY DEF Parts, StepsLeft
<1>4. StepsLeft \in Nat /\ (StepsLeft \in Nat)' /\ StepsLeft <= 4 * N + 7
        /\ [StepsLeft' < StepsLeft]_vars => (StepsLeft <= 4 * N + 7)'
  <2> SUFFICES ASSUME StepsLeft \in Nat, (StepsLeft \in Nat)',
                      StepsLeft <= 4 * N + 7, [StepsLeft' < StepsLeft]_vars
               PROVE  (StepsLeft <= 4 * N + 7)'
      OBVIOUS
  <2>2. CASE UNCHANGED vars
    <3>1. StepsLeft' = StepsLeft
          BY <2>2 DEF vars, fanout, collect, cleanup, StepsLeft, AskLeft,
                      CollectLeft, CleanLeft
    <3> QED BY <3>1
  <2>3. CASE StepsLeft' < StepsLeft
        BY <2>3, DoFirstAssumption
  <2> QED BY <2>2, <2>3
<1>5. Parts /\ StepsLeft <= 4 * N + 7 => StepsBounded
      BY DoFirstAssumption DEF Parts, StepsLeft, StepsBounded
<1> QED BY <1>2, <1>3, <1>4, <1>5, PartsTyped, StepsDecrease, InvAlways, PTL
        DEF Spec, StepsRunOut
=============================================================================
