---------------------------- MODULE QueueProofs ----------------------------
(***************************************************************************)
(* Theorems about Queue, for any number of queues, events and goroutines,  *)
(* batches and bodies of any size and any number of failures.              *)
(***************************************************************************)
EXTENDS Queue, TLAPS

-----------------------------------------------------------------------------
(* What Init and DeleteQueue make of the fields and of AWS.                *)

OwnerTyped ==
    /\ owner \in {"idle", "create", "attributes", "subscribe", "ready",
                  "unsubscribe", "delete", "deleteAnyway", "deleted",
                  "deleteFailed", "panicked"}
    /\ sqsQueue \in 0 .. MaxQueues
    /\ subscriptionArn \in 0 .. MaxQueues
    /\ initialized \in BOOLEAN
    /\ created \in 0 .. MaxQueues
    /\ existing \in SUBSET Queues
    /\ subscribed \in SUBSET Queues
    /\ abandoned \in SUBSET Queues
    /\ unconfirmed \in SUBSET Queues
    /\ faults \in 0 .. MaxFaults

(* Queues are numbered as they are asked for, so that the one being made   *)
(* is in none of the sets yet.                                             *)
Numbered ==
    /\ sqsQueue <= created /\ subscriptionArn <= created
    /\ \A q \in existing \cup subscribed \cup abandoned \cup unconfirmed :
         q <= created
    /\ owner \in {"create", "attributes"} =>
         /\ sqsQueue < created
         /\ created \notin subscribed \cup abandoned \cup unconfirmed
    /\ owner = "subscribe" =>
         /\ sqsQueue = created
         /\ created \notin subscribed \cup abandoned \cup unconfirmed
    /\ owner \in {"create", "attributes", "subscribe"} =>
         subscriptionArn < created
    /\ owner \in {"attributes", "subscribe"} => created \in existing

(* The queue the Queue knows, from the first createQueue that worked.      *)
Known ==
    /\ sqsQueue = 0 => ~initialized /\ subscribed = {}
    /\ owner \in {"subscribe", "ready", "delete", "deleteAnyway", "deleted",
                  "deleteFailed"} => sqsQueue # 0
    /\ owner = "panicked" => sqsQueue = 0
    /\ existing \subseteq {sqsQueue} \cup abandoned
         \cup (IF owner = "attributes" THEN {created} ELSE {})

(* Its subscription is the one the Queue knows, unless Subscribe failed.   *)
Subscribed ==
    /\ owner # "subscribe" /\ sqsQueue # 0 /\ sqsQueue \notin unconfirmed =>
         subscriptionArn = sqsQueue /\ initialized
    /\ owner = "ready" /\ sqsQueue \notin unconfirmed =>
         sqsQueue \in existing \cap subscribed
    /\ owner \in {"delete", "deleted"} /\ sqsQueue \in subscribed =>
         sqsQueue \in unconfirmed
    /\ owner = "deleted" => sqsQueue \notin existing
    /\ owner \in {"idle", "create", "attributes"} /\ sqsQueue \in existing =>
         sqsQueue \in unconfirmed
    /\ owner = "ready" /\ sqsQueue \in unconfirmed =>
         sqsQueue \in existing /\ subscriptionArn # sqsQueue

OwnerInv == OwnerTyped /\ Numbered /\ Known /\ Subscribed

LEMMA OwnerInit == Init => OwnerInv
<1> SUFFICES ASSUME Init PROVE OwnerInv
    OBVIOUS
<1> USE QueueAssumption DEF Init
<1>1. OwnerTyped
  <2>1. initialized \in BOOLEAN
        OBVIOUS
  <2>2. 0 \in 0 .. MaxQueues /\ 0 \in 0 .. MaxFaults
        OBVIOUS
  <2> QED BY <2>1, <2>2 DEF OwnerTyped
<1>2. Numbered
      BY DEF Numbered
<1>3. Known
      BY DEF Known
<1>4. Subscribed
      BY DEF Subscribed
<1> QED BY <1>1, <1>2, <1>3, <1>4 DEF OwnerInv

LEMMA OwnerTypedNext == OwnerTyped /\ Numbered /\ Owner => OwnerTyped'
<1> SUFFICES ASSUME OwnerTyped, Numbered, Owner PROVE OwnerTyped'
    OBVIOUS
<1> USE QueueAssumption
    DEF OwnerTyped, Queues, Works, Fails, fields, aws, failed
<1>1. CASE InitCalled
      BY <1>1 DEF InitCalled
<1>2. CASE CreatesQueue
  <2>1. created \in Queues
        BY <1>2 DEF CreatesQueue, Numbered
  <2>2. existing' \in SUBSET Queues /\ abandoned' \in SUBSET Queues
        BY <1>2, <2>1 DEF CreatesQueue
  <2>3. /\ owner' \in {"idle", "attributes"}
        /\ faults' \in 0 .. MaxFaults
        BY <1>2 DEF CreatesQueue
  <2> QED BY <1>2, <2>2, <2>3 DEF CreatesQueue
<1>3. CASE GetsAttributes
  <2>1. created \in Queues
        BY <1>3 DEF GetsAttributes, Numbered
  <2>2. abandoned' \in SUBSET Queues
        BY <1>3, <2>1 DEF GetsAttributes
  <2>3. /\ owner' \in {"idle", "subscribe"} /\ sqsQueue' \in 0 .. MaxQueues
        /\ faults' \in 0 .. MaxFaults
        BY <1>3 DEF GetsAttributes
  <2> QED BY <1>3, <2>2, <2>3 DEF GetsAttributes
<1>4. CASE SubscribesQueue
  <2>1. sqsQueue \in Queues
        BY <1>4 DEF SubscribesQueue, Numbered
  <2>2. subscribed' \in SUBSET Queues /\ unconfirmed' \in SUBSET Queues
        BY <1>4, <2>1 DEF SubscribesQueue
  <2>3. initialized' \in BOOLEAN
        BY <1>4 DEF SubscribesQueue
  <2>4. subscriptionArn' \in 0 .. MaxQueues /\ faults' \in 0 .. MaxFaults
        BY <1>4 DEF SubscribesQueue
  <2> QED BY <1>4, <2>2, <2>3, <2>4 DEF SubscribesQueue
<1>5. CASE DeleteCalled
      BY <1>5 DEF DeleteCalled
<1>6. CASE Unsubscribes
  <2>1. subscribed' \in SUBSET Queues
        BY <1>6 DEF Unsubscribes
  <2>2. faults' \in 0 .. MaxFaults
        BY <1>6 DEF Unsubscribes
  <2>3. owner' \in {"panicked", "delete", "deleteAnyway"}
        BY <1>6 DEF Unsubscribes
  <2> QED BY <1>6, <2>1, <2>2, <2>3 DEF Unsubscribes
<1>7. CASE DeletesQueue
      BY <1>7 DEF DeletesQueue
<1> QED BY <1>1, <1>2, <1>3, <1>4, <1>5, <1>6, <1>7 DEF Owner

LEMMA OwnerNext == OwnerInv /\ Owner => OwnerInv'
<1> SUFFICES ASSUME OwnerInv, Owner PROVE OwnerInv'
    OBVIOUS
<1>0. OwnerTyped'
      BY OwnerTypedNext DEF OwnerInv
<1> USE QueueAssumption
    DEF OwnerInv, OwnerTyped, Queues, Works, Fails, fields, aws, failed
<1>1. CASE InitCalled
  <2>1. Numbered'
        BY <1>1 DEF InitCalled, Numbered
  <2>2. Known'
        BY <1>1 DEF InitCalled, Numbered, Known
  <2>3. Subscribed'
        BY <1>1 DEF InitCalled, Numbered, Subscribed
  <2> QED BY <1>0, <2>1, <2>2, <2>3
<1>2. CASE CreatesQueue
  <2>1. Numbered'
    <3>1. /\ \A q \in existing' : q \in existing \/ q = created
          /\ \A q \in abandoned' : q \in abandoned \/ q = created
          BY <1>2 DEF CreatesQueue
    <3>2. /\ UNCHANGED <<sqsQueue, subscriptionArn, created, subscribed,
                         unconfirmed>>
          /\ \/ owner' = "attributes" /\ created \in existing'
                /\ abandoned' = abandoned
             \/ owner' = "idle"
          /\ sqsQueue < created /\ subscriptionArn < created
          /\ created \notin subscribed \cup abandoned \cup unconfirmed
          BY <1>2 DEF CreatesQueue, Numbered
    <3>3. \A q \in existing' \cup subscribed' \cup abandoned'
                   \cup unconfirmed' : q <= created'
      <4> TAKE q \in existing' \cup subscribed' \cup abandoned'
                       \cup unconfirmed'
      <4>1. CASE q = created
            BY <3>2, <4>1
      <4>2. CASE q # created
            BY <3>1, <3>2, <4>2 DEF Numbered
      <4> QED BY <4>1, <4>2
    <3>4. sqsQueue' <= created' /\ subscriptionArn' <= created'
          BY <3>2 DEF Numbered
    <3> QED BY <3>2, <3>3, <3>4 DEF Numbered
  <2>2. Known'
        BY <1>2 DEF CreatesQueue, Numbered, Known
  <2>3. Subscribed'
        BY <1>2 DEF CreatesQueue, Numbered, Subscribed
  <2> QED BY <1>0, <2>1, <2>2, <2>3
<1>3. CASE GetsAttributes
  <2>1. Numbered'
    <3>1. /\ sqsQueue < created /\ subscriptionArn <= created
          /\ created \in existing
          BY <1>3 DEF GetsAttributes, Numbered
    <3>2. CASE Works /\ owner' = "subscribe" /\ sqsQueue' = created
               /\ abandoned' = abandoned \cup ({sqsQueue} \cap existing)
          BY <1>3, <3>1, <3>2 DEF GetsAttributes, Numbered
    <3>3. CASE owner' = "idle" /\ sqsQueue' = sqsQueue
               /\ abandoned' = abandoned \cup {created}
          BY <1>3, <3>1, <3>3 DEF GetsAttributes, Numbered
    <3> QED BY <1>3, <3>2, <3>3 DEF GetsAttributes
  <2>2. Known'
        BY <1>3 DEF GetsAttributes, Numbered, Known
  <2>3. Subscribed'
        BY <1>3 DEF GetsAttributes, Numbered, Subscribed
  <2> QED BY <1>0, <2>1, <2>2, <2>3
<1>4. CASE SubscribesQueue
  <2>1. Numbered'
        BY <1>4 DEF SubscribesQueue, Numbered
  <2>2. Known'
        BY <1>4 DEF SubscribesQueue, Numbered, Known
  <2>3. Subscribed'
        BY <1>4 DEF SubscribesQueue, Numbered, Known, Subscribed
  <2> QED BY <1>0, <2>1, <2>2, <2>3
<1>5. CASE DeleteCalled
  <2>1. Numbered'
        BY <1>5 DEF DeleteCalled, Numbered
  <2>2. Known'
        BY <1>5 DEF DeleteCalled, Known
  <2>3. Subscribed'
        BY <1>5 DEF DeleteCalled, Subscribed
  <2> QED BY <1>0, <2>1, <2>2, <2>3
<1>6. CASE Unsubscribes
  <2>1. Numbered'
        BY <1>6 DEF Unsubscribes, Numbered
  <2>2. Known'
        BY <1>6 DEF Unsubscribes, Known
  <2>3. Subscribed'
        BY <1>6 DEF Unsubscribes, Subscribed
  <2> QED BY <1>0, <2>1, <2>2, <2>3
<1>7. CASE DeletesQueue
  <2>1. Numbered'
        BY <1>7 DEF DeletesQueue, Numbered
  <2>2. Known'
        BY <1>7 DEF DeletesQueue, Known
  <2>3. Subscribed'
        BY <1>7 DEF DeletesQueue, Subscribed
  <2> QED BY <1>0, <2>1, <2>2, <2>3
<1> QED BY <1>1, <1>2, <1>3, <1>4, <1>5, <1>6, <1>7 DEF Owner

-----------------------------------------------------------------------------
(* What the calls of GetMessage make of the messages.                      *)

DeliveryTyped ==
    /\ msg \in [Messages -> Queued \cup {"none", "deleted", "gone"}]
    /\ body \in [Messages -> Body]
    /\ holder \in [Messages -> Pollers \cup {Nobody}]
    /\ poller \in [Pollers -> Poll]
    /\ \A p \in Pollers : Len(poller[p].batch) <= MaxBatch
    /\ passed \in SUBSET Messages

(* The message at hand is one of the batch, every message of the batch has *)
(* been in the queue, and those the call is past were handled.             *)
Past(r, j) == r.pc = "nil" \/ j < r.i \/ (j = r.i /\ r.pc = "ack")

Sound(r, where, handled) ==
    /\ r.pc \in {"parse", "handle", "ack"} => r.i \in 1 .. Len(r.batch)
    /\ r.pc = "receive" => r.i = 1
    /\ \A j \in DOMAIN r.batch :
         /\ where[r.batch[j]] # "none"
         /\ Past(r, j) => r.batch[j] \in handled

DeliveryInv ==
    /\ DeliveryTyped
    /\ DeletedIsHandled
    /\ \A p \in Pollers : Sound(poller[p], msg, passed)

LEMMA DeliveryInit == Init => DeliveryInv
<1> SUFFICES ASSUME Init PROVE DeliveryInv
    OBVIOUS
<1> USE QueueAssumption DEF Init
<1>1. NoPoll \in Poll /\ Len(NoPoll.batch) = 0 /\ DOMAIN NoPoll.batch = {}
      BY DEF NoPoll, Poll
<1>2. [parses |-> TRUE, records |-> 0] \in Body
      BY DEF Body
<1>3. DeliveryTyped
      BY <1>1, <1>2 DEF DeliveryTyped
<1>4. \A p \in Pollers : Sound(poller[p], msg, passed)
      BY <1>1 DEF Sound, NoPoll
<1> QED BY <1>3, <1>4 DEF DeliveryInv, DeletedIsHandled

(* A step that replaces one call's record, and takes no message back.      *)
LEMMA PollStep ==
  ASSUME NEW p \in Pollers, NEW r \in Poll, DeliveryInv,
         poller' = [poller EXCEPT ![p] = r],
         Len(r.batch) <= MaxBatch,
         Sound(r, msg', passed'),
         msg' \in [Messages -> Queued \cup {"none", "deleted", "gone"}],
         holder' \in [Messages -> Pollers \cup {Nobody}],
         body' = body,
         passed \subseteq passed', passed' \in SUBSET Messages,
         \A m \in Messages : /\ msg[m] # "none" => msg'[m] # "none"
                             /\ msg'[m] = "deleted" => m \in passed'
  PROVE  DeliveryInv'
<1>1. DeliveryTyped'
      BY DEF DeliveryInv, DeliveryTyped
<1>2. DeletedIsHandled'
      BY DEF DeletedIsHandled
<1>3. ASSUME NEW q \in Pollers PROVE Sound(poller[q], msg, passed)'
  <2>1. CASE q = p
        BY <2>1 DEF DeliveryInv, DeliveryTyped
  <2>2. CASE q # p
    <3>1. poller'[q] = poller[q] /\ poller[q].batch \in Seq(Messages)
          BY <2>2 DEF DeliveryInv, DeliveryTyped, Poll
    <3>2. \A j \in DOMAIN poller[q].batch : poller[q].batch[j] \in Messages
          BY <3>1
    <3> QED BY <3>1, <3>2 DEF DeliveryInv, Sound
  <2> QED BY <2>1, <2>2
<1> QED BY <1>1, <1>2, <1>3 DEF DeliveryInv

(* A step that touches no call.                                            *)
LEMMA MessageStep ==
  ASSUME DeliveryInv, UNCHANGED <<holder, poller, passed>>,
         msg' \in [Messages -> Queued \cup {"none", "deleted", "gone"}],
         body' \in [Messages -> Body],
         \A m \in Messages :
           /\ msg[m] # "none" => msg'[m] # "none"
           /\ msg'[m] = "deleted" => msg[m] = "deleted"
  PROVE  DeliveryInv'
<1>1. DeliveryTyped'
      BY DEF DeliveryInv, DeliveryTyped
<1>2. DeletedIsHandled'
      BY DEF DeliveryInv, DeletedIsHandled
<1>3. ASSUME NEW q \in Pollers PROVE Sound(poller[q], msg, passed)'
  <2>1. \A j \in DOMAIN poller[q].batch : poller[q].batch[j] \in Messages
        BY DEF DeliveryInv, DeliveryTyped, Poll
  <2> QED BY <2>1 DEF DeliveryInv, Sound
<1> QED BY <1>1, <1>2, <1>3 DEF DeliveryInv

LEMMA BatchTyped ==
  ASSUME NEW b \in Batches
  PROVE  /\ b \in Seq(Messages) /\ Len(b) <= MaxBatch
         /\ \A j \in DOMAIN b : b[j] \in Messages /\ msg[b[j]] = "visible"
<1>1. PICK n \in 0 .. MaxBatch :
            b \in [1 .. n -> {m \in Messages : msg[m] = "visible"}]
      BY DEF Batches
<1>2. b \in [1 .. n -> Messages]
      BY <1>1
<1>3. b \in Seq(Messages) /\ Len(b) = n
      BY <1>2, QueueAssumption
<1> QED BY <1>1, <1>3, QueueAssumption

(* Naming a queue, or none, leaves the rest of a call as it is.            *)
LEMMA Names ==
  ASSUME NEW r \in Poll, NEW q \in 0 .. MaxQueues
  PROVE  LET s == [r EXCEPT !.queue = q] IN
         /\ s \in Poll /\ s.pc = r.pc /\ s.batch = r.batch
         /\ s.i = r.i /\ s.done = r.done
BY DEF Poll

(* The message at hand.                                                    *)
LEMMA CurrentIs ==
  ASSUME NEW p \in Pollers, DeliveryInv,
         poller[p].pc \in {"parse", "handle", "ack"}
  PROVE  /\ poller[p] \in Poll
         /\ poller[p].i \in DOMAIN poller[p].batch
         /\ DOMAIN poller[p].batch = 1 .. Len(poller[p].batch)
         /\ Len(poller[p].batch) \in Nat
         /\ Len(poller[p].batch) <= MaxBatch
         /\ Current(p) \in Messages
         /\ msg[Current(p)] # "none"
         /\ body[Current(p)] \in Body
<1>1. poller[p] \in Poll /\ Len(poller[p].batch) <= MaxBatch
      BY DEF DeliveryInv, DeliveryTyped
<1>2. /\ poller[p].i \in 1 .. Len(poller[p].batch)
      /\ DOMAIN poller[p].batch = 1 .. Len(poller[p].batch)
      /\ Len(poller[p].batch) \in Nat
      BY <1>1 DEF DeliveryInv, Sound, Poll
<1>3. Current(p) \in Messages
      BY <1>1, <1>2 DEF Current, Poll
<1> QED BY <1>1, <1>2, <1>3
        DEF DeliveryInv, DeliveryTyped, Sound, Current

LEMMA GetMessageNext ==
  ASSUME NEW p \in Pollers, OwnerInv, DeliveryInv, GetMessage(p)
  PROVE  DeliveryInv'
<1> DEFINE R == poller[p]
<1>0. R \in Poll /\ Len(R.batch) <= MaxBatch /\ Sound(R, msg, passed)
      BY DEF DeliveryInv, DeliveryTyped
<1>00. /\ msg \in [Messages -> Queued \cup {"none", "deleted", "gone"}]
       /\ holder \in [Messages -> Pollers \cup {Nobody}]
       /\ passed \in SUBSET Messages
       /\ \A m \in Messages : msg[m] = "deleted" => m \in passed
       BY DEF DeliveryInv, DeliveryTyped, DeletedIsHandled
<1> USE QueueAssumption
<1>000. 0 \in 0 .. MaxQueues
       OBVIOUS
<1>1. CASE PollStarts(p)
  <2> DEFINE s == [NoPoll EXCEPT !.pc = "receive"]
             r == [s EXCEPT !.queue = sqsQueue]
  <2>1. /\ s = [pc |-> "receive", queue |-> 0, batch |-> <<>>, i |-> 1,
                done |-> 0]
        /\ s \in Poll
    <3>1. <<>> \in Seq(Messages) /\ 0 \in 0 .. MaxRecords
          OBVIOUS
    <3>2. /\ "receive" \in {"idle", "receive", "parse", "handle", "ack",
                            "nil", "error"}
          /\ 1 \in Nat
          OBVIOUS
    <3>3. s = [pc |-> "receive", queue |-> 0, batch |-> <<>>, i |-> 1,
               done |-> 0]
          BY DEF NoPoll
    <3> QED BY <1>000, <3>1, <3>2, <3>3, Zenon DEF Poll
  <2>2. /\ r \in Poll /\ r.pc = "receive" /\ r.batch = <<>> /\ r.i = 1
        /\ Len(r.batch) <= MaxBatch
    <3>1. s.pc = "receive" /\ s.batch = <<>> /\ s.i = 1
          BY <2>1
    <3>2. sqsQueue \in 0 .. MaxQueues
          BY DEF OwnerInv, OwnerTyped
    <3> HIDE DEF s
    <3>3. r \in Poll /\ r.pc = "receive" /\ r.batch = <<>> /\ r.i = 1
          BY <2>1, <3>1, <3>2, Names
    <3> QED BY <3>3
  <2>3. Sound(r, msg', passed')
    <3> HIDE DEF r
    <3> QED BY <2>2 DEF Sound
  <2>4. /\ poller' = [poller EXCEPT ![p] = r]
        /\ UNCHANGED <<msg, holder, body, passed>>
        BY <1>1 DEF PollStarts, PollKeeps
  <2> HIDE DEF r
  <2> QED BY <2>2, <2>3, <2>4, <1>00, PollStep
<1>2. ASSUME NEW b \in Batches, ReceivesBatch(p, b) PROVE DeliveryInv'
  <2> DEFINE s == [R EXCEPT !.queue = 0]
             r == [s EXCEPT !.batch = b,
                            !.pc = IF b = <<>> THEN "nil" ELSE "parse"]
  <2>1. poller' = [poller EXCEPT ![p] = r]
        BY <1>2 DEF ReceivesBatch
  <2>0. s \in Poll /\ s.i = R.i
        BY <1>0, <1>000, Names
  <2> HIDE DEF s
  <2>2. /\ r \in Poll /\ r.batch = b /\ r.i = R.i
        /\ r.pc = IF b = <<>> THEN "nil" ELSE "parse"
        BY <2>0, BatchTyped DEF Poll
  <2>3. /\ msg' \in [Messages -> Queued \cup {"none", "deleted", "gone"}]
        /\ holder' \in [Messages -> Pollers \cup {Nobody}]
        /\ \A m \in Messages : msg'[m] \in {msg[m], "inflight"}
        BY <1>2, <1>00 DEF ReceivesBatch, Queued
  <2>4. \A j \in DOMAIN b : msg'[b[j]] # "none"
        BY <2>3, BatchTyped
  <2>5. R.i = 1
        BY <1>2, <1>0 DEF ReceivesBatch, PollAt, Sound
  <2>6. Sound(r, msg', passed')
    <3>1. CASE b = <<>>
          BY <3>1, <2>2, <2>5 DEF Sound, Past
    <3>2. CASE b # <<>>
      <4>1. 1 \in 1 .. Len(b) /\ DOMAIN b \subseteq Nat \ {0}
            BY <3>2, BatchTyped
      <4>2. r.pc = "parse" /\ r.batch = b /\ r.i = 1
            BY <2>2, <2>5, <3>2
      <4> HIDE DEF r
      <4> QED BY <4>1, <4>2, <2>4 DEF Sound, Past
    <3> QED BY <3>1, <3>2
  <2>7. body' = body /\ passed' = passed /\ Len(r.batch) <= MaxBatch
        BY <1>2, <2>2, BatchTyped DEF ReceivesBatch, PollKeeps
  <2>8. \A m \in Messages : /\ msg[m] # "none" => msg'[m] # "none"
                            /\ msg'[m] = "deleted" => m \in passed'
        BY <2>3, <2>7, <1>00
  <2> HIDE DEF r
  <2> QED BY <2>1, <2>2, <2>3, <2>6, <2>7, <2>8, <1>00, PollStep
<1>3. CASE ReceiveFails(p)
  <2> DEFINE s == [R EXCEPT !.queue = 0]
             r == [s EXCEPT !.pc = "error"]
  <2>0. /\ s \in Poll /\ s.batch = R.batch /\ s.i = R.i
        /\ poller' = [poller EXCEPT ![p] = r]
        BY <1>0, <1>000, <1>3, Names DEF ReceiveFails
  <2> HIDE DEF s
  <2>1. r \in Poll /\ r.batch = R.batch /\ r.i = R.i /\ r.pc = "error"
        BY <2>0 DEF Poll
  <2>2. Sound(r, msg', passed')
        BY <1>3, <1>0, <2>1 DEF ReceiveFails, Sound, Past, PollAt, Poll
  <2> QED BY <1>3, <2>0, <2>1, <2>2, <1>0, <1>00, PollStep
          DEF ReceiveFails, PollKeeps
<1>4. CASE Parses(p)
  <2> DEFINE r == [R EXCEPT !.pc = IF body[Current(p)].parses
                                   THEN "handle" ELSE "error"]
  <2>1. r \in Poll /\ r.batch = R.batch
        BY <1>0 DEF Poll
  <2>2. Sound(r, msg', passed')
        BY <1>4, <1>0 DEF Parses, Sound, Past, PollAt, Poll
  <2> QED BY <1>4, <2>1, <2>2, <1>0, <1>00, PollStep
          DEF Parses, PollTo, PollKeeps
<1>5. CASE HandlesRecord(p)
  <2>1. PICK r \in {[R EXCEPT !.done = @ + 1], [R EXCEPT !.pc = "error"]} :
              poller' = [poller EXCEPT ![p] = r]
        BY <1>5 DEF HandlesRecord, PollTo
  <2>2. r \in Poll /\ r.batch = R.batch
    <3>1. body[Current(p)].records \in 0 .. MaxRecords /\ R.done \in Nat
          BY <1>5, <1>0, CurrentIs DEF HandlesRecord, PollAt, Poll, Body
    <3>2. R.done + 1 \in 0 .. MaxRecords
          BY <1>5, <3>1 DEF HandlesRecord
    <3>3. CASE r = [R EXCEPT !.done = @ + 1]
          BY <1>0, <3>2, <3>3 DEF Poll
    <3>4. CASE r = [R EXCEPT !.pc = "error"]
          BY <1>0, <3>4 DEF Poll
    <3> QED BY <2>1, <3>3, <3>4
  <2>3. Sound(r, msg', passed')
        BY <1>5, <2>1, <1>0 DEF HandlesRecord, Sound, Past, PollAt, Poll
  <2> QED BY <1>5, <2>1, <2>2, <2>3, <1>0, <1>00, PollStep
          DEF HandlesRecord, PollKeeps
<1>6. CASE HandlesLast(p)
  <2> DEFINE r == [R EXCEPT !.pc = "ack"]
  <2>1. r \in Poll /\ r.batch = R.batch
        BY <1>0 DEF Poll
  <2>2. /\ passed \subseteq passed' /\ passed' \in SUBSET Messages
        /\ R.batch[R.i] \in passed' /\ msg' = msg
        BY <1>6, <1>00, CurrentIs DEF HandlesLast, PollAt, Current
  <2>3. Sound(r, msg', passed')
        BY <1>6, <2>1, <2>2, <1>0 DEF HandlesLast, Sound, Past, PollAt, Poll
  <2> QED BY <1>6, <2>1, <2>2, <2>3, <1>0, <1>00, PollStep
          DEF HandlesLast, PollTo, PollKeeps
<1>7. CASE Acknowledges(p)
  <2>0. R.pc = "ack"
        BY <1>7 DEF Acknowledges, PollAt
  <2>1. Current(p) \in passed
        BY <2>0, <1>0, CurrentIs DEF Sound, Past, Current, Poll
  <2>2. /\ msg' \in [Messages -> Queued \cup {"none", "deleted", "gone"}]
        /\ \A m \in Messages : /\ msg[m] # "none" => msg'[m] # "none"
                               /\ msg'[m] = "deleted" => m \in passed
        BY <1>7, <1>00, <2>1 DEF Acknowledges, Queued
  <2>3. \A j \in DOMAIN R.batch : msg'[R.batch[j]] # "none"
    <3> TAKE j \in DOMAIN R.batch
    <3>1. R.batch[j] \in Messages
          BY <1>0 DEF Poll
    <3>2. msg[R.batch[j]] # "none"
          BY <1>0 DEF Sound
    <3> QED BY <2>2, <3>1, <3>2
  <2>4. /\ UNCHANGED <<holder, body, passed>>
        /\ R.i \in 1 .. Len(R.batch) /\ Len(R.batch) \in Nat
        /\ DOMAIN R.batch = 1 .. Len(R.batch)
        BY <1>7, <2>0, CurrentIs DEF Acknowledges, PollKeeps
  <2>5. ASSUME NEW r \in Poll, r.batch = R.batch, Sound(r, msg', passed),
               poller' = [poller EXCEPT ![p] = r]
        PROVE  DeliveryInv'
    <3>1. Len(r.batch) <= MaxBatch /\ passed' = passed
          BY <2>4, <2>5, <1>0
    <3>2. Sound(r, msg', passed')
          BY <2>5, <3>1
    <3>3. UNCHANGED <<holder, body>>
          BY <2>4
    <3> HIDE DEF R
    <3> QED BY <2>2, <2>5, <3>1, <3>2, <3>3, <1>00, PollStep
  <2> DEFINE following == [R EXCEPT !.pc = "parse", !.i = @ + 1, !.done = 0]
  <2>6. CASE R.i < Len(R.batch)
             /\ poller' = [poller EXCEPT ![p] = following]
    <3>1. following \in Poll /\ following.batch = R.batch
      <4>1. R.i + 1 \in Nat /\ 0 \in 0 .. MaxRecords
            BY <2>4
      <4> QED BY <1>0, <4>1 DEF Poll
    <3>2. /\ following.pc = "parse" /\ following.i = R.i + 1
          /\ following.i \in 1 .. Len(following.batch)
          BY <2>4, <2>6, <3>1, <1>0 DEF Poll
    <3>3. ASSUME NEW j \in DOMAIN following.batch
          PROVE  /\ msg'[following.batch[j]] # "none"
                 /\ Past(following, j) => following.batch[j] \in passed
      <4>1. Past(following, j) => Past(R, j)
            BY <2>0, <2>4, <3>1, <3>2 DEF Past
      <4> QED BY <2>3, <3>1, <4>1, <1>0 DEF Sound
    <3>4. Sound(following, msg', passed)
          BY <3>2, <3>3 DEF Sound
    <3> QED BY <2>5, <2>6, <3>1, <3>4
  <2>7. CASE poller' = [poller EXCEPT ![p] = [R EXCEPT !.pc = "nil"]]
             /\ ~(R.i < Len(R.batch))
    <3>1. /\ [R EXCEPT !.pc = "nil"] \in Poll
          /\ [R EXCEPT !.pc = "nil"].batch = R.batch
          BY <1>0 DEF Poll
    <3>2. Sound([R EXCEPT !.pc = "nil"], msg', passed)
          BY <2>0, <2>3, <2>4, <2>7, <1>0 DEF Sound, Past, Poll
    <3> QED BY <2>5, <2>7, <3>1, <3>2
  <2>8. CASE poller' = [poller EXCEPT ![p] = [R EXCEPT !.pc = "error"]]
    <3>1. /\ [R EXCEPT !.pc = "error"] \in Poll
          /\ [R EXCEPT !.pc = "error"].batch = R.batch
          BY <1>0 DEF Poll
    <3>2. Sound([R EXCEPT !.pc = "error"], msg', passed)
          BY <2>0, <2>3, <2>4, <1>0 DEF Sound, Past, Poll
    <3> QED BY <2>5, <2>8, <3>1, <3>2
  <2>9. \/ /\ R.i < Len(R.batch)
           /\ poller' = [poller EXCEPT ![p] = following]
        \/ /\ ~(R.i < Len(R.batch))
           /\ poller' = [poller EXCEPT ![p] = [R EXCEPT !.pc = "nil"]]
        \/ poller' = [poller EXCEPT ![p] = [R EXCEPT !.pc = "error"]]
    <3>1. CASE R.i < Len(R.batch)
          BY <1>7, <3>1 DEF Acknowledges, PollTo
    <3>2. CASE ~(R.i < Len(R.batch))
          BY <1>7, <3>2 DEF Acknowledges, PollTo
    <3> QED BY <3>1, <3>2
  <2> QED BY <2>6, <2>7, <2>8, <2>9
<1> QED BY <1>1, <1>2, <1>3, <1>4, <1>5, <1>6, <1>7 DEF GetMessage

-----------------------------------------------------------------------------
Inv == OwnerInv /\ DeliveryInv

(* What the steps of the owner, of the topic and of SQS do to the messages: *)
(* nothing, or those of a queue that goes are out of reach.                *)
LEMMA OthersKeepDelivery ==
  ASSUME DeliveryInv,
         \/ Owner
         \/ \E m \in Messages : Delivers(m) \/ VisibilityExpires(m)
         \/ UNCHANGED vars
  PROVE  DeliveryInv'
<1> USE DEF delivery, messages, aws, failed, fields
<1>0. /\ msg \in [Messages -> Queued \cup {"none", "deleted", "gone"}]
      /\ body \in [Messages -> Body]
      BY DEF DeliveryInv, DeliveryTyped
<1>1. CASE UNCHANGED delivery
      BY <1>1, <1>0, MessageStep
<1>2. CASE QueueGoes /\ UNCHANGED <<body, holder, poller, passed>>
  <2>1. /\ msg' \in [Messages -> Queued \cup {"none", "deleted", "gone"}]
        /\ \A m \in Messages : /\ msg[m] # "none" => msg'[m] # "none"
                               /\ msg'[m] = "deleted" => msg[m] = "deleted"
        BY <1>2, <1>0 DEF QueueGoes
  <2> QED BY <1>2, <1>0, <2>1, MessageStep
<1>3. CASE Owner
      BY <1>1, <1>2, <1>3
         DEF Owner, InitCalled, CreatesQueue, GetsAttributes, SubscribesQueue,
             DeleteCalled, Unsubscribes, DeletesQueue
<1>4. CASE UNCHANGED vars
      BY <1>1, <1>4 DEF vars
<1>5. ASSUME NEW m \in Messages, Delivers(m) PROVE DeliveryInv'
  <2>1. /\ msg' \in [Messages -> Queued \cup {"none", "deleted", "gone"}]
        /\ \A n \in Messages : msg'[n] \in {msg[n], "visible"}
        BY <1>5, <1>0 DEF Delivers, Queued
  <2>2. body' \in [Messages -> Body]
        BY <1>5, <1>0 DEF Delivers, Bodies
  <2> QED BY <1>5, <2>1, <2>2, MessageStep DEF Delivers
<1>6. ASSUME NEW m \in Messages, VisibilityExpires(m) PROVE DeliveryInv'
  <2>1. /\ msg' \in [Messages -> Queued \cup {"none", "deleted", "gone"}]
        /\ \A n \in Messages : msg'[n] \in {msg[n], "visible"}
        BY <1>6, <1>0 DEF VisibilityExpires, Queued
  <2> QED BY <1>6, <1>0, <2>1, MessageStep DEF VisibilityExpires
<1> QED BY <1>3, <1>4, <1>5, <1>6

(* The other steps leave the owner and its fields alone.                   *)
LEMMA OthersKeepOwner ==
  ASSUME OwnerInv,
         \/ \E p \in Pollers : GetMessage(p)
         \/ \E m \in Messages : Delivers(m) \/ VisibilityExpires(m)
         \/ UNCHANGED vars
  PROVE  OwnerInv'
<1> USE QueueAssumption DEF fields, aws, failed
<1>1. UNCHANGED <<owner, fields, aws, failed>>
      BY DEF GetMessage, PollKeeps, PollStarts, ReceivesBatch, ReceiveFails,
             Parses, HandlesRecord, HandlesLast, Acknowledges, Delivers,
             VisibilityExpires, vars
<1>2. faults' = faults \/ Fails
      BY DEF GetMessage, PollStarts, ReceivesBatch, ReceiveFails, CallFails,
             Parses, HandlesRecord, HandlesLast, Acknowledges, Delivers,
             VisibilityExpires, Works, vars
<1>3. faults' \in 0 .. MaxFaults
      BY <1>2 DEF OwnerInv, OwnerTyped, Fails
<1>4. OwnerTyped'
      BY <1>1, <1>3 DEF OwnerInv, OwnerTyped
<1>5. Numbered'
      BY <1>1 DEF OwnerInv, Numbered
<1>6. Known' /\ Subscribed'
      BY <1>1 DEF OwnerInv, Known, Subscribed
<1> QED BY <1>4, <1>5, <1>6 DEF OwnerInv

LEMMA InvAlways == Spec => []Inv
<1>1. Init => Inv
      BY OwnerInit, DeliveryInit DEF Inv
<1>2. Inv /\ [Next]_vars => Inv'
      BY OwnerNext, GetMessageNext, OthersKeepDelivery, OthersKeepOwner
         DEF Inv, Next
<1> QED BY <1>1, <1>2, PTL DEF Spec

(* The types of the variables, for every value of the bounds.              *)
THEOREM TypeCorrect == Spec => []TypeOK
<1>1. Inv => TypeOK
      BY DEF Inv, OwnerInv, OwnerTyped, DeliveryInv, DeliveryTyped, TypeOK
<1> QED BY <1>1, InvAlways, PTL

(* A message is deleted only when all its records were handled, however    *)
(* many goroutines poll and however often it is delivered.                 *)
THEOREM HandledBeforeDeleted == Spec => []DeletedIsHandled
<1>1. Inv => DeletedIsHandled
      BY DEF Inv, DeliveryInv
<1> QED BY <1>1, InvAlways, PTL

(* A GetMessage that returns nil has handled all it received.              *)
THEOREM NilHandled == Spec => []NilMeansHandled
<1>1. Inv => NilMeansHandled
      BY DEF Inv, DeliveryInv, Sound, Past, NilMeansHandled
<1> QED BY <1>1, InvAlways, PTL

(* A Queue whose Init returned nil is subscribed, whatever came before;    *)
(* otherwise its queue is gone, or the one whose Subscribe failed.         *)
THEOREM ReadySubscribed == Spec => []ReadyIsSubscribed
<1>1. Inv => ReadyIsSubscribed
      BY DEF Inv, OwnerInv, Known, Subscribed, ReadyIsSubscribed
<1> QED BY <1>1, InvAlways, PTL

(* DeleteQueue that returns nil leaves no queue and no known subscription. *)
THEOREM DeletedCleanedUp == Spec => []DeletedIsCleanedUp
<1>1. Inv => DeletedIsCleanedUp
      BY DEF Inv, OwnerInv, Subscribed, DeletedIsCleanedUp
<1> QED BY <1>1, InvAlways, PTL

(* No queue is forgotten but those of a createQueue that failed, and those *)
(* a second Init replaced; the panic of DeleteQueue strands none either.   *)
THEOREM QueuesKnown == Spec => []NoQueueForgotten
<1>1. ASSUME Inv, owner \in {"idle", "ready", "deleted"}
      PROVE  existing \subseteq {sqsQueue} \cup abandoned
      BY <1>1 DEF Inv, OwnerInv, Known
<1>2. ASSUME Inv, owner = "panicked"
      PROVE  ~initialized /\ subscribed = {} /\ existing \subseteq abandoned
  <2>1. sqsQueue = 0 /\ 0 \notin existing
        BY <1>2 DEF Inv, OwnerInv, OwnerTyped, Known, Queues
  <2> QED BY <1>2, <2>1 DEF Inv, OwnerInv, Known
<1>3. Inv => NoQueueForgotten
      BY <1>1, <1>2 DEF NoQueueForgotten
<1> QED BY <1>3, InvAlways, PTL

-----------------------------------------------------------------------------
(* The refinement mapping: where EventDelivery has each message.           *)
Place(where) == CASE where = "none" -> "none"
                  [] where \in Queued -> "queued"
                  [] OTHER -> where

Event == [m \in Messages |-> CASE msg[m] = "none" -> "none"
                               [] msg[m] \in Queued -> "queued"
                               [] OTHER -> msg[m]]

LEMMA SamePlaces ==
  ASSUME \A m \in Messages : Place(msg'[m]) = Place(msg[m])
  PROVE  Event' = Event
BY DEF Event, Place

(* Every step of Queue is one of EventDelivery, or none.                   *)
LEMMA StepImplements ==
  Inv /\ [Next]_vars => [Delivery!Next]_<<Event, passed>>
<1> SUFFICES ASSUME Inv, [Next]_vars
             PROVE  [Delivery!Next]_<<Event, passed>>
    OBVIOUS
<1>0. /\ msg \in [Messages -> Queued \cup {"none", "deleted", "gone"}]
      /\ \A m \in Messages : m \in passed \/ msg[m] # "deleted"
      BY DEF Inv, DeliveryInv, DeliveryTyped, DeletedIsHandled
<1> USE DEF delivery, messages
<1>1. CASE UNCHANGED <<msg, passed>>
      BY <1>1, SamePlaces
<1>2. CASE QueueGoes /\ UNCHANGED passed
  <2>1. Event' = [m \in Messages |-> IF Event[m] = "queued" THEN "gone"
                                     ELSE Event[m]]
        BY <1>2, <1>0 DEF QueueGoes, Event, Queued
  <2>2. Delivery!Close
        BY <1>2, <2>1 DEF Delivery!Close, Event
  <2> QED BY <2>2 DEF Delivery!Next
<1>3. CASE Owner
      BY <1>1, <1>2, <1>3
         DEF Owner, InitCalled, CreatesQueue, GetsAttributes, SubscribesQueue,
             DeleteCalled, Unsubscribes, DeletesQueue
<1>4. ASSUME NEW m \in Messages, Delivers(m)
      PROVE  [Delivery!Next]_<<Event, passed>>
  <2>1. msg' = [msg EXCEPT ![m] = "visible"] /\ msg[m] = "none"
        /\ passed' = passed
        BY <1>4 DEF Delivers
  <2>2. Event' = [Event EXCEPT ![m] = "queued"] /\ Event[m] = "none"
        BY <2>1, <1>0 DEF Event, Queued
  <2>3. Delivery!Enqueue(m)
        BY <2>1, <2>2 DEF Delivery!Enqueue, Event
  <2> QED BY <2>3 DEF Delivery!Next
<1>5. ASSUME NEW m \in Messages, VisibilityExpires(m)
      PROVE  [Delivery!Next]_<<Event, passed>>
  <2>1. \A n \in Messages : Place(msg'[n]) = Place(msg[n])
        BY <1>5, <1>0 DEF VisibilityExpires, Place, Queued
  <2> QED BY <1>5, <2>1, SamePlaces DEF VisibilityExpires
<1>6. ASSUME NEW p \in Pollers, NEW b \in Batches, ReceivesBatch(p, b)
      PROVE  [Delivery!Next]_<<Event, passed>>
  <2>1. \A j \in DOMAIN b : b[j] \in Messages /\ msg[b[j]] = "visible"
        BY BatchTyped
  <2>2. \A n \in Messages : Place(msg'[n]) = Place(msg[n])
        BY <1>6, <2>1, <1>0 DEF ReceivesBatch, Place, Queued
  <2> QED BY <1>6, <2>2, SamePlaces DEF ReceivesBatch
<1>7. ASSUME NEW p \in Pollers, HandlesLast(p)
      PROVE  [Delivery!Next]_<<Event, passed>>
  <2>1. Current(p) \in Messages /\ Event[Current(p)] # "none"
        BY <1>7, <1>0, CurrentIs
           DEF HandlesLast, PollAt, Inv, Event, Queued
  <2>2. Event' = Event /\ passed' = passed \cup {Current(p)}
        BY <1>7, SamePlaces DEF HandlesLast
  <2>3. Delivery!Handle(Current(p))
        BY <2>1, <2>2 DEF Delivery!Handle, Event
  <2> QED BY <2>1, <2>3 DEF Delivery!Next
<1>8. ASSUME NEW p \in Pollers, Acknowledges(p)
      PROVE  [Delivery!Next]_<<Event, passed>>
  <2>1. Current(p) \in Messages
        BY <1>8, CurrentIs DEF Acknowledges, PollAt, Inv
  <2>2. PICK m \in Messages : m = Current(p)
        BY <2>1
  <2>3. /\ passed' = passed
        /\ \/ msg' = msg \/ msg[m] \notin Queued
           \/ msg' = [msg EXCEPT ![m] = "deleted"] /\ msg[m] \in Queued
        BY <1>8, <2>2 DEF Acknowledges
  <2>4. m \in passed
        BY <1>8, <2>2, CurrentIs
           DEF Acknowledges, PollAt, Inv, DeliveryInv, Sound, Past, Current
  <2>5. CASE msg' = msg \/ msg[m] \notin Queued
    <3>1. UNCHANGED <<msg, passed>>
          BY <1>8, <2>2, <2>3, <2>5, <1>0 DEF Acknowledges
    <3> QED BY <3>1, <1>1
  <2>6. CASE msg' = [msg EXCEPT ![m] = "deleted"] /\ msg[m] \in Queued
    <3>1. Event' = [Event EXCEPT ![m] = "deleted"] /\ Event[m] = "queued"
          BY <2>6, <1>0 DEF Event, Queued
    <3>2. Delivery!Dequeue(m)
          BY <2>3, <2>4, <3>1 DEF Delivery!Dequeue, Event
    <3> QED BY <3>2 DEF Delivery!Next
  <2> QED BY <2>3, <2>5, <2>6
<1>9. ASSUME NEW p \in Pollers,
             PollStarts(p) \/ ReceiveFails(p) \/ Parses(p) \/ HandlesRecord(p)
      PROVE  UNCHANGED <<msg, passed>>
      BY <1>9 DEF PollStarts, ReceiveFails, Parses, HandlesRecord
<1> QED BY <1>1, <1>3, <1>4, <1>5, <1>6, <1>7, <1>8, <1>9
        DEF Next, GetMessage, vars

(* The Queue implements at-least-once delivery, for any number of events   *)
(* and goroutines.                                                         *)
THEOREM DeliveryImplemented == Spec => ImplementsDelivery
<1>1. Init => Delivery!Init
  <2> SUFFICES ASSUME Init PROVE Delivery!Init
      OBVIOUS
  <2>1. \A m \in Messages : msg[m] = "none"
        BY DEF Init
  <2>2. Event = [m \in Messages |-> "none"]
        BY <2>1 DEF Event, Queued
  <2> QED BY <2>2 DEF Init, Delivery!Init, Event
<1> QED BY <1>1, StepImplements, InvAlways, PTL
        DEF Spec, ImplementsDelivery, Delivery!Spec, Event

-----------------------------------------------------------------------------
(* A GetMessage takes a bounded number of steps, and none of them waits.   *)

(* The records of a message are counted from none, and no further than its *)
(* last, whatever is delivered meanwhile; a call that was begun has a      *)
(* queue.                                                                  *)
Counting(p) ==
    /\ poller[p].pc # "idle" => initialized
    /\ poller[p].pc = "receive" => poller[p].queue # 0
    /\ poller[p].pc \in {"receive", "parse"} => poller[p].done = 0
    /\ poller[p].pc = "handle" => poller[p].done <= body[Current(p)].records
Counts == \A p \in Pollers : Counting(p)

(* q.sqsQueue.Url dereferences no nil pointer (awsutil.go:204-207, 230),   *)
(* neither of the call that is under way nor of the next.                  *)
PollsHaveQueue ==
    \A p \in Pollers :
      /\ poller[p].pc # "idle" => sqsQueue # 0
      /\ poller[p].pc = "receive" => poller[p].queue # 0

(* What each step finds: an answer of SQS, be it empty, or an error of a   *)
(* queue that is gone; and the message, and the record, it is to handle.   *)
CanGoOn(p) ==
    \/ PollAt(p, "receive")
       /\ (poller[p].queue \in existing => <<>> \in Batches)
    \/ poller[p].pc \in {"parse", "ack"} /\ Current(p) \in Messages
    \/ /\ PollAt(p, "handle") /\ Current(p) \in Messages
       /\ poller[p].done <= body[Current(p)].records

(* No GetMessage that was begun is stuck in the middle of a response.      *)
NeverStuck ==
    \A p \in Pollers :
      poller[p].pc \notin {"idle", "nil", "error"} => CanGoOn(p)

(* The messages a call has still to handle, before the response one more   *)
(* than there can be; and the steps for the one at hand.                   *)
MessagesLeft(p) ==
    CASE poller[p].pc = "receive" -> MaxBatch + 1
      [] poller[p].pc \in {"parse", "handle", "ack"} ->
           Len(poller[p].batch) + 1 - poller[p].i
      [] OTHER -> 0
StepsLeft(p) ==
    CASE poller[p].pc = "parse" -> MaxRecords + 3
      [] poller[p].pc = "handle" -> MaxRecords + 2 - poller[p].done
      [] poller[p].pc = "ack" -> 1
      [] OTHER -> 0

(* Each step of a call leaves it fewer messages, or as many and fewer      *)
(* steps for the one at hand; no other step leaves it more (203-239).      *)
Fewer(p) == \/ MessagesLeft(p)' < MessagesLeft(p)
            \/ /\ MessagesLeft(p)' = MessagesLeft(p)
               /\ StepsLeft(p)' < StepsLeft(p)
RunsOut ==
    \A p \in Pollers :
      \/ PollStarts(p) \/ Fewer(p)
      \/ /\ ~GetMessage(p)
         /\ UNCHANGED <<MessagesLeft(p), StepsLeft(p)>>
StepsRunOut == [][RunsOut]_vars
StepsBounded ==
    \A p \in Pollers : /\ MessagesLeft(p) \in 0 .. MaxBatch + 1
                       /\ StepsLeft(p) \in 0 .. MaxRecords + 3

(* A call that a step does not move, of a message whose body is known.     *)
LEMMA CountingKept ==
  ASSUME Inv, NEW p \in Pollers, Counting(p),
         poller'[p] = poller[p], initialized => initialized',
         \A m \in Messages : msg[m] # "none" => body'[m] = body[m]
  PROVE  Counting(p)'
<1>1. Current(p)' = Current(p)
      BY DEF Current
<1>2. poller[p].pc = "handle" => body'[Current(p)] = body[Current(p)]
      BY CurrentIs DEF Inv
<1> QED BY <1>1, <1>2 DEF Counting

LEMMA CountsOwn ==
  ASSUME Inv, NEW p \in Pollers, Counting(p), GetMessage(p)
  PROVE  Counting(p)'
<1>1. /\ poller \in [Pollers -> Poll] /\ poller[p] \in Poll
      /\ UNCHANGED <<body, initialized>>
      BY DEF Inv, DeliveryInv, DeliveryTyped, GetMessage, PollKeeps, fields,
             PollStarts, ReceivesBatch, ReceiveFails, Parses, HandlesRecord,
             HandlesLast, Acknowledges
<1>2. CASE PollStarts(p)
  <2> DEFINE n == [NoPoll EXCEPT !.pc = "receive"]
  <2>1. /\ initialized /\ sqsQueue # 0
        /\ poller'[p] = [n EXCEPT !.queue = sqsQueue]
        BY <1>1, <1>2 DEF PollStarts, Inv, OwnerInv, Known
  <2>2. n = [pc |-> "receive", queue |-> 0, batch |-> <<>>, i |-> 1,
             done |-> 0]
        BY DEF NoPoll
  <2> HIDE DEF n
  <2>3. /\ poller'[p].pc = "receive" /\ poller'[p].queue # 0
        /\ poller'[p].done = 0
        BY <2>1, <2>2
  <2> QED BY <1>1, <2>1, <2>3 DEF Counting
<1>3. ASSUME NEW b \in Batches, ReceivesBatch(p, b) PROVE Counting(p)'
      BY <1>1, <1>3 DEF ReceivesBatch, PollAt, Counting, Poll
<1>4. CASE Parses(p)
  <2>1. /\ poller[p].done = 0 /\ initialized
        /\ poller'[p] = [poller[p] EXCEPT !.pc = poller'[p].pc]
        /\ poller'[p].pc \in {"handle", "error"}
        BY <1>1, <1>4 DEF Parses, PollAt, PollTo, Counting, Poll
  <2>2. body[Current(p)] \in Body
        BY <1>4, CurrentIs DEF Parses, PollAt, Inv
  <2>3. Current(p)' = Current(p)
        BY <1>1, <1>4 DEF Parses, PollTo, Current, Poll
  <2>4. body[Current(p)].records \in Nat
        BY <2>2 DEF Body
  <2> QED BY <1>1, <2>1, <2>3, <2>4 DEF Counting, Poll
<1>5. CASE HandlesRecord(p)
  <2>1. Current(p)' = Current(p)
        BY <1>1, <1>5 DEF HandlesRecord, PollTo, Current, Poll
  <2>2. body[Current(p)].records \in Nat /\ poller[p].done \in Nat
        BY <1>1, <1>5, CurrentIs DEF HandlesRecord, PollAt, Inv, Body, Poll
  <2> QED BY <1>1, <1>5, <2>1, <2>2
          DEF HandlesRecord, PollAt, PollTo, Counting, Poll
<1>6. CASE HandlesLast(p)
      BY <1>1, <1>6 DEF HandlesLast, PollAt, PollTo, Counting, Poll
<1>7. CASE Acknowledges(p)
      BY <1>1, <1>7 DEF Acknowledges, PollAt, PollTo, Counting, Poll
<1>8. CASE ReceiveFails(p)
      BY <1>1, <1>8 DEF ReceiveFails, PollAt, PollTo, Counting, Poll
<1> QED BY <1>2, <1>3, <1>4, <1>5, <1>6, <1>7, <1>8 DEF GetMessage

LEMMA OneMoves ==
  ASSUME Inv, NEW p \in Pollers, NEW q \in Pollers, q # p, GetMessage(p)
  PROVE  poller'[q] = poller[q]
BY DEF Inv, DeliveryInv, DeliveryTyped, GetMessage, PollTo, PollStarts,
       ReceivesBatch, ReceiveFails, Parses, HandlesRecord, HandlesLast,
       Acknowledges

(* No step of the owner, of the topic or of SQS moves a call.              *)
LEMMA OthersMoveNone ==
  ASSUME Inv, \/ Owner
              \/ \E m \in Messages : Delivers(m) \/ VisibilityExpires(m)
              \/ UNCHANGED vars
  PROVE  /\ UNCHANGED poller /\ (initialized => initialized')
         /\ \A m \in Messages : msg[m] # "none" => body'[m] = body[m]
<1>1. /\ initialized \in BOOLEAN /\ body \in [Messages -> Body]
      BY DEF Inv, OwnerInv, OwnerTyped, DeliveryInv, DeliveryTyped
<1>2. CASE Owner
  <2>1. UNCHANGED <<poller, body>>
        BY <1>2 DEF Owner, InitCalled, CreatesQueue, GetsAttributes,
           SubscribesQueue, DeleteCalled, Unsubscribes, DeletesQueue, delivery,
           messages
  <2>2. initialized => initialized'
        BY <1>2 DEF Owner, InitCalled, CreatesQueue, GetsAttributes,
           SubscribesQueue, DeleteCalled, Unsubscribes, DeletesQueue, fields
  <2> QED BY <2>1, <2>2
<1>3. ASSUME NEW m \in Messages, Delivers(m)
      PROVE  /\ UNCHANGED <<poller, initialized>>
             /\ \A n \in Messages : msg[n] # "none" => body'[n] = body[n]
      BY <1>1, <1>3 DEF Delivers, fields
<1>4. ASSUME NEW m \in Messages, VisibilityExpires(m)
      PROVE  UNCHANGED <<poller, initialized, body>>
      BY <1>4 DEF VisibilityExpires, fields
<1>5. CASE UNCHANGED vars
      BY <1>5 DEF vars, delivery, messages, fields
<1> QED BY <1>2, <1>3, <1>4, <1>5

LEMMA CountsAlways == Spec => []Counts
<1>1. Init => Counts
      BY DEF Init, Counts, Counting, NoPoll
<1>2. Inv /\ Counts /\ [Next]_vars => Counts'
  <2> SUFFICES ASSUME Inv, Counts, [Next]_vars, NEW q \in Pollers
               PROVE  Counting(q)'
      BY DEF Counts
  <2>1. Counting(q)
        BY DEF Counts
  <2>2. ASSUME NEW p \in Pollers, GetMessage(p) PROVE Counting(q)'
    <3>1. CASE q = p
          BY <2>1, <2>2, <3>1, CountsOwn
    <3>2. CASE q # p
      <4>1. UNCHANGED <<initialized, body>>
            BY <2>2 DEF GetMessage, PollKeeps, fields, PollStarts,
               ReceivesBatch, ReceiveFails, Parses, HandlesRecord, HandlesLast,
               Acknowledges
      <4> QED BY <2>1, <2>2, <3>2, <4>1, OneMoves, CountingKept
    <3> QED BY <3>1, <3>2
  <2>3. CASE \/ Owner
             \/ \E m \in Messages : Delivers(m) \/ VisibilityExpires(m)
             \/ UNCHANGED vars
        BY <2>1, <2>3, OthersMoveNone, CountingKept
  <2> QED BY <2>2, <2>3 DEF Next
<1> QED BY <1>1, <1>2, InvAlways, PTL DEF Spec

THEOREM QueueIsThere == Spec => []PollsHaveQueue
<1>1. Inv /\ Counts => PollsHaveQueue
      BY DEF Inv, OwnerInv, Known, Counts, Counting, PollsHaveQueue
<1> QED BY <1>1, InvAlways, CountsAlways, PTL

THEOREM GetMessageGoesOn == Spec => []NeverStuck
<1>1. <<>> \in Batches
  <2>1. <<>> \in [1 .. 0 -> {m \in Messages : msg[m] = "visible"}]
        OBVIOUS
  <2> QED BY <2>1, QueueAssumption DEF Batches
<1>2. ASSUME Inv, Counts, NEW p \in Pollers,
             poller[p].pc \notin {"idle", "nil", "error"}
      PROVE  CanGoOn(p)
  <2>1. poller[p].pc \in {"receive", "parse", "handle", "ack"}
        BY <1>2 DEF Inv, DeliveryInv, DeliveryTyped, Poll
  <2> QED BY <1>1, <1>2, <2>1, CurrentIs
          DEF CanGoOn, PollAt, Inv, Counts, Counting
<1>3. Inv /\ Counts => NeverStuck
      BY <1>2 DEF NeverStuck
<1> QED BY <1>3, InvAlways, CountsAlways, PTL

-----------------------------------------------------------------------------
LEMMA Bounded == Inv => StepsBounded
<1> SUFFICES ASSUME Inv, NEW p \in Pollers
             PROVE  /\ MessagesLeft(p) \in 0 .. MaxBatch + 1
                    /\ StepsLeft(p) \in 0 .. MaxRecords + 3
    BY DEF StepsBounded
<1> USE QueueAssumption
<1>1. /\ poller[p].pc \in {"idle", "receive", "parse", "handle", "ack", "nil",
                           "error"}
      /\ poller[p].done \in 0 .. MaxRecords
      BY DEF Inv, DeliveryInv, DeliveryTyped, Poll
<1>2. StepsLeft(p) \in 0 .. MaxRecords + 3
      BY <1>1 DEF StepsLeft
<1>3. CASE poller[p].pc \in {"parse", "handle", "ack"}
  <2>1. /\ poller[p].i \in 1 .. Len(poller[p].batch)
        /\ Len(poller[p].batch) \in Nat /\ Len(poller[p].batch) <= MaxBatch
    <3>1. /\ poller[p].i \in DOMAIN poller[p].batch
          /\ DOMAIN poller[p].batch = 1 .. Len(poller[p].batch)
          /\ Len(poller[p].batch) \in Nat
          /\ Len(poller[p].batch) <= MaxBatch
          BY <1>3, CurrentIs DEF Inv
    <3> QED BY <3>1
  <2>2. MessagesLeft(p) \in 0 .. MaxBatch + 1
        BY <1>3, <2>1 DEF MessagesLeft
  <2> QED BY <1>2, <2>2
<1>4. CASE poller[p].pc \notin {"parse", "handle", "ack"}
      BY <1>1, <1>2, <1>4 DEF MessagesLeft
<1> QED BY <1>3, <1>4

LEMMA OwnFewer ==
  ASSUME Inv, NEW p \in Pollers, GetMessage(p)
  PROVE  PollStarts(p) \/ Fewer(p)
<1> USE QueueAssumption
<1>1. /\ poller \in [Pollers -> Poll] /\ poller[p] \in Poll
      /\ poller[p].done \in 0 .. MaxRecords
      BY DEF Inv, DeliveryInv, DeliveryTyped, Poll
<1>2. poller[p].pc \in {"parse", "handle", "ack"} =>
        /\ poller[p].i \in 1 .. Len(poller[p].batch)
        /\ Len(poller[p].batch) \in Nat
  <2> SUFFICES ASSUME poller[p].pc \in {"parse", "handle", "ack"}
               PROVE  /\ poller[p].i \in 1 .. Len(poller[p].batch)
                      /\ Len(poller[p].batch) \in Nat
      OBVIOUS
  <2>1. /\ poller[p].i \in DOMAIN poller[p].batch
        /\ DOMAIN poller[p].batch = 1 .. Len(poller[p].batch)
        /\ Len(poller[p].batch) \in Nat
        BY CurrentIs DEF Inv
  <2> QED BY <2>1
<1>3. ASSUME NEW b \in Batches, ReceivesBatch(p, b) PROVE Fewer(p)
  <2>1. /\ poller[p].pc = "receive" /\ poller[p].i = 1
        BY <1>3 DEF ReceivesBatch, PollAt, Inv, DeliveryInv, Sound
  <2>2. /\ poller'[p].pc \in {"nil", "parse"} /\ poller'[p].i = 1
        /\ poller'[p].batch = b
        BY <1>1, <1>3, <2>1 DEF ReceivesBatch, Poll
  <2>3. Len(b) \in Nat /\ Len(b) <= MaxBatch
        BY BatchTyped
  <2>4. MessagesLeft(p) = MaxBatch + 1
        BY <2>1 DEF MessagesLeft
  <2>5. MessagesLeft(p)' \in {0, Len(b)}
        BY <2>2, <2>3 DEF MessagesLeft
  <2> QED BY <2>3, <2>4, <2>5 DEF Fewer
<1>4. CASE Parses(p)
  <2>1. /\ poller[p].pc = "parse"
        /\ poller'[p].pc \in {"handle", "error"}
        /\ poller'[p].i = poller[p].i /\ poller'[p].batch = poller[p].batch
        /\ poller'[p].done = poller[p].done
        BY <1>1, <1>4 DEF Parses, PollAt, PollTo, Poll
  <2>2. CASE poller'[p].pc = "handle"
    <3>1. MessagesLeft(p)' = MessagesLeft(p)
          BY <2>1, <2>2 DEF MessagesLeft
    <3>2. StepsLeft(p)' < StepsLeft(p)
          BY <1>1, <2>1, <2>2 DEF StepsLeft
    <3> QED BY <3>1, <3>2 DEF Fewer
  <2>3. CASE poller'[p].pc = "error"
    <3>1. MessagesLeft(p)' < MessagesLeft(p)
          BY <1>2, <2>1, <2>3 DEF MessagesLeft
    <3> QED BY <3>1 DEF Fewer
  <2> QED BY <2>1, <2>2, <2>3
<1>5. CASE HandlesRecord(p)
  <2>1. /\ poller[p].pc = "handle"
        /\ \/ /\ poller'[p].pc = "handle"
              /\ poller'[p].done = poller[p].done + 1
           \/ poller'[p].pc = "error"
        /\ poller'[p].i = poller[p].i /\ poller'[p].batch = poller[p].batch
        BY <1>1, <1>5 DEF HandlesRecord, PollAt, PollTo, Poll
  <2>2. CASE poller'[p].pc = "handle"
    <3>1. MessagesLeft(p)' = MessagesLeft(p)
          BY <2>1, <2>2 DEF MessagesLeft
    <3>2. StepsLeft(p)' < StepsLeft(p)
          BY <1>1, <2>1, <2>2 DEF StepsLeft
    <3> QED BY <3>1, <3>2 DEF Fewer
  <2>3. CASE poller'[p].pc = "error"
    <3>1. MessagesLeft(p)' < MessagesLeft(p)
          BY <1>2, <2>1, <2>3 DEF MessagesLeft
    <3> QED BY <3>1 DEF Fewer
  <2> QED BY <2>1, <2>2, <2>3
<1>6. CASE HandlesLast(p)
  <2>1. /\ poller[p].pc = "handle" /\ poller'[p].pc = "ack"
        /\ poller'[p].i = poller[p].i /\ poller'[p].batch = poller[p].batch
        BY <1>1, <1>6 DEF HandlesLast, PollAt, PollTo, Poll
  <2>2. MessagesLeft(p)' = MessagesLeft(p)
        BY <2>1 DEF MessagesLeft
  <2>3. StepsLeft(p)' < StepsLeft(p)
        BY <1>1, <2>1 DEF StepsLeft
  <2> QED BY <2>2, <2>3 DEF Fewer
<1>7. CASE Acknowledges(p)
  <2>1. /\ poller[p].pc = "ack"
        /\ \/ poller'[p].pc \in {"nil", "error"}
           \/ /\ poller'[p].pc = "parse" /\ poller'[p].i = poller[p].i + 1
              /\ poller'[p].batch = poller[p].batch
        BY <1>1, <1>7 DEF Acknowledges, PollAt, PollTo, Poll
  <2>2. /\ poller[p].i \in Nat /\ Len(poller[p].batch) \in Nat
        /\ poller[p].i <= Len(poller[p].batch)
        BY <1>2, <2>1
  <2>3. MessagesLeft(p) = Len(poller[p].batch) + 1 - poller[p].i
        BY <2>1 DEF MessagesLeft
  <2>4. CASE poller'[p].pc \in {"nil", "error"}
    <3>1. MessagesLeft(p)' = 0
          BY <2>4 DEF MessagesLeft
    <3> QED BY <2>2, <2>3, <3>1 DEF Fewer
  <2>5. CASE poller'[p].pc = "parse"
    <3>1. /\ poller'[p].i = poller[p].i + 1
          /\ poller'[p].batch = poller[p].batch
          BY <2>1, <2>5
    <3>2. MessagesLeft(p)' = Len(poller'[p].batch) + 1 - poller'[p].i
          BY <2>5 DEF MessagesLeft
    <3>3. MessagesLeft(p)' = Len(poller[p].batch) + 1 - (poller[p].i + 1)
          BY <3>1, <3>2
    <3> QED BY <2>2, <2>3, <3>3 DEF Fewer
  <2> QED BY <2>1, <2>4, <2>5
<1>8. CASE ReceiveFails(p)
  <2>1. poller[p].pc = "receive" /\ poller'[p].pc = "error"
        BY <1>1, <1>8 DEF ReceiveFails, PollAt, PollTo, Poll
  <2> QED BY <2>1 DEF Fewer, MessagesLeft
<1> QED BY <1>3, <1>4, <1>5, <1>6, <1>7, <1>8 DEF GetMessage

THEOREM GetMessageRunsOut == Spec => []StepsBounded /\ StepsRunOut
<1>1. ASSUME Inv, Next
      PROVE  RunsOut
  <2> SUFFICES ASSUME NEW q \in Pollers
               PROVE  \/ PollStarts(q) \/ Fewer(q)
                      \/ /\ ~GetMessage(q)
                         /\ UNCHANGED <<MessagesLeft(q), StepsLeft(q)>>
      BY DEF RunsOut
  <2>1. CASE GetMessage(q)
        BY <1>1, <2>1, OwnFewer
  <2>2. CASE ~GetMessage(q)
    <3>1. poller'[q] = poller[q]
          BY <1>1, <2>2, OneMoves, OthersMoveNone DEF Next
    <3> QED BY <2>2, <3>1 DEF MessagesLeft, StepsLeft
  <2> QED BY <2>1, <2>2
<1>2. Inv /\ [Next]_vars => [RunsOut]_vars
      BY <1>1
<1> QED BY <1>2, Bounded, InvAlways, PTL DEF Spec, StepsRunOut

-----------------------------------------------------------------------------
(* An event in the queue leaves it handled, or with the queue, which is    *)
(* deleted or replaced by another Init: no failure, no second delivery and *)
(* no other goroutine loses it (awsutil.go:85-98, 166-182, 200-239).       *)
EventStays(m) ==
    msg[m] \in Queued =>
      \/ msg'[m] \in Queued
      \/ msg'[m] = "deleted" /\ m \in passed
      \/ /\ msg'[m] = "gone"
         /\ sqsQueue \notin existing' \/ sqsQueue' # sqsQueue
EventsStay == [][\A m \in Messages : EventStays(m)]_vars

THEOREM NoEventLost == Spec => EventsStay
<1>1. ASSUME Inv, Next, NEW m \in Messages
      PROVE  EventStays(m)
  <2>0. msg \in [Messages -> Queued \cup {"none", "deleted", "gone"}]
        BY <1>1 DEF Inv, DeliveryInv, DeliveryTyped
  <2>1. CASE UNCHANGED msg
        BY <2>1 DEF EventStays
  <2>2. CASE GetsAttributes
    <3>1. sqsQueue < created /\ created \in Nat /\ sqsQueue \in Nat
          BY <1>1, <2>2, QueueAssumption
             DEF GetsAttributes, Inv, OwnerInv, OwnerTyped, Numbered
    <3>2. CASE sqsQueue' = created /\ QueueGoes
          BY <3>1, <3>2 DEF QueueGoes, EventStays
    <3> QED BY <2>1, <2>2, <3>2 DEF GetsAttributes
  <2>3. CASE DeletesQueue
        BY <2>1, <2>3 DEF DeletesQueue, QueueGoes, EventStays, fields
  <2>4. CASE Owner
        BY <2>1, <2>2, <2>3, <2>4 DEF Owner, InitCalled, CreatesQueue,
           SubscribesQueue, DeleteCalled, Unsubscribes, delivery, messages
  <2>5. ASSUME NEW p \in Pollers, GetMessage(p), ~UNCHANGED msg
        PROVE  EventStays(m)
    <3>1. CASE Acknowledges(p)
      <4>1. Current(p) \in Messages /\ Current(p) \in passed
            BY <1>1, <3>1, CurrentIs DEF Acknowledges, PollAt, Inv,
               DeliveryInv, Sound, Past, Current
      <4>2. m # Current(p) => msg'[m] = msg[m]
            BY <2>0, <3>1 DEF Acknowledges
      <4>3. m = Current(p) => msg'[m] \in {msg[m], "deleted"}
            BY <2>0, <3>1 DEF Acknowledges
      <4> QED BY <4>1, <4>2, <4>3 DEF EventStays
    <3>2. ASSUME NEW b \in Batches, ReceivesBatch(p, b)
          PROVE  EventStays(m)
          BY <2>0, <3>2 DEF ReceivesBatch, EventStays, Queued
    <3> QED BY <2>5, <3>1, <3>2 DEF GetMessage, PollStarts, ReceiveFails,
               Parses, HandlesRecord, HandlesLast
  <2>6. ASSUME NEW n \in Messages, Delivers(n) \/ VisibilityExpires(n)
        PROVE  EventStays(m)
        BY <2>0, <2>6 DEF Delivers, VisibilityExpires, EventStays, Queued
  <2> QED BY <1>1, <2>1, <2>4, <2>5, <2>6 DEF Next
<1>2. Inv /\ [Next]_vars => [\A m \in Messages : EventStays(m)]_vars
      BY <1>1
<1> QED BY <1>2, InvAlways, PTL DEF Spec, EventsStay
=============================================================================
