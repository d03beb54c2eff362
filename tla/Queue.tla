------------------------------- MODULE Queue -------------------------------
(***************************************************************************)
(* The Queue of awsutil/awsutil.go: an owner that calls Init and           *)
(* DeleteQueue, goroutines that call GetMessage over and over, and what    *)
(* AWS holds for them: SQS queues, their subscriptions to the SNS topic    *)
(* and the messages about S3 events.                                       *)
(*                                                                         *)
(* The owner calls Init on a Queue that is new, whose Init failed, or that *)
(* was deleted, and GetMessage is called once Init has returned nil. An    *)
(* AWS call may take effect and its answer be lost all the same. SQS       *)
(* delivers at least once: a message that was received and not deleted     *)
(* becomes visible again whenever its visibility timeout passes. What a    *)
(* queue holds when another Init replaces it is taken to be out of reach,  *)
(* also for a ReceiveMessage under way: SQS answers that one with nothing. *)
(***************************************************************************)
EXTENDS Naturals, Sequences

CONSTANTS
    Messages,        \* the S3 event messages
    Pollers,         \* goroutines that call GetMessage
    Nobody,          \* no poller
    AllowMalformed,  \* whether a body may fail to parse
    MaxQueues,       \* bound: calls of createQueue
    MaxBatch,        \* bound: messages in one response
    MaxRecords,      \* bound: records in one message
    MaxFaults        \* bound: calls and handlers that fail

ASSUME QueueAssumption ==
    /\ Nobody \notin Pollers
    /\ AllowMalformed \in BOOLEAN
    /\ MaxQueues \in Nat /\ MaxBatch \in Nat
    /\ MaxRecords \in Nat /\ MaxFaults \in Nat

VARIABLES
    owner,            \* where Init or DeleteQueue stands, or how it ended
    sqsQueue,         \* the fields of Queue: 0 is nil, or ""
    subscriptionArn,
    initialized,
    created,          \* how many queues were asked for; each has a fresh name
    existing,         \* the queues SQS has
    subscribed,       \* the queues the topic delivers to
    abandoned,        \* history: queues whose createQueue failed, or that
                      \* a repeated Init replaced
    unconfirmed,      \* history: queues whose Subscribe failed
    msg,              \* where each message is
    body,             \* what it contains
    holder,           \* who received it last
    poller,           \* where each GetMessage stands
    passed,           \* history: messages handled to the end without an error
    faults            \* failed calls so far

fields == <<sqsQueue, subscriptionArn, initialized>>
aws == <<created, existing, subscribed>>
failed == <<abandoned, unconfirmed>>
messages == <<msg, body, holder>>
delivery == <<messages, poller, passed>>
vars == <<owner, fields, aws, failed, delivery, faults>>

-----------------------------------------------------------------------------
Queues == 1 .. MaxQueues

(* A received message is "inflight" until its visibility timeout passes.   *)
Queued == {"visible", "inflight"}

(* records = 0: a message without S3 records, such as s3:TestEvent.        *)
Body == [parses : BOOLEAN, records : 0 .. MaxRecords]

Poll == [pc : {"idle", "receive", "parse", "handle", "ack", "nil", "error"},
         queue : 0 .. MaxQueues,  \* the queue ReceiveMessage names
         batch : Seq(Messages),   \* response.Messages
         i : Nat,                 \* the message at hand
         done : 0 .. MaxRecords]  \* how many of its records are handled

NoPoll == [pc |-> "idle", queue |-> 0, batch |-> <<>>, i |-> 1, done |-> 0]

(* The types of the variables.                                             *)
TypeOK ==
    /\ owner \in {"idle", "create", "attributes", "subscribe", "ready",
                  "unsubscribe", "delete", "deleteAnyway", "deleted",
                  "deleteFailed", "panicked"}
    /\ sqsQueue \in 0 .. MaxQueues
    /\ subscriptionArn \in 0 .. MaxQueues
    /\ initialized \in BOOLEAN
    /\ created \in 0 .. MaxQueues
    /\ existing \in SUBSET Queues
    /\ subscribed \in SUBSET Queues
    /\ abandoned \in SUBSET Queues
    /\ unconfirmed \in SUBSET Queues
    /\ msg \in [Messages -> Queued \cup {"none", "deleted", "gone"}]
    /\ body \in [Messages -> Body]
    /\ holder \in [Messages -> Pollers \cup {Nobody}]
    /\ poller \in [Pollers -> Poll]
    /\ \A p \in Pollers : Len(poller[p].batch) <= MaxBatch
    /\ passed \in SUBSET Messages
    /\ faults \in 0 .. MaxFaults

Init ==
    /\ owner = "idle"
    /\ sqsQueue = 0 /\ subscriptionArn = 0 /\ initialized = FALSE
    /\ created = 0 /\ existing = {} /\ subscribed = {}
    /\ abandoned = {} /\ unconfirmed = {}
    /\ msg = [m \in Messages |-> "none"]
    /\ body = [m \in Messages |-> [parses |-> TRUE, records |-> 0]]
    /\ holder = [m \in Messages |-> Nobody]
    /\ poller = [p \in Pollers |-> NoPoll]
    /\ passed = {}
    /\ faults = 0

Works == UNCHANGED faults
Fails == faults < MaxFaults /\ faults' = faults + 1

-----------------------------------------------------------------------------
(* Init.                                                                   *)

InitCalled ==
    /\ \/ owner \in {"idle", "deleted"}
       \/ owner = "ready" /\ sqsQueue \in unconfirmed
    /\ created < MaxQueues
    /\ owner' = "create"
    /\ created' = created + 1
    /\ UNCHANGED <<fields, existing, subscribed, failed, delivery, faults>>

(* CreateQueue fails, with or without the queue.                           *)
CreatesQueue ==
    /\ owner = "create"
    /\ \/ /\ Works
          /\ existing' = existing \cup {created}
          /\ owner' = "attributes"
          /\ UNCHANGED abandoned
       \/ /\ Fails
          /\ existing' \in {existing, existing \cup {created}}
          /\ abandoned' = abandoned \cup {created}
          /\ owner' = "idle"
    /\ UNCHANGED <<fields, created, subscribed, unconfirmed, delivery>>

(* The messages of a queue that is deleted, or replaced, are out of reach. *)
QueueGoes == msg' = [m \in Messages |-> IF msg[m] \in Queued THEN "gone"
                                        ELSE msg[m]]

(* GetQueueAttributes; q.sqsQueue is set before the subscription, and what *)
(* it held before is replaced: a queue whose Subscribe failed, if any.     *)
GetsAttributes ==
    /\ owner = "attributes"
    /\ \/ /\ Works
          /\ sqsQueue' = created
          /\ abandoned' = abandoned \cup ({sqsQueue} \cap existing)
          /\ QueueGoes
          /\ owner' = "subscribe"
       \/ /\ Fails
          /\ abandoned' = abandoned \cup {created}
          /\ owner' = "idle"
          /\ UNCHANGED <<sqsQueue, msg>>
    /\ UNCHANGED <<subscriptionArn, initialized, aws, unconfirmed, body,
                   holder, poller, passed>>

(* Mutants of SubscribesQueue: the subscription's ARN is not kept; neither *)
(* is the queue when the subscription fails.                               *)
SubscribesForgetfully ==
    /\ owner = "subscribe"
    /\ \/ /\ Works
          /\ subscribed' = subscribed \cup {sqsQueue}
          /\ initialized' = TRUE
          /\ UNCHANGED unconfirmed
       \/ /\ Fails
          /\ subscribed' \in {subscribed, subscribed \cup {sqsQueue}}
          /\ unconfirmed' = unconfirmed \cup {sqsQueue}
          /\ UNCHANGED initialized
    /\ owner' = "ready"
    /\ UNCHANGED <<sqsQueue, subscriptionArn, created, existing, abandoned,
                   delivery>>

SubscribesOrDropsQueue ==
    /\ owner = "subscribe"
    /\ Fails
    /\ unconfirmed' = unconfirmed \cup {sqsQueue}
    /\ sqsQueue' = 0
    /\ owner' = "ready"
    /\ UNCHANGED <<subscriptionArn, initialized, aws, abandoned, delivery>>

(* Subscribe; Init returns. A caller whose Init failed here deletes the    *)
(* queue or calls Init again.                                              *)
SubscribesQueue ==
    /\ owner = "subscribe"
    /\ \/ /\ Works
          /\ subscribed' = subscribed \cup {sqsQueue}
          /\ subscriptionArn' = sqsQueue
          /\ initialized' = TRUE
          /\ UNCHANGED unconfirmed
       \/ /\ Fails
          /\ subscribed' \in {subscribed, subscribed \cup {sqsQueue}}
          /\ unconfirmed' = unconfirmed \cup {sqsQueue}
          /\ UNCHANGED <<subscriptionArn, initialized>>
    /\ owner' = "ready"
    /\ UNCHANGED <<sqsQueue, created, existing, abandoned, delivery>>

-----------------------------------------------------------------------------
(* DeleteQueue: the queue is deleted whether or not Unsubscribe failed, and *)
(* the first error is returned. With sqsQueue nil, after a createQueue that *)
(* failed, Unsubscribe is called and then nil dereferenced.                *)
DeleteCalled ==
    /\ \/ owner \in {"ready", "deleteFailed"}
       \/ owner = "idle" /\ abandoned # {}
    /\ owner' = "unsubscribe"
    /\ UNCHANGED <<fields, aws, failed, delivery, faults>>

(* What AWS makes of an ARN that is not a subscription is left open.       *)
Unsubscribes ==
    /\ owner = "unsubscribe"
    /\ \/ Works /\ subscribed' = subscribed \ {subscriptionArn}
       \/ Fails /\ subscribed' \in {subscribed,
                                    subscribed \ {subscriptionArn}}
    /\ owner' = IF sqsQueue = 0 THEN "panicked"
                ELSE IF faults' = faults THEN "delete" ELSE "deleteAnyway"
    /\ UNCHANGED <<fields, created, existing, failed, delivery>>

(* Mutant of DeletesQueue: the error of Unsubscribe alone is looked at.    *)
DeletesUnchecked ==
    /\ owner \in {"delete", "deleteAnyway"}
    /\ existing' \in {existing, existing \ {sqsQueue}}
    /\ Works \/ Fails
    /\ owner' = IF owner = "delete" THEN "deleted" ELSE "deleteFailed"
    /\ IF sqsQueue \notin existing' THEN QueueGoes ELSE UNCHANGED msg
    /\ UNCHANGED <<fields, created, subscribed, failed, body, holder, poller,
                   passed>>

(* The messages of a queue go with it.                                     *)
DeletesQueue ==
    /\ owner \in {"delete", "deleteAnyway"}
    /\ existing' \in {existing, existing \ {sqsQueue}}
    /\ \/ /\ Works /\ sqsQueue \notin existing'
          /\ owner' = IF owner = "delete" THEN "deleted" ELSE "deleteFailed"
       \/ Fails /\ owner' = "deleteFailed"
    /\ IF sqsQueue \notin existing' THEN QueueGoes ELSE UNCHANGED msg
    /\ UNCHANGED <<fields, created, subscribed, failed, body, holder, poller,
                   passed>>

-----------------------------------------------------------------------------
Bodies == {b \in Body : b.parses \/ (AllowMalformed /\ b.records = 0)}

(* The topic delivers an event to the subscribed queue.                    *)
Delivers(m) ==
    /\ msg[m] = "none"
    /\ sqsQueue \in existing \cap subscribed
    /\ msg' = [msg EXCEPT ![m] = "visible"]
    /\ \E b \in Bodies : body' = [body EXCEPT ![m] = b]
    /\ UNCHANGED <<owner, fields, aws, failed, holder, poller, passed, faults>>

VisibilityExpires(m) ==
    /\ msg[m] = "inflight"
    /\ msg' = [msg EXCEPT ![m] = "visible"]
    /\ UNCHANGED <<owner, fields, aws, failed, body, holder, poller, passed,
                   faults>>

-----------------------------------------------------------------------------
(* GetMessage.                                                             *)

(* What no step of a GetMessage touches.                                   *)
PollKeeps == UNCHANGED <<owner, fields, aws, failed, body>>

(* A call on a queue fails on its own, and always when it is deleted.      *)
CallFails(q) == Fails \/ (Works /\ q \notin existing)

PollAt(p, pc) == poller[p].pc = pc
PollTo(p, pc) == poller' = [poller EXCEPT ![p].pc = pc]
Current(p) == poller[p].batch[poller[p].i]

(* A Queue that is not initialized is an error, before any call. The queue *)
(* is the one the Queue knows now; it is read anew for each DeleteMessage. *)
PollStarts(p) ==
    /\ poller[p].pc \in {"idle", "nil", "error"}
    /\ initialized
    /\ poller' = [poller EXCEPT ![p] = [NoPoll EXCEPT !.pc = "receive",
                                                 !.queue = sqsQueue]]
    /\ PollKeeps /\ UNCHANGED <<msg, holder, passed, faults>>

(* The responses SQS can give: visible messages, in any order.             *)
Batches == {b \in UNION {[1 .. n -> {m \in Messages : msg[m] = "visible"}] :
                           n \in 0 .. MaxBatch} :
             \A i, j \in DOMAIN b : b[i] = b[j] => i = j}

ReceivesBatch(p, b) ==
    /\ PollAt(p, "receive")
    /\ poller[p].queue \in existing
    /\ poller[p].queue # sqsQueue => b = <<>>
    /\ Works
    /\ LET received == {b[i] : i \in DOMAIN b} IN
       /\ msg' = [m \in Messages |->
                    IF m \in received THEN "inflight" ELSE msg[m]]
       /\ holder' = [m \in Messages |->
                       IF m \in received THEN p ELSE holder[m]]
    /\ poller' = [poller EXCEPT ![p].queue = 0, ![p].batch = b,
                    ![p].pc = IF b = <<>> THEN "nil" ELSE "parse"]
    /\ PollKeeps /\ UNCHANGED passed

ReceiveFails(p) ==
    /\ PollAt(p, "receive")
    /\ CallFails(poller[p].queue)
    /\ poller' = [poller EXCEPT ![p].queue = 0, ![p].pc = "error"]
    /\ PollKeeps /\ UNCHANGED <<msg, holder, passed>>

(* Mutant of Parses: a message that does not unmarshal is skipped.         *)
ParsesOrSkips(p) ==
    /\ PollAt(p, "parse")
    /\ \/ body[Current(p)].parses /\ PollTo(p, "handle")
       \/ /\ ~body[Current(p)].parses
          /\ poller' = [poller EXCEPT
               ![p] = IF @.i < Len(@.batch) THEN [@ EXCEPT !.i = @ + 1]
                      ELSE [@ EXCEPT !.pc = "nil"]]
    /\ PollKeeps /\ UNCHANGED <<msg, holder, passed, faults>>

(* A body or a message in it that does not unmarshal ends the call.        *)
Parses(p) ==
    /\ PollAt(p, "parse")
    /\ PollTo(p, IF body[Current(p)].parses THEN "handle" ELSE "error")
    /\ PollKeeps /\ UNCHANGED <<msg, holder, passed, faults>>

(* Mutant of HandlesRecord: the handler's error is not looked at.          *)
HandlesRegardless(p) ==
    /\ PollAt(p, "handle")
    /\ poller[p].done < body[Current(p)].records
    /\ \/ Works /\ poller' = [poller EXCEPT ![p].done = @ + 1]
       \/ Fails /\ PollTo(p, "ack")
    /\ PollKeeps /\ UNCHANGED <<msg, holder, passed>>

(* So does the handler's first error.                                      *)
HandlesRecord(p) ==
    /\ PollAt(p, "handle")
    /\ poller[p].done < body[Current(p)].records
    /\ \/ Works /\ poller' = [poller EXCEPT ![p].done = @ + 1]
       \/ Fails /\ PollTo(p, "error")
    /\ PollKeeps /\ UNCHANGED <<msg, holder, passed>>

HandlesLast(p) ==
    /\ PollAt(p, "handle")
    /\ poller[p].done = body[Current(p)].records
    /\ passed' = passed \cup {Current(p)}
    /\ PollTo(p, "ack")
    /\ PollKeeps /\ UNCHANGED <<msg, holder, faults>>

(* DeleteMessage. With the receipt of an earlier delivery SQS may accept   *)
(* the call and keep the message; with that of another queue it does not.  *)
Acknowledges(p) ==
    /\ PollAt(p, "ack")
    /\ msg' \in {msg, [msg EXCEPT ![Current(p)] =
                         IF @ \in Queued THEN "deleted" ELSE @]}
    /\ \/ /\ Works
          /\ sqsQueue \in existing /\ msg[Current(p)] # "gone"
          /\ holder[Current(p)] = p => msg'[Current(p)] \notin Queued
          /\ IF poller[p].i < Len(poller[p].batch)
             THEN poller' = [poller EXCEPT ![p].pc = "parse",
                               ![p].i = @ + 1, ![p].done = 0]
             ELSE PollTo(p, "nil")
       \/ /\ CallFails(sqsQueue) \/ (Works /\ msg[Current(p)] = "gone")
          /\ PollTo(p, "error")
    /\ PollKeeps /\ UNCHANGED <<holder, passed>>

-----------------------------------------------------------------------------
Owner == \/ InitCalled \/ CreatesQueue \/ GetsAttributes \/ SubscribesQueue
         \/ DeleteCalled \/ Unsubscribes \/ DeletesQueue

GetMessage(p) == \/ PollStarts(p) \/ ReceiveFails(p) \/ Parses(p)
                 \/ HandlesRecord(p) \/ HandlesLast(p) \/ Acknowledges(p)
                 \/ \E b \in Batches : ReceivesBatch(p, b)

Next == \/ Owner
        \/ \E p \in Pollers : GetMessage(p)
        \/ \E m \in Messages : Delivers(m) \/ VisibilityExpires(m)

(* Goroutines that call GetMessage run, handlers return, visibility        *)
(* timeouts pass, and SQS does not pass over a message for ever. Nothing   *)
(* makes the owner, the topic or AWS do anything.                          *)
Fairness ==
    /\ \A p \in Pollers : WF_vars(GetMessage(p))
    /\ \A m \in Messages :
         /\ WF_vars(VisibilityExpires(m))
         /\ SF_vars(\E p \in Pollers, b \in Batches :
                      (\E i \in DOMAIN b : b[i] = m) /\ ReceivesBatch(p, b))

Spec == Init /\ [][Next]_vars
FairSpec == Spec /\ Fairness

-----------------------------------------------------------------------------
(* "If the handler function does not return an error it will delete/       *)
(* acknowledge the mesage otherwise it will not" (awsutil.go:200): however *)
(* many goroutines poll, whatever is delivered twice and whatever fails, a *)
(* message is deleted only when some GetMessage handled all its records.   *)
DeletedIsHandled ==
    \A m \in Messages : msg[m] = "deleted" => m \in passed

(* A GetMessage that returns nil has handled every message it received, to *)
(* the last record (213-239).                                              *)
NilMeansHandled ==
    \A p \in Pollers :
      poller[p].pc = "nil" =>
        \A i \in DOMAIN poller[p].batch : poller[p].batch[i] \in passed

(* What GetMessage may rely on. When Init has returned nil the queue it    *)
(* made is subscribed, also when an earlier Init left its fields behind    *)
(* (85-98). But initialized is never taken back (97, 166-182): between the *)
(* calls of Init and of a DeleteQueue that worked, a GetMessage that gets  *)
(* past its check (202) may find the queue deleted, when SQS refuses it,   *)
(* or, only if Init returned the error of Subscribe, one that was not      *)
(* confirmed. That queue is there for DeleteQueue to delete, but its       *)
(* subscription, which may exist, has an ARN the Queue does not know: it   *)
(* holds that of an earlier queue, or none.                                *)
ReadyIsSubscribed ==
    /\ owner = "ready" /\ sqsQueue \notin unconfirmed =>
         initialized /\ subscriptionArn = sqsQueue
           /\ sqsQueue \in existing \cap subscribed
    /\ owner \in {"idle", "deleted"} /\ sqsQueue \in existing =>
         sqsQueue \in unconfirmed
    /\ owner = "ready" /\ sqsQueue \in unconfirmed =>
         sqsQueue \in existing /\ subscriptionArn # sqsQueue

(* A DeleteQueue that returns nil leaves neither the queue nor the         *)
(* subscription (166-182), unless the subscription was made by a Subscribe *)
(* that reported an error: then its ARN is not known.                      *)
DeletedIsCleanedUp ==
    owner = "deleted" =>
      /\ sqsQueue \notin existing
      /\ sqsQueue \in subscribed => sqsQueue \in unconfirmed

(* AWS holds no queue that DeleteQueue would not delete, except those of a *)
(* createQueue that failed half-way (139-155) and those a second Init      *)
(* replaced: q.sqsQueue is set before the subscription is tried, so a      *)
(* failure there leaves the queue known, to be deleted (91-96). The nil    *)
(* pointer DeleteQueue dereferences (171) is met only before any Init got  *)
(* as far as a queue: no queue but the abandoned ones, and no subscription,*)
(* is stranded by the panic.                                               *)
NoQueueForgotten ==
    /\ owner \in {"idle", "ready", "deleted", "panicked"} =>
         existing \subseteq {sqsQueue} \cup abandoned
    /\ owner = "panicked" => ~initialized /\ subscribed = {}

(* An event that reaches the queue of a Queue whose Init succeeded is      *)
(* handled, though handlers and calls fail, others do not parse and        *)
(* messages come again, unless its own body does not parse or the queue is *)
(* deleted.                                                                *)
EventsHandled ==
    \A m \in Messages :
      (initialized /\ msg[m] = "visible" /\ body[m].parses)
        ~> (m \in passed \/ msg[m] = "gone" \/ sqsQueue \notin existing)

-----------------------------------------------------------------------------
(* The queue implements at-least-once delivery.                            *)
Delivery == INSTANCE EventDelivery
              WITH handled <- passed,
                   event <- [m \in Messages |->
                               CASE msg[m] = "none" -> "none"
                                 [] msg[m] \in Queued -> "queued"
                                 [] OTHER -> msg[m]]
ImplementsDelivery == Delivery!Spec
=============================================================================
