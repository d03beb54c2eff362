--------------------------- MODULE EventDelivery ---------------------------
(***************************************************************************)
(* At-least-once delivery, which is what a Queue of awsutil promises: an   *)
(* event is queued once, handled any number of times while it is known,    *)
(* and taken off the queue once handled, unless the queue goes away.       *)
(***************************************************************************)
CONSTANT Messages    \* the events

VARIABLES
    event,    \* where each event is
    handled   \* the events handled to the end at least once

Init == event = [m \in Messages |-> "none"] /\ handled = {}

Enqueue(m) == /\ event[m] = "none"
              /\ event' = [event EXCEPT ![m] = "queued"]
              /\ UNCHANGED handled

Handle(m) == /\ event[m] # "none"
             /\ handled' = handled \cup {m}
             /\ UNCHANGED event

Dequeue(m) == /\ event[m] = "queued"
              /\ m \in handled
              /\ event' = [event EXCEPT ![m] = "deleted"]
              /\ UNCHANGED handled

(* The queue is deleted with the events in it.                             *)
Close == /\ event' = [m \in Messages |->
                        IF event[m] = "queued" THEN "gone" ELSE event[m]]
         /\ UNCHANGED handled

Next == Close \/ \E m \in Messages : Enqueue(m) \/ Handle(m) \/ Dequeue(m)

Spec == Init /\ [][Next]_<<event, handled>>
=============================================================================
