--------------------------- MODULE FirstResponse ---------------------------
(***************************************************************************)
(* What doFirst promises (handler.go:742-743): "Returns the first response *)
(* for which the filter returns true. Otherwise a result is selected at    *)
(* random." The requests answer in some order; what is returned is the     *)
(* first good answer or, when all have answered and none is good, any.     *)
(***************************************************************************)
EXTENDS Naturals, Sequences

CONSTANT N    \* how many urls are asked

Outcome == {"good", "bad", "error"}
Answer == [url : 1 .. N, outcome : Outcome]

VARIABLES
    answers,  \* the answers so far, in order of arrival
    ret       \* the url whose result was returned, 0 before

Good(i) == answers[i].outcome = "good"

Init == answers = <<>> /\ ret = 0

Arrive == \E a \in Answer :
            /\ \A i \in DOMAIN answers : answers[i].url # a.url
            /\ answers' = Append(answers, a)
            /\ UNCHANGED ret

ReturnFirst == \E i \in DOMAIN answers :
                 /\ Good(i)
                 /\ \A j \in 1 .. i - 1 : ~Good(j)
                 /\ ret' = answers[i].url

ReturnAny == /\ Len(answers) = N
             /\ \A i \in DOMAIN answers : ~Good(i)
             /\ \E i \in DOMAIN answers : ret' = answers[i].url

Return == /\ ret = 0
          /\ ReturnFirst \/ ReturnAny
          /\ UNCHANGED answers

Spec == Init /\ [][Arrive \/ Return]_<<answers, ret>>
=============================================================================
