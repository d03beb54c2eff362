------------------------------ MODULE MCQueue ------------------------------
(* Queue on small instances: events are interchangeable, and so are the    *)
(* goroutines; the invariants name none of them.                           *)
EXTENDS Queue, TLC

Interchangeable == Permutations(Messages) \cup Permutations(Pollers)
=============================================================================
