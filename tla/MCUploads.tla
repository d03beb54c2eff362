----------------------------- MODULE MCUploads -----------------------------
(* Uploads on small instances: uploads are interchangeable, and so are the *)
(* requests of one kind; the invariants name none of them.                 *)
EXTENDS Uploads, TLC

Interchangeable == UNION {Permutations(Prefixes), Permutations(Deleters),
                          Permutations(Viewers), Permutations(Listers)}
=============================================================================
