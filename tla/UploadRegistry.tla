--------------------------- MODULE UploadRegistry ---------------------------
(***************************************************************************)
(* What the handlers of server/handler.go promise an uploader, with no     *)
(* processes, files or failures in it: each upload is published once and   *)
(* withdrawn at most once, by someone who keeps its metainfo or its token; *)
(* and what is kept of an upload is given up only once it is withdrawn.    *)
(***************************************************************************)
CONSTANT Prefixes    \* the uploads

VARIABLES
    remote,   \* what the service holds of each upload
    kept      \* what the uploader keeps of each upload

Keepsake == {"metainfo", "token", "data"}
Credential == {"metainfo", "token"}

Init == /\ remote = [p \in Prefixes |-> "none"]
        /\ kept = [p \in Prefixes |-> {}]

Publish(p) == /\ remote[p] = "none"
              /\ remote' = [remote EXCEPT ![p] = "live"]
              /\ UNCHANGED kept

Keep(p, k) == /\ remote[p] # "none"
              /\ kept' = [kept EXCEPT ![p] = @ \cup {k}]
              /\ UNCHANGED remote

Withdraw(p) == /\ remote[p] = "live"
               /\ kept[p] \cap Credential # {}
               /\ remote' = [remote EXCEPT ![p] = "deleted"]
               /\ UNCHANGED kept

Forget(p, k) == /\ remote[p] = "deleted"
                /\ kept' = [kept EXCEPT ![p] = @ \ {k}]
                /\ UNCHANGED remote

Next == \E p \in Prefixes :
          \/ Publish(p)
          \/ Withdraw(p)
          \/ \E k \in Keepsake : Keep(p, k) \/ Forget(p, k)

Spec == Init /\ [][Next]_<<remote, kept>>
=============================================================================
