--------------------------- MODULE UploadsProofs ---------------------------
(***************************************************************************)
(* Theorems about Uploads, for every set of uploads and requests, every    *)
(* option and every number of failures and crashes.                        *)
(*                                                                         *)
(* The inductive invariant is built in layers, each of which uses the ones *)
(* before it: what the variables can hold (Typed), how far an upload is    *)
(* when something of it exists (Staged), and what a deletion that has read *)
(* a credential, or that the service has accepted, may rely on (Backed).   *)
(***************************************************************************)
EXTENDS Uploads, TLAPS

(* A deletion at work works on an upload that was published.               *)
DeletesName ==
    \A d \in Deleters :
      del[d].pc \in DeleteBusy =>
        /\ del[d].prefix \in Prefixes
        /\ remote[del[d].prefix] # "none"

Typed == TypeOK /\ DeletesName

LEMMA InitTyped == Init => Typed
BY UploadsAssumption DEF Init, Typed, TypeOK, DeletesName, File, Torrent,
   UploadBusy, UploadDone, DeleteBusy, DeleteDone, Auth, DeleteRequest,
   NoDelete, ListRequest, NoList

LEMMA ProcessTyped == Typed /\ Process => Typed'
<1> SUFFICES ASSUME Typed, Process PROVE Typed'
    OBVIOUS
<1> USE DEF Typed, TypeOK, DeletesName
<1>1. CASE Restart
      BY <1>1 DEF Restart, Recorded, failures, files, history
<1>2. CASE StartFails
      BY <1>2 DEF StartFails, Fails, Fault, files, history
<1>3. CASE StartDone
      BY <1>3 DEF StartDone, files, failures, history
<1>4. CASE Crash
      BY <1>4 DEF Crash, files, failures, NoDelete, NoList, DeleteRequest,
         ListRequest, DeleteBusy, DeleteDone, File, Auth, UploadBusy,
         UploadDone, Torrent
<1>5. ASSUME NEW p \in Prefixes, StartAdds(p) PROVE Typed'
      BY <1>5 DEF StartAdds, Works, Swallows, Fault, failures, files, history,
         Torrent, Swallowable
<1>6. ASSUME NEW p \in Prefixes, StartConceals(p) PROVE Typed'
      BY <1>6 DEF StartConceals, Torrent, failures, files, history
<1> QED BY <1>1, <1>2, <1>3, <1>4, <1>5, <1>6 DEF Process

LEMMA UploadTyped ==
    ASSUME Typed, NEW p \in Prefixes, Upload(p)
    PROVE  Typed'
<1> USE DEF Typed, TypeOK, DeletesName, UploadKeeps, UploadAt, UploadTo,
        process, history, UploadBusy, UploadDone
<1>1. CASE UploadRequest(p)
      BY <1>1 DEF UploadRequest, files, failures
<1>2. CASE ServicePublishes(p)
      BY <1>2 DEF ServicePublishes, files, failures
<1>3. CASE UploadPutFails(p)
      BY <1>3 DEF UploadPutFails, files, failures
<1>4. CASE UploadPutReturns(p)
      BY <1>4 DEF UploadPutReturns, files, failures
<1>5. CASE UploadOpensMetainfo(p)
      BY <1>5 DEF UploadOpensMetainfo, Works, Fails, Fault, failures, File
<1>6. CASE UploadWritesMetainfo(p)
      BY <1>6 DEF UploadWritesMetainfo, Works, Fails, Fault, failures, File
<1>7. CASE UploadOpensToken(p)
      BY <1>7 DEF UploadOpensToken, Works, Swallows, Fault, failures, File,
         Swallowable
<1>8. CASE UploadWritesToken(p)
      BY <1>8 DEF UploadWritesToken, Works, Swallows, Fault, failures, File,
         Swallowable
<1>9. CASE UploadKeepsData(p)
      BY <1>9, UploadsAssumption DEF UploadKeepsData, Works, Swallows, Fails,
         Fault, failures, Swallowable
<1>10. CASE UploadAddsTorrent(p)
      BY <1>10 DEF UploadAddsTorrent, Works, Fails, Fault, failures, files,
         Torrent
<1>11. CASE UploadConceals(p)
      BY <1>11 DEF UploadConceals, failures, files, Torrent
<1> QED BY <1>1, <1>2, <1>3, <1>4, <1>5, <1>6, <1>7, <1>8, <1>9, <1>10, <1>11
        DEF Upload

LEMMA DeleteTyped ==
    ASSUME Typed, NEW d \in Deleters, Delete(d)
    PROVE  Typed'
<1> USE DEF Typed, TypeOK, DeletesName, DeleteKeeps, DeleteAt, DeleteTo,
        process, DeleteRequest, DeleteBusy, DeleteDone
<1>1. ASSUME NEW p \in Prefixes, DeleteRequested(d, p) PROVE Typed'
      BY <1>1 DEF DeleteRequested, Touch, files, failures, Auth, File
<1>2. CASE DeleteReadsToken(d)
  <2>1. PICK a \in Auth : del' = [del EXCEPT ![d].pc = "loadMetainfo",
                                            ![d].auth = a]
        BY <1>2 DEF DeleteReadsToken, Auth
  <2>2. del' \in [Deleters -> DeleteRequest]
    <3>1. del \in [Deleters -> DeleteRequest]
          OBVIOUS
    <3> HIDE DEF Typed, TypeOK, DeletesName
    <3> QED BY <2>1, <3>1
  <2>3. swallowed' = swallowed /\ faults' \in Nat
        BY <1>2 DEF DeleteReadsToken, Works, Fails, Fault, failures
  <2> QED BY <1>2, <2>1, <2>2, <2>3 DEF DeleteReadsToken, files
<1>3. CASE DeleteLoadsMetainfo(d)
      BY <1>3 DEF DeleteLoadsMetainfo, Works, Fails, Fault, failures, files
<1>4. CASE ServiceDeletes(d)
      BY <1>4 DEF ServiceDeletes, files, failures
<1>5. CASE DeleteCallFails(d)
      BY <1>5 DEF DeleteCallFails, files, failures
<1>6. CASE DeleteCallReturns(d)
      BY <1>6 DEF DeleteCallReturns, files, failures
<1>7. CASE DeleteDropsTorrent(d)
      BY <1>7 DEF DeleteDropsTorrent, files, failures, Torrent
<1>8. CASE DeleteRemovesData(d)
  <2>1. del' \in [Deleters -> DeleteRequest]
        BY <1>8 DEF DeleteRemovesData
  <2>2. data' \in [Prefixes -> BOOLEAN]
        BY <1>8 DEF DeleteRemovesData
  <2>3. swallowed' \in SUBSET (Prefixes \X Swallowable) /\ faults' \in Nat
        BY <1>8 DEF DeleteRemovesData, Works, Swallows, Fault, failures,
           Swallowable
  <2> QED BY <1>8, <2>1, <2>2, <2>3 DEF DeleteRemovesData
<1>9. CASE DeleteRemovesMetainfo(d)
  <2>1. del' \in [Deleters -> DeleteRequest]
        BY <1>9 DEF DeleteRemovesMetainfo
  <2>2. metainfo' \in [Prefixes -> File]
        BY <1>9 DEF DeleteRemovesMetainfo, File
  <2>3. swallowed' \in SUBSET (Prefixes \X Swallowable) /\ faults' \in Nat
        BY <1>9 DEF DeleteRemovesMetainfo, Works, Swallows, Fault, failures,
           Swallowable
  <2>4. list' \in [Listers -> ListRequest]
    <3>1. ASSUME NEW l \in Listers
          PROVE  [list[l] EXCEPT !.steady = @ \ {del[d].prefix}]
                   \in ListRequest
          BY DEF ListRequest
    <3>2. list' = list \/ Unsteady(del[d].prefix)
          BY <1>9 DEF DeleteRemovesMetainfo
    <3> QED BY <3>1, <3>2 DEF Unsteady
  <2> QED BY <1>9, <2>1, <2>2, <2>3, <2>4 DEF DeleteRemovesMetainfo
<1>10. CASE DeleteRemovesToken(d)
  <2>1. del' \in [Deleters -> DeleteRequest]
        BY <1>10 DEF DeleteRemovesToken
  <2>2. token' \in [Prefixes -> File]
        BY <1>10 DEF DeleteRemovesToken, File
  <2>3. swallowed' \in SUBSET (Prefixes \X Swallowable) /\ faults' \in Nat
        BY <1>10 DEF DeleteRemovesToken, Works, Swallows, Fault, failures,
           Swallowable
  <2> QED BY <1>10, <2>1, <2>2, <2>3 DEF DeleteRemovesToken
<1> QED BY <1>1, <1>2, <1>3, <1>4, <1>5, <1>6, <1>7, <1>8, <1>9, <1>10
        DEF Delete

LEMMA ViewTyped ==
    ASSUME Typed, NEW v \in Viewers, View(v)
    PROVE  Typed'
<1> USE DEF Typed, TypeOK, DeletesName, process, files, failures, Torrent
<1>1. CASE ViewEnds(v)
      BY <1>1 DEF ViewEnds, history
<1>2. ASSUME NEW p \in Prefixes, ViewStarts(v, p) PROVE Typed'
      BY <1>2 DEF ViewStarts, Touch
<1> QED BY <1>1, <1>2 DEF View

LEMMA FailuresTyped ==
    ASSUME Typed, NEW ps \in SUBSET Prefixes, NEW call \in Swallowable,
           Works \/ Swallows(ps, call)
    PROVE  swallowed' \in SUBSET (Prefixes \X Swallowable) /\ faults' \in Nat
BY DEF Typed, TypeOK, Works, Swallows, Fault, failures

LEMMA ListTyped ==
    ASSUME Typed, NEW l \in Listers, List(l)
    PROVE  Typed'
<1>0. list \in [Listers -> ListRequest]
      BY DEF Typed, TypeOK
<1>a. ASSUME ListStarts(l) PROVE list' \in [Listers -> ListRequest]
      BY <1>0, <1>a DEF ListStarts, ListRequest, Recorded
<1>b. ASSUME ListAnswers(l) PROVE list' \in [Listers -> ListRequest]
      BY <1>0, <1>b DEF ListAnswers, ListRequest
<1>c. ASSUME NEW p \in Prefixes, ListLoads(l, p)
      PROVE  list' \in [Listers -> ListRequest]
      BY <1>0, <1>c DEF ListLoads, ListRequest, Recorded
<1> USE DEF Typed, TypeOK, DeletesName, process, files, history, ListKeeps
<1>1. CASE ListStarts(l)
  <2>1. list' \in [Listers -> ListRequest]
        BY <1>1, <1>a
  <2>2. swallowed' \in SUBSET (Prefixes \X Swallowable) /\ faults' \in Nat
    <3>1. Works \/ Swallows(Recorded, "loadRecord")
          BY <1>1 DEF ListStarts
    <3>2. Recorded \in SUBSET Prefixes /\ "loadRecord" \in Swallowable
          BY DEF Recorded, Swallowable
    <3>3. Typed
          OBVIOUS
    <3> HIDE DEF Typed
    <3> QED BY <3>1, <3>2, <3>3, FailuresTyped
  <2>3. UNCHANGED <<node, pending, remote, metainfo, token, data, client,
                    upload, del, view, crashes, early, viewed>>
        BY <1>1 DEF ListStarts
  <2> HIDE DEF process, files, history, ListKeeps
  <2> QED BY <2>1, <2>2, <2>3
<1>2. CASE ListAnswers(l)
      BY <1>2, <1>b DEF ListAnswers, failures
<1>3. ASSUME NEW p \in Prefixes, ListLoads(l, p) PROVE Typed'
  <2>1. list' \in [Listers -> ListRequest]
        BY <1>3, <1>c
  <2>2. swallowed' \in SUBSET (Prefixes \X Swallowable) /\ faults' \in Nat
        BY <1>3 DEF ListLoads, Works, Swallows, Fault, failures, Swallowable
  <2>3. ListKeeps
        BY <1>3 DEF ListLoads
  <2> QED BY <2>1, <2>2, <2>3
<1> QED BY <1>1, <1>2, <1>3 DEF List

LEMMA NextTyped == Typed /\ [Next]_vars => Typed'
<1> SUFFICES ASSUME Typed, [Next]_vars PROVE Typed'
    OBVIOUS
<1>1. CASE UNCHANGED vars
      BY <1>1 DEF vars, process, files, failures, history, Typed, TypeOK,
         DeletesName
<1> QED BY <1>1, ProcessTyped, UploadTyped, DeleteTyped, ViewTyped, ListTyped
        DEF Next

(* Every step of every request, start-up and crash keeps the variables     *)
(* within their types, and a deletion never works on an upload that was    *)
(* not published (TypeOK alone is not inductive: reading the token of      *)
(* NoPrefix would give it no type).                                        *)
THEOREM TypeCorrect == Spec => []TypeOK
<1>1. Typed => TypeOK
      BY DEF Typed
<1> QED BY <1>1, InitTyped, NextTyped, PTL DEF Spec

-----------------------------------------------------------------------------
(* How far an upload is when something of it exists: nothing before the    *)
(* service has published it, no record before its turn in handleUpload,    *)
(* no request while the process is down or starting.                       *)
Staged ==
    \A p \in Prefixes :
      /\ upload[p] = "idle" => remote[p] = "none"
      /\ upload[p] \in UploadBusy \ {"put"} => remote[p] # "none"
      /\ upload[p] \in {"put", "metainfo"} => metainfo[p] = "none"
      /\ upload[p] \in {"put", "metainfo", "metainfoWrite", "token"}
           => token[p] = "none"
      /\ remote[p] = "none" =>
           metainfo[p] = "none" /\ token[p] = "none" /\ ~data[p]
      /\ data[p] => StoreUploadsLocally
      /\ node # "serving" => upload[p] \notin UploadBusy

(* What a deletion has read is still on disk as long as the service has    *)
(* the upload, and once the service has accepted it the upload is gone.    *)
Backed ==
    \A d \in Deleters :
      /\ /\ del[d].pc \in {"loadMetainfo", "call"}
         /\ del[d].auth = "whole"
         /\ remote[del[d].prefix] = "live"
         => token[del[d].prefix] = "whole"
      /\ /\ del[d].pc = "call"
         /\ del[d].mi = "whole"
         /\ remote[del[d].prefix] = "live"
         => metainfo[del[d].prefix] = "whole"
      /\ del[d].pc \in {"accepted", "drop", "removeData", "removeMetainfo",
                        "removeToken"}
           => remote[del[d].prefix] = "deleted"

(* An upload whose torrent is in the client before its own /upload put it  *)
(* there has been viewed or deleted early.                                 *)
Announced ==
    /\ UploaderConcealed
    /\ PanicNeedsEarlyRequest
    /\ \A p \in Prefixes :
         /\ upload[p] \in {"idle"} \cup (UploadBusy \ {"conceal"})
         /\ client[p] # "absent"
         => p \in early

(* The strengthening of DataHasRecord: a deletion that is not early finds  *)
(* the upload finished, an upload that is not deleted early has its        *)
(* metainfo file while it stores the rest, and a deletion that removes     *)
(* records has removed the body.                                           *)
Unhurried ==
    \A d \in Deleters : \A p \in Prefixes :
      del[d].prefix = p /\ p \notin early => upload[p] \in UploadDone

Recording ==
    StoreMetainfoFileAndTokenLocally =>
      \A p \in Prefixes :
        /\ p \notin early
        /\ upload[p] \in {"metainfoWrite", "token", "tokenWrite", "data"}
        => metainfo[p] # "none"

Removing ==
    \A d \in Deleters : \A p \in Prefixes :
      /\ del[d].prefix = p /\ p \notin early /\ ~Ignored(p, "removeData")
      /\ del[d].pc \in {"removeMetainfo", "removeToken"}
      => ~data[p]

(* The strengthening of DeletableWhenAnswered: the same of an upload that  *)
(* is past its token, and of one that is at it.                            *)
Credentialed ==
    StoreMetainfoFileAndTokenLocally =>
      \A p \in Prefixes :
        remote[p] = "live" =>
          /\ upload[p] = "metainfoWrite" => metainfo[p] # "none"
          /\ upload[p] \in {"token", "tokenWrite"} => metainfo[p] = "whole"
          /\ upload[p] = "tokenWrite" => token[p] = "torn"
          /\ /\ upload[p] \in {"data", "torrent", "conceal", "answered"}
             /\ ~Ignored(p, "writeToken")
             => \/ token[p] = "whole"
                \/ token[p] = "none" /\ metainfo[p] = "whole"

LEMMA StagedInit == Init => Staged
BY DEF Init, Staged, UploadBusy

LEMMA StagedProcess == Typed /\ Staged /\ Process => Staged'
<1> SUFFICES ASSUME Typed, Staged, Process PROVE Staged'
    OBVIOUS
<1> USE DEF Typed, TypeOK, Staged, UploadBusy, files
<1>1. CASE Restart
      BY <1>1 DEF Restart
<1>2. CASE StartFails
      BY <1>2 DEF StartFails
<1>3. CASE StartDone
      BY <1>3 DEF StartDone
<1>4. CASE Crash
      BY <1>4 DEF Crash
<1>5. ASSUME NEW p \in Prefixes, StartAdds(p) PROVE Staged'
      BY <1>5 DEF StartAdds
<1>6. ASSUME NEW p \in Prefixes, StartConceals(p) PROVE Staged'
      BY <1>6 DEF StartConceals
<1> QED BY <1>1, <1>2, <1>3, <1>4, <1>5, <1>6 DEF Process

LEMMA StagedUpload ==
    ASSUME Typed, Staged, NEW p \in Prefixes, Upload(p)
    PROVE  Staged'
<1> USE UploadsAssumption DEF Typed, TypeOK, Staged, UploadBusy, UploadDone,
        UploadAt, UploadTo, UploadKeeps, process, files
<1>1. CASE UploadRequest(p)
      BY <1>1 DEF UploadRequest
<1>2. CASE ServicePublishes(p)
      BY <1>2 DEF ServicePublishes
<1>3. CASE UploadPutFails(p)
      BY <1>3 DEF UploadPutFails
<1>4. CASE UploadPutReturns(p)
      BY <1>4 DEF UploadPutReturns
<1>5. CASE UploadOpensMetainfo(p)
      BY <1>5 DEF UploadOpensMetainfo
<1>6. CASE UploadWritesMetainfo(p)
      BY <1>6 DEF UploadWritesMetainfo
<1>7. CASE UploadOpensToken(p)
      BY <1>7 DEF UploadOpensToken
<1>8. CASE UploadWritesToken(p)
      BY <1>8 DEF UploadWritesToken
<1>9. CASE UploadKeepsData(p)
      BY <1>9 DEF UploadKeepsData
<1>10. CASE UploadAddsTorrent(p)
      BY <1>10 DEF UploadAddsTorrent
<1>11. CASE UploadConceals(p)
      BY <1>11 DEF UploadConceals
<1> QED BY <1>1, <1>2, <1>3, <1>4, <1>5, <1>6, <1>7, <1>8, <1>9, <1>10, <1>11
        DEF Upload

(* All that a deletion does to uploads, the service and the files: the     *)
(* service's acceptance, and the removal its program counter stands at.    *)
DeleteEffect(d) ==
    /\ UNCHANGED <<process, upload, viewed, view>>
    /\ \A p \in Prefixes :
         /\ \/ remote'[p] = remote[p]
            \/ remote[p] # "none" /\ remote'[p] = "deleted"
         /\ \/ metainfo'[p] = metainfo[p]
            \/ /\ metainfo'[p] = "none"
               /\ del[d].prefix = p /\ del[d].pc = "removeMetainfo"
         /\ \/ token'[p] = token[p]
            \/ /\ token'[p] = "none"
               /\ del[d].prefix = p /\ del[d].pc = "removeToken"
         /\ data'[p] => data[p]

LEMMA DeleteHasEffect ==
    ASSUME Typed, NEW d \in Deleters, Delete(d)
    PROVE  DeleteEffect(d)
<1> USE DEF Typed, TypeOK, DeletesName, DeleteBusy, DeleteKeeps, DeleteAt,
        DeleteTo, DeleteEffect, files
<1>1. ASSUME NEW p \in Prefixes, DeleteRequested(d, p) PROVE DeleteEffect(d)
      BY <1>1 DEF DeleteRequested
<1>2. CASE DeleteReadsToken(d)
      BY <1>2 DEF DeleteReadsToken
<1>3. CASE DeleteLoadsMetainfo(d)
      BY <1>3 DEF DeleteLoadsMetainfo
<1>4. CASE ServiceDeletes(d)
      BY <1>4 DEF ServiceDeletes
<1>5. CASE DeleteCallFails(d)
      BY <1>5 DEF DeleteCallFails
<1>6. CASE DeleteCallReturns(d)
      BY <1>6 DEF DeleteCallReturns
<1>7. CASE DeleteDropsTorrent(d)
      BY <1>7 DEF DeleteDropsTorrent
<1>8. CASE DeleteRemovesData(d)
      BY <1>8 DEF DeleteRemovesData
<1>9. CASE DeleteRemovesMetainfo(d)
      BY <1>9 DEF DeleteRemovesMetainfo
<1>10. CASE DeleteRemovesToken(d)
      BY <1>10 DEF DeleteRemovesToken
<1> QED BY <1>1, <1>2, <1>3, <1>4, <1>5, <1>6, <1>7, <1>8, <1>9, <1>10
        DEF Delete

LEMMA StagedDelete ==
    ASSUME Typed, Staged, NEW d \in Deleters, Delete(d)
    PROVE  Staged'
BY DeleteHasEffect DEF DeleteEffect, Typed, TypeOK, Staged, process

LEMMA StagedNext == Typed /\ Staged /\ [Next]_vars => Staged'
<1> SUFFICES ASSUME Typed, Staged, [Next]_vars PROVE Staged'
    OBVIOUS
<1>1. ASSUME UNCHANGED <<node, upload, remote, metainfo, token, data>>
      PROVE  Staged'
      BY <1>1 DEF Staged
<1>2. CASE UNCHANGED vars
      BY <1>1, <1>2 DEF vars, process, files
<1>3. ASSUME NEW v \in Viewers, View(v) PROVE Staged'
      BY <1>1, <1>3 DEF View, ViewEnds, ViewStarts, process, files
<1>4. ASSUME NEW l \in Listers, List(l) PROVE Staged'
      BY <1>1, <1>4 DEF List, ListStarts, ListAnswers, ListLoads, ListKeeps,
         process, files
<1> QED BY <1>2, <1>3, <1>4, StagedProcess, StagedUpload, StagedDelete
        DEF Next

(* All that an /upload request does to the service and the files: it       *)
(* publishes its own upload, and takes nothing away.                       *)
UploadEffect(p) ==
    /\ UNCHANGED <<process, history, del, view>>
    /\ \A q \in Prefixes :
         /\ q # p => /\ remote'[q] = remote[q]
                     /\ upload'[q] = upload[q]
                     /\ metainfo'[q] = metainfo[q]
                     /\ token'[q] = token[q]
                     /\ data'[q] = data[q]
         /\ \/ remote'[q] = remote[q]
            \/ remote[q] = "none" /\ remote'[q] = "live"
         /\ metainfo[q] # "none" =>
              metainfo'[q] # "none" /\ metainfo'[q] \in {metainfo[q], "whole"}
         /\ token[q] # "none" =>
              token'[q] # "none" /\ token'[q] \in {token[q], "whole"}
         /\ data[q] => data'[q]

LEMMA UploadHasEffect ==
    ASSUME Typed, Staged, NEW p \in Prefixes, Upload(p)
    PROVE  UploadEffect(p)
<1> USE UploadsAssumption DEF Typed, TypeOK, Staged, UploadAt, UploadTo,
        UploadKeeps, UploadBusy, UploadEffect, files
<1>1. CASE UploadRequest(p)
      BY <1>1 DEF UploadRequest
<1>2. CASE ServicePublishes(p)
      BY <1>2 DEF ServicePublishes
<1>3. CASE UploadPutFails(p)
      BY <1>3 DEF UploadPutFails
<1>4. CASE UploadPutReturns(p)
      BY <1>4 DEF UploadPutReturns
<1>5. CASE UploadOpensMetainfo(p)
      BY <1>5 DEF UploadOpensMetainfo
<1>6. CASE UploadWritesMetainfo(p)
      BY <1>6 DEF UploadWritesMetainfo
<1>7. CASE UploadOpensToken(p)
      BY <1>7 DEF UploadOpensToken
<1>8. CASE UploadWritesToken(p)
      BY <1>8 DEF UploadWritesToken
<1>9. CASE UploadKeepsData(p)
      BY <1>9 DEF UploadKeepsData
<1>10. CASE UploadAddsTorrent(p)
      BY <1>10 DEF UploadAddsTorrent
<1>11. CASE UploadConceals(p)
      BY <1>11 DEF UploadConceals
<1> QED BY <1>1, <1>2, <1>3, <1>4, <1>5, <1>6, <1>7, <1>8, <1>9, <1>10, <1>11
        DEF Upload

-----------------------------------------------------------------------------
LEMMA BackedInit == Init => Backed
BY DEF Init, Backed, NoDelete

LEMMA BackedDelete ==
    ASSUME Typed, Backed, NEW d \in Deleters, Delete(d)
    PROVE  Backed'
<1> USE DEF Typed, TypeOK, DeletesName, DeleteRequest, DeleteBusy, DeleteDone,
        DeleteKeeps, DeleteAt, DeleteTo, Backed, files
<1>1. ASSUME NEW p \in Prefixes, DeleteRequested(d, p) PROVE Backed'
      BY <1>1 DEF DeleteRequested
<1>2. CASE DeleteReadsToken(d)
      BY <1>2 DEF DeleteReadsToken
<1>3. CASE DeleteLoadsMetainfo(d)
      BY <1>3 DEF DeleteLoadsMetainfo
<1>4. CASE ServiceDeletes(d)
      BY <1>4 DEF ServiceDeletes
<1>5. CASE DeleteCallFails(d)
      BY <1>5 DEF DeleteCallFails
<1>6. CASE DeleteCallReturns(d)
      BY <1>6 DEF DeleteCallReturns
<1>7. CASE DeleteDropsTorrent(d)
      BY <1>7 DEF DeleteDropsTorrent
<1>8. CASE DeleteRemovesData(d)
      BY <1>8 DEF DeleteRemovesData
<1>9. CASE DeleteRemovesMetainfo(d)
      BY <1>9 DEF DeleteRemovesMetainfo
<1>10. CASE DeleteRemovesToken(d)
      BY <1>10 DEF DeleteRemovesToken
<1> QED BY <1>1, <1>2, <1>3, <1>4, <1>5, <1>6, <1>7, <1>8, <1>9, <1>10
        DEF Delete

LEMMA BackedNext == Typed /\ Staged /\ Backed /\ [Next]_vars => Backed'
<1> SUFFICES ASSUME Typed, Staged, Backed, [Next]_vars PROVE Backed'
    OBVIOUS
<1>1. ASSUME UNCHANGED <<del, remote, metainfo, token>> PROVE Backed'
      BY <1>1 DEF Backed
<1>2. CASE UNCHANGED vars
      BY <1>1, <1>2 DEF vars, files
<1>3. CASE Process
  <2>1. CASE Crash
        BY <2>1 DEF Crash, Backed, NoDelete
  <2>2. CASE ~Crash
        BY <1>1, <1>3, <2>2 DEF Process, Restart, StartFails, StartDone,
           StartAdds, StartConceals, files
  <2> QED BY <2>1, <2>2
<1>4. ASSUME NEW p \in Prefixes, Upload(p) PROVE Backed'
      BY <1>4, UploadHasEffect DEF UploadEffect, Typed, TypeOK, DeletesName,
         DeleteBusy, Backed
<1>5. ASSUME NEW v \in Viewers, View(v) PROVE Backed'
      BY <1>1, <1>5 DEF View, ViewEnds, ViewStarts, files
<1>6. ASSUME NEW l \in Listers, List(l) PROVE Backed'
      BY <1>1, <1>6 DEF List, ListStarts, ListAnswers, ListLoads, ListKeeps,
         files
<1> QED BY <1>2, <1>3, <1>4, <1>5, <1>6, BackedDelete DEF Next

-----------------------------------------------------------------------------
(* The three layers hold in every state.                                   *)
Core == Typed /\ Staged /\ Backed

LEMMA CoreInvariant == Spec => []Core
<1>1. Init => Core
      BY InitTyped, StagedInit, BackedInit DEF Core
<1>2. Core /\ [Next]_vars => Core'
      BY NextTyped, StagedNext, BackedNext DEF Core
<1> QED BY <1>1, <1>2, PTL DEF Spec

(* A step that makes nothing whole, takes nothing whole away and leaves    *)
(* the service alone is a stutter of the registry.                         *)
Stutters ==
    /\ UNCHANGED remote
    /\ \A p \in Prefixes :
         /\ metainfo'[p] = "whole" <=> metainfo[p] = "whole"
         /\ token'[p] = "whole" <=> token[p] = "whole"
         /\ data'[p] <=> data[p]

LEMMA StutterKeeps == Stutters => UNCHANGED <<remote, Kept>>
BY DEF Stutters, Kept

(* One file of one upload made whole ...                                   *)
Gains(p, k) ==
    \A q \in Prefixes :
      /\ metainfo'[q] = "whole"
           <=> metainfo[q] = "whole" \/ (q = p /\ k = "metainfo")
      /\ token'[q] = "whole" <=> token[q] = "whole" \/ (q = p /\ k = "token")
      /\ data'[q] <=> data[q] \/ (q = p /\ k = "data")

(* ... or one taken away.                                                  *)
Loses(p, k) ==
    \A q \in Prefixes :
      /\ metainfo'[q] = "whole"
           <=> metainfo[q] = "whole" /\ ~(q = p /\ k = "metainfo")
      /\ token'[q] = "whole" <=> token[q] = "whole" /\ ~(q = p /\ k = "token")
      /\ data'[q] <=> data[q] /\ ~(q = p /\ k = "data")

LEMMA KeepOne ==
    ASSUME NEW p \in Prefixes, NEW k \in {"metainfo", "token", "data"},
           remote[p] # "none", UNCHANGED remote, Gains(p, k)
    PROVE  Registry!Next
<1>1. ASSUME NEW q \in Prefixes
      PROVE  Kept'[q] = [Kept EXCEPT ![p] = @ \cup {k}][q]
  <2>1. \A j : j \in Kept'[q] <=> j \in Kept[q] \/ (q = p /\ j = k)
        BY DEF Kept, Gains
  <2>2. [Kept EXCEPT ![p] = @ \cup {k}][q]
          = IF q = p THEN Kept[q] \cup {k} ELSE Kept[q]
        BY DEF Kept
  <2> QED BY <2>1, <2>2
<1>2. Kept' = [Kept EXCEPT ![p] = @ \cup {k}]
      BY <1>1 DEF Kept
<1> QED BY <1>2 DEF Registry!Next, Registry!Keep, Registry!Keepsake

LEMMA ForgetOne ==
    ASSUME NEW p \in Prefixes, NEW k \in {"metainfo", "token", "data"},
           remote[p] = "deleted", UNCHANGED remote, Loses(p, k)
    PROVE  Registry!Next
<1>1. ASSUME NEW q \in Prefixes
      PROVE  Kept'[q] = [Kept EXCEPT ![p] = @ \ {k}][q]
  <2>1. \A j : j \in Kept'[q] <=> j \in Kept[q] /\ ~(q = p /\ j = k)
        BY DEF Kept, Loses
  <2>2. [Kept EXCEPT ![p] = @ \ {k}][q]
          = IF q = p THEN Kept[q] \ {k} ELSE Kept[q]
        BY DEF Kept
  <2> QED BY <2>1, <2>2
<1>2. Kept' = [Kept EXCEPT ![p] = @ \ {k}]
      BY <1>1 DEF Kept
<1> QED BY <1>2 DEF Registry!Next, Registry!Forget, Registry!Keepsake

LEMMA RegistryUpload ==
    ASSUME Core, NEW p \in Prefixes, Upload(p)
    PROVE  [Registry!Next]_<<remote, Kept>>
<1> USE DEF Core, Typed, TypeOK, Staged, UploadAt, UploadTo, UploadBusy, files
<1>1. CASE ServicePublishes(p)
  <2>1. UNCHANGED Kept
        BY <1>1 DEF ServicePublishes, Kept
  <2> QED BY <1>1, <2>1 DEF ServicePublishes, Registry!Next, Registry!Publish
<1>2. CASE UploadWritesMetainfo(p)
  <2>1. CASE metainfo' = metainfo
    <3>1. Stutters
          BY <1>2, <2>1 DEF UploadWritesMetainfo, Stutters
    <3> QED BY <3>1, StutterKeeps
  <2>2. CASE metainfo' = [metainfo EXCEPT ![p] = "whole"]
    <3>1. Gains(p, "metainfo")
          BY <1>2, <2>2 DEF UploadWritesMetainfo, Gains
    <3>2. remote[p] # "none" /\ UNCHANGED remote
          BY <1>2 DEF UploadWritesMetainfo
    <3> QED BY <3>1, <3>2, KeepOne
  <2> QED BY <1>2, <2>1, <2>2 DEF UploadWritesMetainfo
<1>3. CASE UploadWritesToken(p)
  <2>1. CASE token' = token
    <3>1. Stutters
          BY <1>3, <2>1 DEF UploadWritesToken, Stutters
    <3> QED BY <3>1, StutterKeeps
  <2>2. CASE token' = [token EXCEPT ![p] = "whole"]
    <3>1. Gains(p, "token")
          BY <1>3, <2>2 DEF UploadWritesToken, Gains
    <3>2. remote[p] # "none" /\ UNCHANGED remote
          BY <1>3 DEF UploadWritesToken
    <3> QED BY <3>1, <3>2, KeepOne
  <2> QED BY <1>3, <2>1, <2>2 DEF UploadWritesToken
<1>4. CASE UploadKeepsData(p)
  <2>1. CASE data' = [data EXCEPT ![p] = TRUE]
    <3>1. Gains(p, "data")
          BY <1>4, <2>1 DEF UploadKeepsData, Gains
    <3>2. remote[p] # "none" /\ UNCHANGED remote
          BY <1>4 DEF UploadKeepsData
    <3> QED BY <3>1, <3>2, KeepOne
  <2>2. CASE data' # [data EXCEPT ![p] = TRUE]
    <3>1. \A q \in Prefixes : data'[q] = data[q]
          BY <1>4, <2>2, UploadsAssumption DEF UploadKeepsData
    <3>2. Stutters
          BY <1>4, <3>1 DEF UploadKeepsData, Stutters
    <3> QED BY <3>2, StutterKeeps
  <2> QED BY <2>1, <2>2
<1>5. CASE UploadOpensMetainfo(p) \/ UploadOpensToken(p)
  <2>1. Stutters
        BY <1>5 DEF UploadOpensMetainfo, UploadOpensToken, Stutters
  <2> QED BY <2>1, StutterKeeps
<1>6. CASE \/ UploadRequest(p) \/ UploadPutFails(p) \/ UploadPutReturns(p)
           \/ UploadAddsTorrent(p) \/ UploadConceals(p)
  <2>1. Stutters
        BY <1>6 DEF UploadRequest, UploadPutFails, UploadPutReturns,
           UploadAddsTorrent, UploadConceals, Stutters
  <2> QED BY <2>1, StutterKeeps
<1> QED BY <1>1, <1>2, <1>3, <1>4, <1>5, <1>6 DEF Upload

LEMMA RegistryDelete ==
    ASSUME Core, NEW d \in Deleters, Delete(d)
    PROVE  [Registry!Next]_<<remote, Kept>>
<1> DEFINE p == del[d].prefix
<1> USE DEF Core, Typed, TypeOK, DeletesName, DeleteBusy, Backed, DeleteAt,
        files
<1>1. CASE ServiceDeletes(d)
  <2>1. UNCHANGED Kept
        BY <1>1 DEF ServiceDeletes, Kept
  <2>2. CASE remote[p] = "live"
    <3>1. Kept[p] \cap {"metainfo", "token"} # {}
          BY <1>1, <2>2 DEF ServiceDeletes, Authorised, Kept
    <3> QED BY <1>1, <2>1, <2>2, <3>1 DEF ServiceDeletes, Registry!Next,
            Registry!Withdraw, Registry!Credential
  <2>3. CASE remote[p] = "deleted"
    <3>1. UNCHANGED remote
          BY <1>1, <2>3 DEF ServiceDeletes
    <3> QED BY <2>1, <3>1
  <2> QED BY <1>1, <2>2, <2>3 DEF ServiceDeletes
<1>2. CASE DeleteRemovesData(d)
  <2>1. CASE UNCHANGED data
    <3>1. Stutters
          BY <1>2, <2>1 DEF DeleteRemovesData, Stutters
    <3> QED BY <3>1, StutterKeeps
  <2>2. CASE data' = [data EXCEPT ![p] = FALSE]
    <3>1. Loses(p, "data")
          BY <1>2, <2>2 DEF DeleteRemovesData, Loses
    <3> QED BY <1>2, <3>1, ForgetOne DEF DeleteRemovesData
  <2> QED BY <1>2, <2>1, <2>2 DEF DeleteRemovesData
<1>3. CASE DeleteRemovesMetainfo(d)
  <2>1. CASE UNCHANGED metainfo
    <3>1. Stutters
          BY <1>3, <2>1 DEF DeleteRemovesMetainfo, Stutters
    <3> QED BY <3>1, StutterKeeps
  <2>2. CASE metainfo' = [metainfo EXCEPT ![p] = "none"]
    <3>1. Loses(p, "metainfo")
          BY <1>3, <2>2 DEF DeleteRemovesMetainfo, Loses
    <3> QED BY <1>3, <3>1, ForgetOne DEF DeleteRemovesMetainfo
  <2> QED BY <1>3, <2>1, <2>2 DEF DeleteRemovesMetainfo
<1>4. CASE DeleteRemovesToken(d)
  <2>1. CASE UNCHANGED token
    <3>1. Stutters
          BY <1>4, <2>1 DEF DeleteRemovesToken, Stutters
    <3> QED BY <3>1, StutterKeeps
  <2>2. CASE token' = [token EXCEPT ![p] = "none"]
    <3>1. Loses(p, "token")
          BY <1>4, <2>2 DEF DeleteRemovesToken, Loses
    <3> QED BY <1>4, <3>1, ForgetOne DEF DeleteRemovesToken
  <2> QED BY <1>4, <2>1, <2>2 DEF DeleteRemovesToken
<1>5. CASE UNCHANGED <<remote, files>>
  <2>1. Stutters
        BY <1>5 DEF Stutters
  <2> QED BY <2>1, StutterKeeps
<1> QED BY <1>1, <1>2, <1>3, <1>4, <1>5 DEF Delete, DeleteRequested,
        DeleteReadsToken, DeleteLoadsMetainfo, DeleteCallFails,
        DeleteCallReturns, DeleteDropsTorrent

(* The handlers, start-up and crashes implement UploadRegistry: whatever   *)
(* of an upload is whole on disk stays so until the service has deleted    *)
(* the upload, and a deletion the service accepts first is backed by a     *)
(* metainfo or a token that is still there (handler.go:626-652).           *)
THEOREM RegistryImplemented == Spec => ImplementsRegistry
<1>1. Init => Registry!Init
      BY DEF Init, Registry!Init, Kept
<1>2. Core /\ [Next]_vars => [Registry!Next]_<<remote, Kept>>
  <2> SUFFICES ASSUME Core, [Next]_vars
               PROVE  [Registry!Next]_<<remote, Kept>>
      OBVIOUS
  <2>1. CASE UNCHANGED <<remote, files>>
        BY <2>1 DEF files, Kept
  <2>2. CASE Process
        BY <2>1, <2>2 DEF Process, Restart, StartFails, StartDone, Crash,
           StartAdds, StartConceals
  <2>3. ASSUME NEW v \in Viewers, View(v) PROVE UNCHANGED <<remote, files>>
        BY <2>3 DEF View, ViewEnds, ViewStarts
  <2>4. ASSUME NEW l \in Listers, List(l) PROVE UNCHANGED <<remote, files>>
        BY <2>4 DEF List, ListStarts, ListAnswers, ListLoads, ListKeeps
  <2>5. CASE UNCHANGED vars
        BY <2>1, <2>5 DEF vars
  <2> QED BY <2>1, <2>2, <2>3, <2>4, <2>5, RegistryUpload, RegistryDelete
          DEF Next
<1> QED BY <1>1, <1>2, CoreInvariant, PTL
        DEF Spec, ImplementsRegistry, Registry!Spec

-----------------------------------------------------------------------------
LEMMA AnnouncedInit == Init => Announced
BY DEF Init, Announced, UploaderConcealed, PanicNeedsEarlyRequest

LEMMA AnnouncedProcess ==
    ASSUME Typed, Staged, Announced, Process
    PROVE  Announced'
<1> USE DEF Typed, TypeOK, Staged, Announced, UploaderConcealed,
        PanicNeedsEarlyRequest, UploadBusy, UploadDone, history
<1>1. CASE Restart
      BY <1>1 DEF Restart
<1>2. CASE StartFails
      BY <1>2 DEF StartFails
<1>3. CASE StartDone
      BY <1>3 DEF StartDone
<1>4. CASE Crash
      BY <1>4 DEF Crash
<1>5. ASSUME NEW p \in Prefixes, StartAdds(p) PROVE Announced'
      BY <1>5 DEF StartAdds
<1>6. ASSUME NEW p \in Prefixes, StartConceals(p) PROVE Announced'
      BY <1>6 DEF StartConceals
<1> QED BY <1>1, <1>2, <1>3, <1>4, <1>5, <1>6 DEF Process

LEMMA AnnouncedUpload ==
    ASSUME Typed, Staged, Announced, NEW p \in Prefixes, Upload(p)
    PROVE  Announced'
<1> USE DEF Typed, TypeOK, Staged, Announced, UploaderConcealed,
        PanicNeedsEarlyRequest, UploadBusy, UploadDone, UploadAt, UploadTo,
        UploadKeeps, history
<1>1. CASE UploadRequest(p)
      BY <1>1 DEF UploadRequest
<1>2. CASE ServicePublishes(p)
      BY <1>2 DEF ServicePublishes
<1>3. CASE UploadPutFails(p)
      BY <1>3 DEF UploadPutFails
<1>4. CASE UploadPutReturns(p)
      BY <1>4 DEF UploadPutReturns
<1>5. CASE UploadOpensMetainfo(p)
      BY <1>5 DEF UploadOpensMetainfo
<1>6. CASE UploadWritesMetainfo(p)
      BY <1>6 DEF UploadWritesMetainfo
<1>7. CASE UploadOpensToken(p)
      BY <1>7 DEF UploadOpensToken
<1>8. CASE UploadWritesToken(p)
      BY <1>8 DEF UploadWritesToken
<1>9. CASE UploadKeepsData(p)
      BY <1>9 DEF UploadKeepsData
<1>10. CASE UploadAddsTorrent(p)
      BY <1>10 DEF UploadAddsTorrent
<1>11. CASE UploadConceals(p)
      BY <1>11 DEF UploadConceals
<1> QED BY <1>1, <1>2, <1>3, <1>4, <1>5, <1>6, <1>7, <1>8, <1>9, <1>10, <1>11
        DEF Upload

LEMMA AnnouncedNext == Core /\ Announced /\ [Next]_vars => Announced'
<1> SUFFICES ASSUME Core, Announced, [Next]_vars PROVE Announced'
    OBVIOUS
<1>1. ASSUME UNCHANGED <<process, client, upload, viewed>>,
             early \subseteq early'
      PROVE  Announced'
      BY <1>1 DEF Announced, UploaderConcealed, PanicNeedsEarlyRequest, process
<1>2. CASE UNCHANGED vars
      BY <1>1, <1>2 DEF vars, history
<1>3. ASSUME NEW d \in Deleters, Delete(d) PROVE Announced'
  <2>1. UNCHANGED <<process, upload, viewed>>
        BY <1>3, DeleteHasEffect DEF Core, DeleteEffect
  <2>2. /\ early \subseteq early'
        /\ \A p \in Prefixes : client'[p] \in {"absent", client[p]}
        BY <1>3 DEF Delete, DeleteRequested, Touch, DeleteReadsToken,
           DeleteLoadsMetainfo, ServiceDeletes, DeleteCallFails,
           DeleteCallReturns, DeleteDropsTorrent, DeleteRemovesData,
           DeleteRemovesMetainfo, DeleteRemovesToken, Core, Typed, TypeOK
  <2> QED BY <2>1, <2>2
          DEF Announced, UploaderConcealed, PanicNeedsEarlyRequest, process
<1>4. ASSUME NEW v \in Viewers, View(v) PROVE Announced'
      BY <1>4 DEF View, ViewStarts, ViewEnds, Touch, process, history, Core,
         Typed, TypeOK, Staged, UploadBusy, Torrent, Announced,
         UploaderConcealed, PanicNeedsEarlyRequest
<1>5. ASSUME NEW l \in Listers, List(l) PROVE Announced'
      BY <1>1, <1>5 DEF List, ListStarts, ListAnswers, ListLoads, ListKeeps,
         history
<1> QED BY <1>2, <1>3, <1>4, <1>5, AnnouncedProcess, AnnouncedUpload
        DEF Next, Core

LEMMA AnnouncedInvariant == Spec => []Announced
BY CoreInvariant, AnnouncedInit, AnnouncedNext, PTL DEF Spec

(* No interleaving and no crash leaves an upload able to send data to      *)
(* peers outside the two windows of addUploadTorrent (handler.go:569-581), *)
(* that of its /upload (549) and that of its turn in a start (312), unless *)
(* its user views it.                                                      *)
THEOREM ConcealedAlways == Spec => []UploaderConcealed
<1>1. Announced => UploaderConcealed
      BY DEF Announced
<1> QED BY <1>1, AnnouncedInvariant, PTL

(* Uploads that nobody views or deletes while they run never meet the      *)
(* panic of addUploadTorrent (573-575), at start-up or after it.           *)
THEOREM PanicOnlyEarly == Spec => []PanicNeedsEarlyRequest
<1>1. Announced => PanicNeedsEarlyRequest
      BY DEF Announced
<1> QED BY <1>1, AnnouncedInvariant, PTL

-----------------------------------------------------------------------------
(* The inductive invariant behind DataHasRecord.                           *)
Documented == Unhurried /\ Recording /\ Removing /\ DataHasRecord

LEMMA DocumentedInit == Init => Documented
BY UploadsAssumption DEF Init, Documented, Unhurried, Recording, Removing,
   DataHasRecord, NoDelete

LEMMA DocumentedProcess ==
    ASSUME Core, Documented, Process
    PROVE  Documented'
<1> USE DEF Documented, Unhurried, Recording, Removing, DataHasRecord, Ignored,
        files, history
<1>1. CASE Restart
      BY <1>1 DEF Restart, failures
<1>2. CASE StartFails
      BY <1>2 DEF StartFails, Fails
<1>3. CASE StartDone
      BY <1>3 DEF StartDone, failures
<1>4. CASE Crash
      BY <1>4, UploadsAssumption DEF Crash, failures, NoDelete, UploadDone,
         UploadBusy, Core, Typed, TypeOK
<1>5. ASSUME NEW p \in Prefixes, StartAdds(p) PROVE Documented'
      BY <1>5 DEF StartAdds, Works, Swallows, failures
<1>6. ASSUME NEW p \in Prefixes, StartConceals(p) PROVE Documented'
      BY <1>6 DEF StartConceals, failures
<1> QED BY <1>1, <1>2, <1>3, <1>4, <1>5, <1>6 DEF Process

LEMMA DocumentedUpload ==
    ASSUME Core, Documented, NEW p \in Prefixes, Upload(p)
    PROVE  Documented'
<1> USE UploadsAssumption DEF Core, Typed, TypeOK, Staged, DeletesName,
        UploadBusy, UploadDone, UploadAt, UploadTo, UploadKeeps,
        history, files, failures, Works, Fails, Swallows,
        DeleteBusy, Documented, Unhurried, Recording, Removing, DataHasRecord,
        Ignored
<1>1. CASE UploadRequest(p)
      BY <1>1 DEF UploadRequest
<1>2. CASE ServicePublishes(p)
      BY <1>2 DEF ServicePublishes
<1>3. CASE UploadPutFails(p)
      BY <1>3 DEF UploadPutFails
<1>4. CASE UploadPutReturns(p)
      BY <1>4 DEF UploadPutReturns
<1>5. CASE UploadOpensMetainfo(p)
      BY <1>5 DEF UploadOpensMetainfo
<1>6. CASE UploadWritesMetainfo(p)
      BY <1>6 DEF UploadWritesMetainfo
<1>7. CASE UploadOpensToken(p)
      BY <1>7 DEF UploadOpensToken
<1>8. CASE UploadWritesToken(p)
      BY <1>8 DEF UploadWritesToken
<1>9. CASE UploadKeepsData(p)
      BY <1>9 DEF UploadKeepsData
<1>10. CASE UploadAddsTorrent(p)
      BY <1>10 DEF UploadAddsTorrent
<1>11. CASE UploadConceals(p)
      BY <1>11 DEF UploadConceals
<1> QED BY <1>1, <1>2, <1>3, <1>4, <1>5, <1>6, <1>7, <1>8, <1>9, <1>10, <1>11
        DEF Upload

LEMMA DocumentedDelete ==
    ASSUME Core, Documented, NEW d \in Deleters, Delete(d)
    PROVE  Documented'
<1>a. ASSUME UNCHANGED <<upload, files, early>>,
             swallowed \subseteq swallowed',
             \A e \in Deleters :
               /\ del'[e].prefix = del[e].prefix
               /\ del'[e].pc \in {"removeMetainfo", "removeToken"}
                    => del'[e].pc = del[e].pc
      PROVE  Documented'
      BY <1>a DEF Documented, Unhurried, Recording, Removing, DataHasRecord,
         Ignored, files
<1>b. del \in [Deleters -> DeleteRequest]
      BY DEF Core, Typed, TypeOK
<1> USE DEF Core, Typed, TypeOK, Staged, DeletesName, DeleteBusy, DeleteDone,
        UploadBusy, UploadDone, DeleteAt, DeleteTo, DeleteKeeps, DeleteRequest,
        files, failures, Works, Fails, Swallows, Documented, Unhurried,
        Recording, Removing, DataHasRecord, Ignored
<1>1. ASSUME NEW p \in Prefixes, DeleteRequested(d, p) PROVE Documented'
      BY <1>1 DEF DeleteRequested, Touch
<1> HIDE DEF Core, Typed, TypeOK, Staged, DeletesName, Documented, Unhurried,
        Recording, Removing, DataHasRecord
<1>2. CASE DeleteReadsToken(d)
      BY <1>2, <1>a, <1>b DEF DeleteReadsToken
<1>3. CASE DeleteLoadsMetainfo(d)
      BY <1>3, <1>a, <1>b DEF DeleteLoadsMetainfo
<1>4. CASE ServiceDeletes(d)
      BY <1>4, <1>a, <1>b DEF ServiceDeletes
<1>5. CASE DeleteCallFails(d)
      BY <1>5, <1>a, <1>b DEF DeleteCallFails
<1>6. CASE DeleteCallReturns(d)
      BY <1>6, <1>a, <1>b DEF DeleteCallReturns
<1>7. CASE DeleteDropsTorrent(d)
      BY <1>7, <1>a, <1>b DEF DeleteDropsTorrent
<1> USE DEF Core, Typed, TypeOK, Staged, DeletesName, Documented, Unhurried,
        Recording, Removing, DataHasRecord
<1>8. CASE DeleteRemovesData(d)
      BY <1>8 DEF DeleteRemovesData
<1>9. CASE DeleteRemovesMetainfo(d)
      BY <1>9 DEF DeleteRemovesMetainfo
<1>10. CASE DeleteRemovesToken(d)
      BY <1>10 DEF DeleteRemovesToken
<1> QED BY <1>1, <1>2, <1>3, <1>4, <1>5, <1>6, <1>7, <1>8, <1>9, <1>10
        DEF Delete

LEMMA DocumentedNext == Core /\ Documented /\ [Next]_vars => Documented'
<1> SUFFICES ASSUME Core, Documented, [Next]_vars PROVE Documented'
    OBVIOUS
<1>1. ASSUME UNCHANGED <<upload, del, files>>, early \subseteq early',
             swallowed \subseteq swallowed'
      PROVE  Documented'
      BY <1>1 DEF Documented, Unhurried, Recording, Removing, DataHasRecord,
         Ignored, files
<1>2. CASE UNCHANGED vars
      BY <1>1, <1>2 DEF vars, history, failures
<1>3. ASSUME NEW v \in Viewers, View(v) PROVE Documented'
      BY <1>1, <1>3 DEF View, ViewStarts, ViewEnds, Touch, history, failures
<1>4. ASSUME NEW l \in Listers, List(l) PROVE Documented'
      BY <1>1, <1>4 DEF List, ListStarts, ListAnswers, ListLoads, ListKeeps,
         Works, Swallows, history, failures
<1> QED BY <1>2, <1>3, <1>4, DocumentedProcess, DocumentedUpload,
        DocumentedDelete DEF Next

(* A body is never left without a record that /delete could find it by,    *)
(* after any number of crashes, failed calls and concurrent deletions;     *)
(* only an early deletion or view and a failed RemoveAll are excepted      *)
(* (handler.go:513-547, 650-652).                                          *)
THEOREM BodiesAreRecorded == Spec => []DataHasRecord
<1>1. Documented => DataHasRecord
      BY DEF Documented
<1> QED BY <1>1, CoreInvariant, DocumentedInit, DocumentedNext, PTL DEF Spec

-----------------------------------------------------------------------------
LEMMA CredentialedNext ==
    Core /\ Core' /\ Credentialed /\ [Next]_vars => Credentialed'
<1> SUFFICES ASSUME Core, Core', Credentialed, [Next]_vars
             PROVE  Credentialed'
    OBVIOUS
<1> USE DEF Credentialed, Ignored
<1>1. ASSUME UNCHANGED <<upload, remote, files>>,
             swallowed \subseteq swallowed'
      PROVE  Credentialed'
      BY <1>1 DEF files
<1>2. CASE UNCHANGED vars
      BY <1>1, <1>2 DEF vars, failures
<1>3. CASE Process
  <2>1. CASE Crash
        BY <2>1 DEF Crash, files, failures, Core, Typed, TypeOK, UploadBusy
  <2>2. CASE ~Crash
        BY <1>1, <1>3, <2>2 DEF Process, Restart, StartFails, StartDone,
           StartAdds, StartConceals, Works, Fails, Swallows, failures
  <2> QED BY <2>1, <2>2
<1>4. ASSUME NEW p \in Prefixes, Upload(p) PROVE Credentialed'
  <2> USE DEF Core, Typed, TypeOK, Staged, UploadBusy, UploadDone, UploadAt,
          UploadTo, UploadKeeps, files, failures, Works, Fails, Swallows
  <2>1. CASE UploadRequest(p)
        BY <2>1 DEF UploadRequest
  <2>2. CASE ServicePublishes(p)
        BY <2>2 DEF ServicePublishes
  <2>3. CASE UploadPutFails(p)
        BY <2>3 DEF UploadPutFails
  <2>4. CASE UploadPutReturns(p)
        BY <2>4 DEF UploadPutReturns
  <2>5. CASE UploadOpensMetainfo(p)
        BY <2>5 DEF UploadOpensMetainfo
  <2>6. CASE UploadWritesMetainfo(p)
        BY <2>6 DEF UploadWritesMetainfo
  <2>7. CASE UploadOpensToken(p)
        BY <2>7 DEF UploadOpensToken
  <2>8. CASE UploadWritesToken(p)
        BY <2>8 DEF UploadWritesToken
  <2>9. CASE UploadKeepsData(p)
        BY <2>9 DEF UploadKeepsData
  <2>10. CASE UploadAddsTorrent(p)
        BY <2>10 DEF UploadAddsTorrent
  <2>11. CASE UploadConceals(p)
        BY <2>11 DEF UploadConceals
  <2> QED BY <1>4, <2>1, <2>2, <2>3, <2>4, <2>5, <2>6, <2>7, <2>8, <2>9,
             <2>10, <2>11
          DEF Upload
<1>5. ASSUME NEW d \in Deleters, Delete(d) PROVE Credentialed'
  <2>1. swallowed \subseteq swallowed'
        BY <1>5 DEF Delete, DeleteRequested, DeleteReadsToken,
           DeleteLoadsMetainfo, ServiceDeletes, DeleteCallFails,
           DeleteCallReturns, DeleteDropsTorrent, DeleteRemovesData,
           DeleteRemovesMetainfo, DeleteRemovesToken, Works, Fails, Swallows,
           failures
  <2> QED BY <1>5, <2>1, DeleteHasEffect
          DEF Core, DeleteEffect, Backed
<1>6. ASSUME NEW v \in Viewers, View(v) PROVE Credentialed'
      BY <1>1, <1>6 DEF View, ViewStarts, ViewEnds, failures
<1>7. ASSUME NEW l \in Listers, List(l) PROVE Credentialed'
      BY <1>1, <1>7 DEF List, ListStarts, ListAnswers, ListLoads, ListKeeps,
         Works, Swallows, failures
<1> QED BY <1>2, <1>3, <1>4, <1>5, <1>6, <1>7 DEF Next

(* An answered upload that the service still has can be deleted, whatever  *)
(* crashed or failed besides the write of its token: it is never left with *)
(* an empty token, which would hide its metainfo (handler.go:524-526, 640).*)
THEOREM AnsweredCanBeDeleted == Spec => []DeletableWhenAnswered
<1>1. Init => Credentialed
      BY DEF Init, Credentialed
<1>2. Credentialed => DeletableWhenAnswered
      BY DEF Credentialed, DeletableWhenAnswered
<1> QED BY <1>1, <1>2, CoreInvariant, CredentialedNext, PTL DEF Spec
=============================================================================
