------------------------ MODULE UploadsOutcomeProofs ------------------------
(***************************************************************************)
(* Theorems about what Uploads leaves behind: what a listing shows, what a *)
(* deletion removes, and what the torrent client has after a start. They   *)
(* rest on the layers of UploadsProofs and add three more.                 *)
(***************************************************************************)
EXTENDS UploadsProofs

(* What no step takes back: which failures the code did not look at, and   *)
(* which uploads were named early.                                         *)
LEMMA HistoryGrows ==
    ASSUME Typed, [Next]_vars
    PROVE  swallowed \subseteq swallowed' /\ early \subseteq early'
<1> USE DEF Works, Fails, Swallows, failures, history
<1>1. CASE UNCHANGED vars
      BY <1>1 DEF vars
<1>2. CASE Process
      BY <1>2 DEF Process, Restart, StartAdds, StartConceals, StartFails,
         StartDone, Crash
<1>3. ASSUME NEW p \in Prefixes, Upload(p)
      PROVE  swallowed \subseteq swallowed' /\ early \subseteq early'
      BY <1>3 DEF Upload, UploadKeeps, UploadRequest, ServicePublishes,
         UploadPutFails, UploadPutReturns, UploadOpensMetainfo,
         UploadWritesMetainfo, UploadOpensToken, UploadWritesToken,
         UploadKeepsData, UploadAddsTorrent, UploadConceals
<1>4. ASSUME NEW d \in Deleters, Delete(d)
      PROVE  swallowed \subseteq swallowed' /\ early \subseteq early'
      BY <1>4 DEF Delete, DeleteRequested, Touch, DeleteReadsToken,
         DeleteLoadsMetainfo, ServiceDeletes, DeleteCallFails,
         DeleteCallReturns, DeleteDropsTorrent, DeleteRemovesData,
         DeleteRemovesMetainfo, DeleteRemovesToken
<1>5. ASSUME NEW v \in Viewers, View(v)
      PROVE  swallowed \subseteq swallowed' /\ early \subseteq early'
      BY <1>5 DEF View, ViewStarts, ViewEnds, Touch
<1>6. ASSUME NEW l \in Listers, List(l)
      PROVE  swallowed \subseteq swallowed' /\ early \subseteq early'
      BY <1>6 DEF List, ListStarts, ListAnswers, ListLoads, ListKeeps
<1> QED BY <1>1, <1>2, <1>3, <1>4, <1>5, <1>6 DEF Next

-----------------------------------------------------------------------------
(* A record that was whole ever since ReadDir is whole still, and is either *)
(* to be loaded or on the list.                                            *)
Listed(l) ==
    \A p \in list[l].steady :
      /\ metainfo[p] = "whole"
      /\ p \in list[l].shown \/ Ignored(p, "loadRecord")
           \/ (list[l].pc = "loading" /\ p \in list[l].todo)

Listings == \A l \in Listers : Listed(l)

LEMMA NothingListed == ASSUME NEW l \in Listers, list[l] = NoList
                       PROVE  Listed(l)
BY DEF Listed, NoList

LEMMA ListingsInit == Init => Listings
BY NothingListed DEF Init, Listings

LEMMA ListingsDelete ==
    ASSUME Core, Listings, NEW d \in Deleters, Delete(d),
           swallowed \subseteq swallowed'
    PROVE  Listings'
<1> USE DEF Core, Typed, TypeOK, ListRequest, Listings, Listed, Ignored
<1>1. CASE UNCHANGED <<metainfo, list>>
      BY <1>1
<1>2. ASSUME metainfo' = [metainfo EXCEPT ![del[d].prefix] = "none"],
             Unsteady(del[d].prefix), NEW l \in Listers
      PROVE  Listed(l)'
  <2>1. /\ list'[l].pc = list[l].pc /\ list'[l].todo = list[l].todo
        /\ list'[l].shown = list[l].shown
        /\ list'[l].steady = list[l].steady \ {del[d].prefix}
        BY <1>2 DEF Unsteady
  <2>2. list[l].steady \subseteq Prefixes
        OBVIOUS
  <2> QED BY <1>2, <2>1, <2>2
<1>3. UNCHANGED <<metainfo, list>>
        \/ /\ metainfo' = [metainfo EXCEPT ![del[d].prefix] = "none"]
           /\ Unsteady(del[d].prefix)
      BY DEF Delete, DeleteRequested, DeleteReadsToken, DeleteLoadsMetainfo,
         ServiceDeletes, DeleteCallFails, DeleteCallReturns,
         DeleteDropsTorrent, DeleteRemovesData, DeleteRemovesMetainfo,
         DeleteRemovesToken, files
<1> QED BY <1>1, <1>2, <1>3

LEMMA ListingsList ==
    ASSUME Core, Listings, NEW l \in Listers, List(l),
           swallowed \subseteq swallowed'
    PROVE  Listings'
<1> USE DEF Listings
<1>1. UNCHANGED metainfo
      BY DEF List, ListStarts, ListLoads, ListAnswers, ListKeeps, files
<1>2. ASSUME NEW k \in Listers, k # l PROVE Listed(k)'
  <2>1. list'[k] = list[k]
        BY <1>2 DEF List, ListStarts, ListLoads, ListAnswers, Core, Typed,
           TypeOK
  <2> QED BY <1>1, <2>1 DEF Listed, Ignored
<1>3. Listed(l)'
  <2> USE DEF Listed, Ignored, Core, Typed, TypeOK, ListRequest
  <2>1. CASE ListStarts(l)
    <3>1. PICK names \in {{}, Recorded} :
            /\ names = Recorded \/ Swallows(Recorded, "loadRecord")
            /\ list'[l].pc = "loading" /\ list'[l].todo = names
            /\ list'[l].steady = {p \in Recorded : metainfo[p] = "whole"}
          BY <2>1 DEF ListStarts
    <3> QED BY <1>1, <3>1 DEF Recorded, Swallows
  <2>2. CASE ListAnswers(l)
    <3>1. /\ list[l].todo = {} /\ list'[l].shown = list[l].shown
          /\ list'[l].steady = list[l].steady
          BY <2>2 DEF ListAnswers
    <3> QED BY <1>1, <3>1
  <2>3. ASSUME NEW p \in Prefixes, ListLoads(l, p) PROVE Listed(l)'
    <3>1. /\ list[l].pc = "loading" /\ list'[l].pc = "loading"
          /\ list'[l].todo = list[l].todo \ {p}
          /\ list'[l].steady = list[l].steady
          /\ list[l].shown \subseteq list'[l].shown
          /\ \/ metainfo[p] = "whole" => p \in list'[l].shown
             \/ Swallows({p}, "loadRecord")
          BY <2>3 DEF ListLoads, Recorded
    <3> QED BY <1>1, <3>1 DEF Swallows
  <2> QED BY <2>1, <2>2, <2>3 DEF List
<1> QED BY <1>2, <1>3

LEMMA ListingsNext == Core /\ Listings /\ [Next]_vars => Listings'
<1> SUFFICES ASSUME Core, Listings, [Next]_vars PROVE Listings'
    OBVIOUS
<1>0. swallowed \subseteq swallowed'
      BY HistoryGrows DEF Core
<1>1. ASSUME UNCHANGED list,
             \A p \in Prefixes : metainfo[p] = "whole" =>
                                   metainfo'[p] = "whole"
      PROVE  Listings'
      BY <1>0, <1>1 DEF Listings, Listed, Ignored, Core, Typed, TypeOK,
         ListRequest
<1>2. CASE UNCHANGED vars
      BY <1>1, <1>2 DEF vars, files
<1>3. CASE Process
  <2>1. CASE Crash
    <3>1. \A l \in Listers : list'[l] = NoList
          BY <2>1 DEF Crash
    <3> QED BY <3>1 DEF Listings, Listed, NoList
  <2>2. CASE ~Crash
        BY <1>1, <1>3, <2>2 DEF Process, Restart, StartFails, StartDone,
           StartAdds, StartConceals, files
  <2> QED BY <2>1, <2>2
<1>4. ASSUME NEW p \in Prefixes, Upload(p) PROVE Listings'
  <2>1. UNCHANGED list
        BY <1>4 DEF Upload, UploadKeeps, UploadRequest, ServicePublishes,
           UploadPutFails, UploadPutReturns, UploadOpensMetainfo,
           UploadWritesMetainfo, UploadOpensToken, UploadWritesToken,
           UploadKeepsData, UploadAddsTorrent, UploadConceals
  <2>2. UploadEffect(p)
        BY <1>4, UploadHasEffect DEF Core
  <2> QED BY <1>1, <2>1, <2>2 DEF UploadEffect
<1>5. ASSUME NEW v \in Viewers, View(v) PROVE Listings'
      BY <1>1, <1>5 DEF View, ViewStarts, ViewEnds, files
<1> QED BY <1>0, <1>2, <1>3, <1>4, <1>5, ListingsDelete, ListingsList
        DEF Next

(* A listing that is answered shows every upload whose record was whole    *)
(* all along, however many uploads and deletions run beside it and however *)
(* many records are torn (upload.go:129-157).                              *)
THEOREM SteadyAreShown == Spec => []ListingShowsSteady
<1>1. Core /\ Listings => ListingShowsSteady
      BY DEF Core, Typed, TypeOK, ListRequest, Listings, Listed,
         ListingShowsSteady
<1> QED BY <1>1, CoreInvariant, ListingsInit, ListingsNext, PTL DEF Spec

-----------------------------------------------------------------------------
(* No request is at work, or remembered, while the process is not serving. *)
Still == node # "serving" =>
           /\ \A d \in Deleters : del[d] = NoDelete
           /\ \A v \in Viewers : view[v] = NoPrefix

(* What a deletion that was not early has got rid of, step by step: nobody *)
(* brings it back, for the upload is finished and the process serving.     *)
Finishing(d, p) ==
    /\ del[d].pc = "ok" => remote[p] = "deleted"
    /\ del[d].pc \in {"removeData", "removeMetainfo", "removeToken", "ok"}
         => client[p] \in {"absent", "shared"}
    /\ /\ del[d].pc \in {"removeMetainfo", "removeToken", "ok"}
       /\ ~Ignored(p, "removeData")
       => ~data[p]
    /\ /\ del[d].pc \in {"removeToken", "ok"}
       /\ ~Ignored(p, "removeMetainfo")
       => metainfo[p] = "none"
    /\ del[d].pc = "ok" /\ ~Ignored(p, "removeToken") => token[p] = "none"

Cleaning ==
    /\ Still
    /\ \A d \in Deleters : \A p \in Prefixes :
         del[d].prefix = p /\ p \notin early => Finishing(d, p)

LEMMA CleaningInit == Init => Cleaning
BY DEF Init, Cleaning, Still, Finishing, NoDelete

(* A step that is not the deletion's own disturbs nothing it has done, if  *)
(* it gives its upload no file and no torrent but a shared one.            *)
LEMMA FinishingKept ==
    ASSUME NEW d \in Deleters, NEW p \in Prefixes, Finishing(d, p),
           swallowed \subseteq swallowed',
           del'[d].pc = del[d].pc,
           remote[p] = "deleted" => remote'[p] = "deleted",
           client'[p] \in {client[p], "absent", "shared"},
           data'[p] => data[p],
           metainfo[p] = "none" => metainfo'[p] = "none",
           token[p] = "none" => token'[p] = "none"
    PROVE  Finishing(d, p)'
BY DEF Finishing, Ignored

(* An upload's request gives things to its own upload only.                *)
LEMMA UploadToOwn ==
    ASSUME Typed, NEW p \in Prefixes, Upload(p)
    PROVE  /\ upload[p] \in {"idle"} \cup UploadBusy
           /\ UNCHANGED <<node, del, view, list, early, viewed, pending>>
           /\ \A q \in Prefixes \ {p} :
                /\ upload'[q] = upload[q] /\ remote'[q] = remote[q]
                /\ metainfo'[q] = metainfo[q] /\ token'[q] = token[q]
                /\ data'[q] = data[q] /\ client'[q] = client[q]
<1> USE DEF Typed, TypeOK, UploadBusy, UploadAt, UploadTo, UploadKeeps,
            process, history, files
<1>1. CASE UploadRequest(p)
      BY <1>1 DEF UploadRequest
<1>2. CASE ServicePublishes(p)
      BY <1>2 DEF ServicePublishes
<1>3. CASE UploadPutFails(p)
      BY <1>3 DEF UploadPutFails
<1>4. CASE UploadPutReturns(p)
      BY <1>4 DEF UploadPutReturns
<1>5. CASE UploadOpensMetainfo(p)
      BY <1>5 DEF UploadOpensMetainfo
<1>6. CASE UploadWritesMetainfo(p)
      BY <1>6 DEF UploadWritesMetainfo
<1>7. CASE UploadOpensToken(p)
      BY <1>7 DEF UploadOpensToken
<1>8. CASE UploadWritesToken(p)
      BY <1>8 DEF UploadWritesToken
<1>9. CASE UploadKeepsData(p)
      BY <1>9 DEF UploadKeepsData
<1>10. CASE UploadAddsTorrent(p)
      BY <1>10 DEF UploadAddsTorrent
<1>11. CASE UploadConceals(p)
      BY <1>11 DEF UploadConceals
<1> QED BY <1>1, <1>2, <1>3, <1>4, <1>5, <1>6, <1>7, <1>8, <1>9, <1>10, <1>11
        DEF Upload

LEMMA StillNext == Typed /\ Staged /\ Still /\ [Next]_vars => Still'
<1> SUFFICES ASSUME Typed, Staged, Still, [Next]_vars PROVE Still'
    OBVIOUS
<1>1. CASE UNCHANGED vars
      BY <1>1 DEF vars, process, Still
<1>2. CASE Process
      BY <1>2 DEF Process, Restart, StartAdds, StartConceals, StartFails,
         StartDone, Crash, Still
<1>3. ASSUME NEW p \in Prefixes, Upload(p) PROVE Still'
      BY <1>3, UploadToOwn DEF Still
<1>4. ASSUME NEW d \in Deleters, Delete(d) PROVE Still'
  <2>1. UNCHANGED <<node, view>>
        BY <1>4, DeleteHasEffect DEF DeleteEffect, process
  <2>2. node = "serving"
        BY <1>4 DEF Delete, DeleteRequested, DeleteAt, DeleteReadsToken,
           DeleteLoadsMetainfo, ServiceDeletes, DeleteCallFails,
           DeleteCallReturns, DeleteDropsTorrent, DeleteRemovesData,
           DeleteRemovesMetainfo, DeleteRemovesToken, Still, NoDelete
  <2> QED BY <2>1, <2>2 DEF Still
<1>5. ASSUME NEW v \in Viewers, View(v) PROVE Still'
      BY <1>5 DEF View, ViewStarts, ViewEnds, Still, process
<1>6. ASSUME NEW l \in Listers, List(l) PROVE Still'
      BY <1>6 DEF List, ListStarts, ListLoads, ListAnswers, ListKeeps, Still,
         process
<1> QED BY <1>1, <1>2, <1>3, <1>4, <1>5, <1>6 DEF Next

(* What a deletion does to the torrents, the body and itself.              *)
LEMMA DeleteToOwn ==
    ASSUME Core, NEW d \in Deleters, Delete(d)
    PROVE  /\ UNCHANGED <<process, upload, view, viewed>>
           /\ \A e \in Deleters \ {d} : del'[e] = del[e]
           /\ \A p \in Prefixes :
                /\ remote[p] = "deleted" => remote'[p] = "deleted"
                /\ client'[p] \in {client[p], "absent"}
                /\ data'[p] => data[p]
                /\ metainfo[p] = "none" => metainfo'[p] = "none"
                /\ token[p] = "none" => token'[p] = "none"
                /\ del[d].prefix # p => /\ client'[p] = client[p]
                                        /\ metainfo'[p] = metainfo[p]
<1>1. DeleteEffect(d)
      BY DeleteHasEffect DEF Core
<1>2. \A e \in Deleters \ {d} : del'[e] = del[e]
      BY DEF Delete, DeleteRequested, DeleteReadsToken, DeleteLoadsMetainfo,
         ServiceDeletes, DeleteCallFails, DeleteCallReturns, DeleteTo,
         DeleteDropsTorrent, DeleteRemovesData, DeleteRemovesMetainfo,
         DeleteRemovesToken, Core, Typed, TypeOK
<1>3. \A p \in Prefixes : /\ client'[p] \in {client[p], "absent"}
                          /\ del[d].prefix # p => client'[p] = client[p]
      BY DEF Delete, DeleteRequested, DeleteReadsToken, DeleteLoadsMetainfo,
         ServiceDeletes, DeleteCallFails, DeleteCallReturns,
         DeleteDropsTorrent, DeleteRemovesData, DeleteRemovesMetainfo,
         DeleteRemovesToken, Core, Typed, TypeOK
<1> QED BY <1>1, <1>2, <1>3 DEF DeleteEffect

LEMMA FinishingOwn ==
    ASSUME Core, Core', Cleaning, NEW d \in Deleters, Delete(d),
           swallowed \subseteq swallowed', early \subseteq early',
           NEW p \in Prefixes, del'[d].prefix = p, p \notin early'
    PROVE  Finishing(d, p)'
<1>0. del[d] \in DeleteRequest /\ del' \in [Deleters -> DeleteRequest]
      BY DEF Core, Typed, TypeOK
<1>1. CASE del'[d].pc \in DeleteBusy \ {"removeData", "removeMetainfo",
                                        "removeToken"}
      BY <1>1 DEF Finishing, DeleteBusy
<1>2. CASE del'[d].pc \in DeleteDone \ {"ok"}
      BY <1>2 DEF Finishing, DeleteDone
<1>3. CASE del'[d].pc \in {"removeData", "removeMetainfo", "removeToken",
                           "ok"}
  <2>0. del \in [Deleters -> DeleteRequest]
        BY DEF Core, Typed, TypeOK
  <2>1. DeleteDropsTorrent(d) \/ DeleteRemovesData(d)
          \/ DeleteRemovesMetainfo(d) \/ DeleteRemovesToken(d)
    <3>1. ASSUME NEW q \in Prefixes, DeleteRequested(d, q) PROVE FALSE
          BY <1>3, <2>0, <3>1 DEF DeleteRequested
    <3>2. CASE DeleteReadsToken(d)
      <4>1. PICK a : del' = [del EXCEPT ![d].pc = "loadMetainfo",
                                        ![d].auth = a]
            BY <3>2 DEF DeleteReadsToken
      <4> QED BY <1>3, <2>0, <4>1 DEF DeleteRequest
    <3>3. CASE DeleteLoadsMetainfo(d)
      <4>1. PICK mi, pc : /\ pc \in {"call", "gone", "failed"}
                          /\ del' = [del EXCEPT ![d].mi = mi, ![d].pc = pc]
            BY <3>3 DEF DeleteLoadsMetainfo
      <4> QED BY <1>3, <2>0, <4>1 DEF DeleteRequest
    <3>4. CASE ServiceDeletes(d) \/ DeleteCallFails(d)
          BY <1>3, <2>0, <3>4 DEF ServiceDeletes, DeleteCallFails, DeleteTo,
             DeleteRequest
    <3>5. CASE DeleteCallReturns(d)
          BY <1>3, <2>0, <3>5 DEF DeleteCallReturns, DeleteTo, DeleteRequest
    <3> QED BY <3>1, <3>2, <3>3, <3>4, <3>5 DEF Delete
  <2>2. del[d].prefix = p /\ p \notin early
        BY <2>0, <2>1 DEF DeleteDropsTorrent, DeleteRemovesData, DeleteTo,
           DeleteRemovesMetainfo, DeleteRemovesToken, DeleteRequest
  <2>3. Finishing(d, p)
        BY <2>2 DEF Cleaning
  <2> USE <1>0, <1>3, <2>2, <2>3 DEF Core, Typed, TypeOK, DeleteAt, DeleteTo,
          DeleteRequest, Finishing, Ignored
  <2>4. CASE DeleteDropsTorrent(d)
        BY <2>4 DEF DeleteDropsTorrent
  <2>5. CASE DeleteRemovesData(d)
        BY <2>5 DEF DeleteRemovesData, Swallows
  <2>6. CASE DeleteRemovesMetainfo(d)
        BY <2>6 DEF DeleteRemovesMetainfo, Swallows
  <2>7. CASE DeleteRemovesToken(d)
        BY <2>7 DEF DeleteRemovesToken, Swallows, Backed
  <2> QED BY <2>4, <2>5, <2>6, <2>7, <2>1
<1> QED BY <1>0, <1>1, <1>2, <1>3 DEF DeleteRequest

LEMMA CleaningNext ==
    Core /\ Core' /\ Unhurried /\ Cleaning /\ [Next]_vars => Cleaning'
<1> SUFFICES ASSUME Core, Core', Unhurried, Cleaning, [Next]_vars
             PROVE  Cleaning'
    OBVIOUS
<1>0. swallowed \subseteq swallowed' /\ early \subseteq early'
      BY HistoryGrows DEF Core
<1>1. Still'
      BY StillNext DEF Core, Cleaning
<1> SUFFICES ASSUME NEW d \in Deleters, NEW p \in Prefixes,
                    del'[d].prefix = p, p \notin early'
             PROVE  Finishing(d, p)'
    BY <1>1 DEF Cleaning
<1>2. ASSUME del'[d] = del[d] PROVE Finishing(d, p) /\ upload[p] \in UploadDone
      BY <1>0, <1>2 DEF Cleaning, Unhurried
<1>3. CASE UNCHANGED vars
      BY <1>0, <1>2, <1>3, FinishingKept DEF vars, files
<1>4. CASE Process
  <2>1. CASE Crash
    <3>1. del'[d] = NoDelete
          BY <2>1 DEF Crash
    <3> QED BY <3>1 DEF NoDelete, Finishing
  <2>2. CASE ~Crash
    <3>1. del'[d] = NoDelete
          BY <1>4, <2>2 DEF Process, Restart, StartAdds, StartConceals,
             StartFails, StartDone, Cleaning, Still
    <3> QED BY <3>1 DEF NoDelete, Finishing
  <2> QED BY <2>1, <2>2
<1>5. ASSUME NEW q \in Prefixes, Upload(q) PROVE Finishing(d, p)'
  <2>1. del'[d] = del[d]
        BY <1>5, UploadToOwn DEF Core
  <2>2. p # q
        BY <1>2, <1>5, <2>1, UploadToOwn DEF Core, UploadBusy, UploadDone
  <2> QED BY <1>0, <1>2, <1>5, <2>1, <2>2, UploadToOwn, FinishingKept DEF Core
<1>6. ASSUME NEW e \in Deleters, Delete(e) PROVE Finishing(d, p)'
  <2>1. CASE e = d
        BY <1>0, <1>6, <2>1, FinishingOwn
  <2>2. CASE e # d
    <3>1. del'[d] = del[d]
          BY <1>6, <2>2, DeleteToOwn
    <3> QED BY <1>0, <1>2, <1>6, <3>1, DeleteToOwn, FinishingKept
  <2> QED BY <2>1, <2>2
<1>7. ASSUME NEW v \in Viewers, View(v) PROVE Finishing(d, p)'
  <2>1. UNCHANGED <<files, remote, del>>
        BY <1>7 DEF View, ViewStarts, ViewEnds
  <2>2. client'[p] \in {client[p], "absent", "shared"}
        BY <1>7 DEF View, ViewStarts, ViewEnds, Core, Typed, TypeOK
  <2> QED BY <1>0, <1>2, <2>1, <2>2, FinishingKept DEF files
<1>8. ASSUME NEW l \in Listers, List(l) PROVE Finishing(d, p)'
  <2>1. UNCHANGED <<files, remote, del, client>>
        BY <1>8 DEF List, ListStarts, ListLoads, ListAnswers, ListKeeps
  <2> QED BY <1>0, <1>2, <2>1, FinishingKept DEF files
<1> QED BY <1>3, <1>4, <1>5, <1>6, <1>7, <1>8 DEF Next

LEMMA CleaningInvariant == Spec => [](Core /\ Documented /\ Cleaning)
<1>1. Documented => Unhurried
      BY DEF Documented
<1> QED BY <1>1, CoreInvariant, DocumentedInit, DocumentedNext, CleaningInit,
           CleaningNext, PTL DEF Spec

(* A deletion that is answered with 200 has left nothing of the upload, in *)
(* any company of other requests, failures and crashes, but what a failed  *)
(* removal left (handler.go:646-652); early deletions are excepted.        *)
THEOREM DeletionIsComplete == Spec => []DeletedLeavesNothing
<1>1. Cleaning => DeletedLeavesNothing
      BY DEF Cleaning, Finishing, DeletedLeavesNothing, NothingLeft
<1> QED BY <1>1, CleaningInvariant, PTL

-----------------------------------------------------------------------------
(* Start-up has added, of the records it is past, those that are whole and *)
(* no others, and is done with their torrents; the one torrent that can be *)
(* exposed is that of the record it is at.                                 *)
Starting ==
    \A p \in Prefixes :
      /\ node = "down" => client[p] = "absent"
      /\ node = "starting" /\ client[p] # "absent" =>
           /\ metainfo[p] = "whole"
           /\ \/ client[p] = "concealed" /\ p \notin pending
              \/ client[p] = "exposed" /\ p \in pending

(* An upload nobody names early has its metainfo whole once it is written, *)
(* and its torrent in the client while it is concealing it.                *)
Storing(p) ==
    /\ upload[p] \in {"token", "tokenWrite", "data", "torrent", "conceal"}
         => metainfo[p] = "whole"
    /\ upload[p] = "answered" => metainfo[p] # "torn"
    /\ upload[p] = "conceal" /\ p \notin viewed => client[p] = "exposed"

(* A deletion that has dropped the torrent and has still to remove the     *)
(* metainfo.                                                               *)
Between(d, p) == /\ del[d].prefix = p
                 /\ del[d].pc \in {"removeData", "removeMetainfo"}

Matching(p) ==
    upload[p] = "answered" =>
      /\ node = "starting" /\ p \notin pending /\ metainfo[p] = "whole"
           => client[p] = "concealed"
      /\ node = "serving" =>
           \/ (client[p] = "concealed") <=> (metainfo[p] = "whole")
           \/ client[p] = "absent" /\ \E d \in Deleters : Between(d, p)

Excused(p) == \/ p \in early \cup viewed
              \/ Ignored(p, "addTorrent") \/ Ignored(p, "removeMetainfo")

Seeding ==
    /\ \A v \in Viewers : view[v] # NoPrefix => view[v] \in viewed
    /\ AddUploadsToTorrentClient /\ StoreMetainfoFileAndTokenLocally =>
         /\ Starting
         /\ \A p \in Prefixes : p \notin early => Storing(p)
         /\ \A p \in Prefixes : Excused(p) \/ Matching(p)

LEMMA SeedingInit == Init => Seeding
BY DEF Init, Seeding, Starting, Storing, Excused, Matching

LEMMA ViewsKnown ==
    ASSUME Typed, [Next]_vars,
           \A v \in Viewers : view[v] # NoPrefix => view[v] \in viewed
    PROVE  \A v \in Viewers : view'[v] # NoPrefix => view'[v] \in viewed'
<1>1. CASE UNCHANGED <<view, viewed>>
      BY <1>1
<1>2. CASE Crash
      BY <1>2 DEF Crash
<1>3. ASSUME NEW v \in Viewers, View(v)
      PROVE  \A w \in Viewers : view'[w] # NoPrefix => view'[w] \in viewed'
      BY <1>3 DEF View, ViewStarts, ViewEnds, history, Typed, TypeOK
<1>4. CASE Process /\ ~Crash
      BY <1>1, <1>4 DEF Process, Restart, StartAdds, StartConceals, StartFails,
         StartDone, history
<1>5. ASSUME NEW p \in Prefixes, Upload(p)
      PROVE  UNCHANGED <<view, viewed>>
      BY <1>5, UploadToOwn
<1>6. ASSUME NEW d \in Deleters, Delete(d)
      PROVE  UNCHANGED <<view, viewed>>
      BY <1>6, DeleteHasEffect DEF DeleteEffect
<1>7. ASSUME NEW l \in Listers, List(l)
      PROVE  UNCHANGED <<view, viewed>>
      BY <1>7 DEF List, ListStarts, ListLoads, ListAnswers, ListKeeps, history
<1>8. CASE UNCHANGED vars
      BY <1>8 DEF vars, history
<1> QED BY <1>1, <1>2, <1>3, <1>4, <1>5, <1>6, <1>7, <1>8 DEF Next

(* The steps of the process.                                               *)
LEMMA SeedingProcess ==
    ASSUME Core, Still, Seeding, Process, swallowed \subseteq swallowed',
           AddUploadsToTorrentClient, StoreMetainfoFileAndTokenLocally
    PROVE  /\ Starting'
           /\ \A p \in Prefixes : p \notin early' => Storing(p)'
           /\ \A p \in Prefixes : Excused(p)' \/ Matching(p)'
<1> USE DEF Seeding, Starting, Storing, Excused, Matching, Ignored, Core,
        Typed, TypeOK, files, history
<1>1. CASE Restart
      BY <1>1 DEF Restart, Recorded, Between
<1>2. CASE StartFails
      BY <1>2 DEF StartFails, Recorded, Between
<1>3. CASE StartDone
      BY <1>3 DEF StartDone, Between
<1>4. CASE Crash
      BY <1>4 DEF Crash, UploadBusy, Between
<1>5. ASSUME NEW q \in Prefixes, StartAdds(q)
      PROVE  /\ Starting'
             /\ \A p \in Prefixes : p \notin early' => Storing(p)'
             /\ \A p \in Prefixes : Excused(p)' \/ Matching(p)'
      BY <1>5 DEF StartAdds, Swallows, Staged, UploadBusy
<1>6. ASSUME NEW q \in Prefixes, StartConceals(q)
      PROVE  /\ Starting'
             /\ \A p \in Prefixes : p \notin early' => Storing(p)'
             /\ \A p \in Prefixes : Excused(p)' \/ Matching(p)'
      BY <1>6 DEF StartConceals, Staged, UploadBusy
<1> QED BY <1>1, <1>2, <1>3, <1>4, <1>5, <1>6 DEF Process

(* The steps of an /upload request, on its own upload and on others.       *)
LEMMA SeedingUpload ==
    ASSUME Core, Documented, Still, Seeding, NEW q \in Prefixes, Upload(q),
           swallowed \subseteq swallowed',
           AddUploadsToTorrentClient, StoreMetainfoFileAndTokenLocally
    PROVE  /\ Starting'
           /\ \A p \in Prefixes : p \notin early' => Storing(p)'
           /\ \A p \in Prefixes : Excused(p)' \/ Matching(p)'
<1>1. node = "serving" /\ node' = "serving"
  <2>1. \/ upload[q] \in UploadBusy
        \/ upload[q] = "idle" /\ node = "serving"
        BY DEF Upload, UploadRequest, ServicePublishes, UploadPutFails,
           UploadPutReturns, UploadOpensMetainfo, UploadWritesMetainfo,
           UploadOpensToken, UploadWritesToken, UploadKeepsData,
           UploadAddsTorrent, UploadConceals, UploadAt, UploadBusy
  <2> QED BY <2>1, UploadToOwn DEF Core, Staged
<1>2. Starting'
      BY <1>1 DEF Starting
<1>3. ASSUME NEW p \in Prefixes, p # q
      PROVE  /\ p \notin early' => Storing(p)'
             /\ Excused(p)' \/ Matching(p)'
      BY <1>3, UploadToOwn DEF Core, Seeding, Storing, Excused, Matching,
         Between, Ignored
<1>4. /\ q \notin early' => Storing(q)'
      /\ Excused(q)' \/ Matching(q)'
  <2>1. /\ UNCHANGED <<early, viewed, del>>
        /\ q \notin early => Storing(q)
        BY UploadToOwn DEF Core, Seeding
  <2> USE <1>1, <2>1 DEF Core, Typed, TypeOK, Staged, UploadBusy, UploadDone,
          UploadAt, UploadTo, files, Storing, Excused, Matching, Ignored
  <2>2. CASE UploadRequest(q)
        BY <2>2 DEF UploadRequest
  <2>3. CASE ServicePublishes(q)
        BY <2>3 DEF ServicePublishes
  <2>4. CASE UploadPutFails(q)
        BY <2>4 DEF UploadPutFails
  <2>5. CASE UploadPutReturns(q)
        BY <2>5 DEF UploadPutReturns
  <2>6. CASE UploadOpensMetainfo(q)
        BY <2>6 DEF UploadOpensMetainfo
  <2>7. CASE UploadWritesMetainfo(q)
    <3>1. CASE upload'[q] = "failed"
          BY <2>7, <3>1
    <3>2. CASE upload'[q] = "token" /\ q \notin early
      <4>1. metainfo[q] # "none"
            BY <2>7, <3>2 DEF UploadWritesMetainfo, Documented, Recording
      <4> QED BY <2>7, <3>2, <4>1 DEF UploadWritesMetainfo
    <3>3. CASE upload'[q] = "token" /\ q \in early
          BY <3>3
    <3> QED BY <2>7, <3>1, <3>2, <3>3 DEF UploadWritesMetainfo
  <2>8. CASE UploadOpensToken(q)
        BY <2>8 DEF UploadOpensToken
  <2>9. CASE UploadWritesToken(q)
        BY <2>9 DEF UploadWritesToken
  <2>10. CASE UploadKeepsData(q)
        BY <2>10 DEF UploadKeepsData
  <2>11. CASE UploadAddsTorrent(q)
        BY <2>11 DEF UploadAddsTorrent
  <2>12. CASE UploadConceals(q)
        BY <2>12 DEF UploadConceals
  <2> QED BY <2>2, <2>3, <2>4, <2>5, <2>6, <2>7, <2>8, <2>9, <2>10, <2>11,
             <2>12 DEF Upload
<1> QED BY <1>2, <1>3, <1>4

(* The steps of a deletion.                                                *)
LEMMA SeedingDelete ==
    ASSUME Core, Unhurried, Cleaning, Seeding, NEW d \in Deleters, Delete(d),
           swallowed \subseteq swallowed', early \subseteq early',
           AddUploadsToTorrentClient, StoreMetainfoFileAndTokenLocally
    PROVE  /\ Starting'
           /\ \A p \in Prefixes : p \notin early' => Storing(p)'
           /\ \A p \in Prefixes : Excused(p)' \/ Matching(p)'
<1>1. node = "serving" /\ node' = "serving"
  <2>1. del[d] # NoDelete \/ node = "serving"
        BY DEF Delete, DeleteRequested, DeleteAt, DeleteReadsToken,
           DeleteLoadsMetainfo, ServiceDeletes, DeleteCallFails,
           DeleteCallReturns, DeleteDropsTorrent, DeleteRemovesData,
           DeleteRemovesMetainfo, DeleteRemovesToken, NoDelete
  <2> QED BY <2>1, DeleteToOwn DEF Cleaning, Still, process
<1>2. Starting'
      BY <1>1 DEF Starting
<1>3. ASSUME NEW p \in Prefixes, p \notin early' PROVE Storing(p)'
  <2>1. Storing(p) /\ p \notin early
        BY <1>3 DEF Seeding
  <2>2. CASE del[d].prefix # p
        BY <2>1, <2>2, DeleteToOwn DEF Storing
  <2>3. CASE del[d].prefix = p
    <3>1. upload'[p] \in UploadDone
          BY <2>1, <2>3, DeleteToOwn DEF Unhurried
    <3>2. metainfo'[p] \in {metainfo[p], "none"} /\ upload'[p] = upload[p]
          BY DeleteHasEffect, DeleteToOwn DEF Core, DeleteEffect
    <3> QED BY <2>1, <3>1, <3>2 DEF Storing, UploadDone
  <2> QED BY <2>2, <2>3
<1>4. ASSUME NEW p \in Prefixes, ~Excused(p)' PROVE Matching(p)'
  <2>1. ~Excused(p) /\ Matching(p) /\ p \notin early
        BY <1>4, DeleteToOwn DEF Seeding, Excused, Ignored
  <2>2. upload'[p] = upload[p]
        BY DeleteToOwn
  <2>3. del \in [Deleters -> DeleteRequest] /\ metainfo[p] \in File
        BY DEF Core, Typed, TypeOK
  <2>4. ASSUME metainfo'[p] = metainfo[p], client'[p] = client[p],
               ~Between(d, p)
        PROVE  Matching(p)'
    <3>1. \A e \in Deleters : Between(e, p) => Between(e, p)'
          BY <2>4, DeleteToOwn DEF Between
    <3> QED BY <1>1, <2>1, <2>2, <2>4, <3>1 DEF Matching
  <2>5. CASE del[d].prefix # p
        BY <2>4, <2>5, DeleteToOwn DEF Between
  <2>6. CASE del[d].prefix = p
    <3> USE <1>1, <2>1, <2>2, <2>3, <2>6 DEF DeleteAt, DeleteTo, Matching,
            Between, DeleteRequest, File
    <3>1. CASE DeleteDropsTorrent(d)
          BY <3>1 DEF DeleteDropsTorrent, Core, Typed, TypeOK
    <3>2. CASE DeleteRemovesData(d)
          BY <3>2 DEF DeleteRemovesData
    <3>3. CASE DeleteRemovesMetainfo(d)
      <4>1. client[p] \in {"absent", "shared"}
            BY <3>3 DEF DeleteRemovesMetainfo, Cleaning, Finishing
      <4>2. metainfo'[p] = "none" /\ client'[p] = client[p]
            BY <1>4, <3>3 DEF DeleteRemovesMetainfo, Swallows, Excused,
               Ignored, Core, Typed, TypeOK
      <4> QED BY <4>1, <4>2
    <3>4. CASE ~DeleteDropsTorrent(d) /\ ~DeleteRemovesData(d)
                 /\ ~DeleteRemovesMetainfo(d)
      <4>1. UNCHANGED <<metainfo, client>>
            BY <3>4 DEF Delete, DeleteRequested, DeleteReadsToken,
               DeleteLoadsMetainfo, ServiceDeletes, DeleteCallFails,
               DeleteCallReturns, DeleteRemovesToken, files
      <4>2. del[d].pc \notin {"removeData", "removeMetainfo"}
            BY <3>4 DEF Delete, DeleteRequested, DeleteReadsToken,
               DeleteLoadsMetainfo, ServiceDeletes, DeleteCallFails,
               DeleteCallReturns, DeleteRemovesToken, DeleteDone
      <4> QED BY <2>4, <4>1, <4>2
    <3> QED BY <3>1, <3>2, <3>3, <3>4
  <2> QED BY <2>5, <2>6
<1> QED BY <1>2, <1>3, <1>4

LEMMA SeedingNext ==
    Core /\ Documented /\ Cleaning /\ Seeding /\ [Next]_vars => Seeding'
<1> SUFFICES ASSUME Core, Documented, Cleaning, Seeding, [Next]_vars
             PROVE  Seeding'
    OBVIOUS
<1>1. swallowed \subseteq swallowed' /\ early \subseteq early'
      BY HistoryGrows DEF Core
<1>2. \A v \in Viewers : view'[v] # NoPrefix => view'[v] \in viewed'
      BY ViewsKnown DEF Core, Seeding
<1> SUFFICES ASSUME AddUploadsToTorrentClient,
                    StoreMetainfoFileAndTokenLocally
             PROVE  /\ Starting'
                    /\ \A p \in Prefixes : p \notin early' => Storing(p)'
                    /\ \A p \in Prefixes : Excused(p)' \/ Matching(p)'
    BY <1>2 DEF Seeding
<1>3. ASSUME UNCHANGED <<node, pending, upload, metainfo, client, viewed, del>>
      PROVE  /\ Starting'
             /\ \A p \in Prefixes : p \notin early' => Storing(p)'
             /\ \A p \in Prefixes : Excused(p)' \/ Matching(p)'
      BY <1>1, <1>3 DEF Seeding, Starting, Storing, Excused, Matching, Between,
         Ignored
<1>4. CASE UNCHANGED vars
      BY <1>3, <1>4 DEF vars, process, files, history
<1>5. ASSUME NEW l \in Listers, List(l)
      PROVE  UNCHANGED <<node, pending, upload, metainfo, client, viewed, del>>
      BY <1>5 DEF List, ListStarts, ListLoads, ListAnswers, ListKeeps, process,
         files, history
<1>6. ASSUME NEW v \in Viewers, View(v)
      PROVE  /\ Starting'
             /\ \A p \in Prefixes : p \notin early' => Storing(p)'
             /\ \A p \in Prefixes : Excused(p)' \/ Matching(p)'
  <2>1. UNCHANGED <<node, pending, upload, metainfo, del>>
        BY <1>6 DEF View, ViewStarts, ViewEnds, process, files
  <2>2. viewed \subseteq viewed'
        /\ \A p \in Prefixes : p \notin viewed' => client'[p] = client[p]
    <3>1. CASE ViewEnds(v)
          BY <3>1 DEF ViewEnds, Seeding, history, Core, Typed, TypeOK
    <3>2. ASSUME NEW p \in Prefixes, ViewStarts(v, p)
          PROVE  viewed \subseteq viewed' /\ \A q \in Prefixes :
                   q \notin viewed' => client'[q] = client[q]
          BY <3>2 DEF ViewStarts, Core, Typed, TypeOK
    <3> QED BY <1>6, <3>1, <3>2 DEF View
  <2>3. node = "serving"
        BY <1>6 DEF View, ViewStarts, ViewEnds, Cleaning, Still
  <2> QED BY <1>1, <2>1, <2>2, <2>3 DEF Seeding, Starting, Storing, Excused,
             Matching, Between, Ignored
<1> QED BY <1>1, <1>3, <1>4, <1>5, <1>6, SeedingProcess, SeedingUpload,
           SeedingDelete DEF Next, Cleaning, Documented

(* Whenever no request is at work on an answered upload, after any number  *)
(* of crashes and restarts, its torrent is in the client if and only if    *)
(* its record is in the uploads directory (handler.go:306-322, 646-651).   *)
THEOREM ClientSeedsRecords == Spec => []ClientMatchesRecords
<1>1. Seeding => ClientMatchesRecords
  <2> SUFFICES ASSUME Seeding, AddUploadsToTorrentClient,
                      StoreMetainfoFileAndTokenLocally, NEW p \in Prefixes,
                      Quiet(p), upload[p] = "answered", ~Excused(p)
               PROVE  (client[p] = "concealed") <=> (metainfo[p] = "whole")
      BY DEF ClientMatchesRecords, Excused
  <2>1. Matching(p) /\ node = "serving"
        BY DEF Seeding, Quiet
  <2>2. \A d \in Deleters : ~Between(d, p)
        BY DEF Between, Quiet, DeleteDone
  <2> QED BY <2>1, <2>2 DEF Matching
<1> QED BY <1>1, CleaningInvariant, SeedingInit, SeedingNext, PTL DEF Spec

-----------------------------------------------------------------------------
(* An upload that is finished and withdrawn, and of which nothing is left, *)
(* is so for ever: no listing, view, repeated deletion, crash or restart   *)
(* brings anything of it back.                                             *)
Withdrawn(p) == /\ upload[p] \in UploadDone
                /\ remote[p] = "deleted" /\ NothingLeft(p)
NothingComesBack == [][\A p \in Prefixes : Withdrawn(p) => Withdrawn(p)']_vars


LEMMA NothingBack ==
    ASSUME Core, NEW p \in Prefixes, Withdrawn(p), [Next]_vars
    PROVE  Withdrawn(p)'
<1> USE DEF Withdrawn, NothingLeft
<1>1. ASSUME UNCHANGED <<upload, files, remote>>,
             client'[p] \in {client[p], "absent", "shared"}
      PROVE  Withdrawn(p)'
      BY <1>1 DEF files
<1>2. CASE UNCHANGED vars
      BY <1>1, <1>2 DEF vars
<1>3. CASE Process
  <2>1. UNCHANGED <<files, remote>> /\ upload'[p] = upload[p]
        BY <1>3 DEF Process, Restart, StartAdds, StartConceals, StartFails,
           StartDone, Crash, UploadBusy, UploadDone
  <2>2. client'[p] \in {client[p], "absent"}
        BY <1>3 DEF Process, Restart, StartAdds, StartConceals, StartFails,
           StartDone, Crash, Core, Typed, TypeOK
  <2> QED BY <2>1, <2>2 DEF files
<1>4. ASSUME NEW q \in Prefixes, Upload(q) PROVE Withdrawn(p)'
  <2>1. q # p
        BY <1>4, UploadToOwn DEF Core, UploadBusy, UploadDone
  <2> QED BY <1>4, <2>1, UploadToOwn DEF Core
<1>5. ASSUME NEW d \in Deleters, Delete(d) PROVE Withdrawn(p)'
      BY <1>5, DeleteToOwn
<1>6. ASSUME NEW v \in Viewers, View(v) PROVE Withdrawn(p)'
  <2>1. UNCHANGED <<upload, files, remote>>
        BY <1>6 DEF View, ViewStarts, ViewEnds
  <2>2. client'[p] \in {client[p], "absent", "shared"}
        BY <1>6 DEF View, ViewStarts, ViewEnds, Core, Typed, TypeOK
  <2> QED BY <1>1, <2>1, <2>2
<1>7. ASSUME NEW l \in Listers, List(l) PROVE Withdrawn(p)'
      BY <1>1, <1>7 DEF List, ListStarts, ListLoads, ListAnswers, ListKeeps
<1> QED BY <1>2, <1>3, <1>4, <1>5, <1>6, <1>7 DEF Next

THEOREM DeletionLasts == Spec => NothingComesBack
<1>1. Core /\ [Next]_vars
        => [\A p \in Prefixes : Withdrawn(p) => Withdrawn(p)']_vars
      BY NothingBack
<1> QED BY <1>1, CoreInvariant, PTL DEF Spec, NothingComesBack

-----------------------------------------------------------------------------
(* The steps that a request has still to take. An upload can be published  *)
(* by the service while it waits for the answer.                           *)
UploadSteps == [idle |-> 9, put |-> 8, metainfo |-> 7, metainfoWrite |-> 6,
                token |-> 5, tokenWrite |-> 4, data |-> 3, torrent |-> 2,
                conceal |-> 1, answered |-> 0, failed |-> 0, panicked |-> 0]
DeleteSteps == [readToken |-> 8, loadMetainfo |-> 7, call |-> 6,
                accepted |-> 5, drop |-> 4, removeData |-> 3,
                removeMetainfo |-> 2, removeToken |-> 1, idle |-> 0, ok |-> 0,
                gone |-> 0, failed |-> 0]
UploadLeft(p) == UploadSteps[upload[p]] + (IF remote[p] = "none" THEN 1 ELSE 0)
DeleteLeft(d) == DeleteSteps[del[d].pc]

(* Each step of a request leaves it fewer, and no step of another request, *)
(* no crash and no restart gives it more: no deletion waits for another,   *)
(* and no upload is begun again.                                           *)
UploadRunsOut(p) == /\ UploadLeft(p)' <= UploadLeft(p)
                    /\ Upload(p) => UploadLeft(p)' < UploadLeft(p)
DeleteRunsOut(d) == \/ \E p \in Prefixes : DeleteRequested(d, p)
                    \/ /\ DeleteLeft(d)' <= DeleteLeft(d)
                       /\ Delete(d) => DeleteLeft(d)' < DeleteLeft(d)
StepsRunOut ==
    [][/\ \A p \in Prefixes : UploadRunsOut(p)
       /\ \A d \in Deleters : DeleteRunsOut(d)]_vars

LEMMA UploadAdvances ==
    ASSUME Core, NEW p \in Prefixes, Upload(p)
    PROVE  UploadLeft(p)' < UploadLeft(p)
<1> USE DEF Core, Typed, TypeOK, UploadAt, UploadTo
<1>1. \/ /\ remote'[p] = remote[p]
         /\ \/ upload[p] = "idle" /\ upload'[p] = "put"
            \/ /\ upload[p] = "put"
               /\ upload'[p] \in {"failed", "metainfo", "data"}
            \/ /\ upload[p] = "metainfo"
               /\ upload'[p] \in {"metainfoWrite", "failed"}
            \/ /\ upload[p] = "metainfoWrite"
               /\ upload'[p] \in {"token", "failed"}
            \/ upload[p] = "token" /\ upload'[p] \in {"tokenWrite", "data"}
            \/ upload[p] = "tokenWrite" /\ upload'[p] = "data"
            \/ upload[p] = "data" /\ upload'[p] \in {"torrent", "failed"}
            \/ /\ upload[p] = "torrent"
               /\ upload'[p] \in {"answered", "conceal", "panicked", "failed"}
            \/ upload[p] = "conceal" /\ upload'[p] = "answered"
      \/ /\ upload[p] = "put" /\ upload'[p] = "put"
         /\ remote[p] = "none" /\ remote'[p] = "live"
  <2>1. CASE UploadRequest(p)
        BY <2>1 DEF UploadRequest
  <2>2. CASE ServicePublishes(p)
        BY <2>2 DEF ServicePublishes
  <2>3. CASE UploadPutFails(p) \/ UploadPutReturns(p)
        BY <2>3 DEF UploadPutFails, UploadPutReturns
  <2>4. CASE UploadOpensMetainfo(p) \/ UploadWritesMetainfo(p)
        BY <2>4 DEF UploadOpensMetainfo, UploadWritesMetainfo
  <2>5. CASE UploadOpensToken(p) \/ UploadWritesToken(p)
        BY <2>5 DEF UploadOpensToken, UploadWritesToken
  <2>6. CASE UploadKeepsData(p)
        BY <2>6 DEF UploadKeepsData
  <2>7. CASE UploadAddsTorrent(p) \/ UploadConceals(p)
        BY <2>7 DEF UploadAddsTorrent, UploadConceals
  <2> QED BY <2>1, <2>2, <2>3, <2>4, <2>5, <2>6, <2>7 DEF Upload
<1> QED BY <1>1 DEF UploadLeft, UploadSteps

LEMMA DeleteAdvances ==
    ASSUME Core, NEW d \in Deleters, Delete(d),
           ~\E p \in Prefixes : DeleteRequested(d, p)
    PROVE  DeleteLeft(d)' < DeleteLeft(d)
<1> USE DEF Core, Typed, TypeOK, DeleteAt, DeleteTo
<1>1. \/ del[d].pc = "readToken" /\ del'[d].pc = "loadMetainfo"
      \/ /\ del[d].pc = "loadMetainfo"
         /\ del'[d].pc \in {"call", "gone", "failed"}
      \/ del[d].pc = "call" /\ del'[d].pc \in {"accepted", "failed"}
      \/ del[d].pc = "accepted" /\ del'[d].pc \in {"drop", "failed"}
      \/ del[d].pc = "drop" /\ del'[d].pc = "removeData"
      \/ del[d].pc = "removeData" /\ del'[d].pc = "removeMetainfo"
      \/ del[d].pc = "removeMetainfo" /\ del'[d].pc = "removeToken"
      \/ del[d].pc = "removeToken" /\ del'[d].pc \in {"ok", "failed"}
  <2>1. CASE DeleteReadsToken(d)
        BY <2>1 DEF DeleteReadsToken, DeleteRequest
  <2>2. CASE DeleteLoadsMetainfo(d)
        BY <2>2 DEF DeleteLoadsMetainfo
  <2>3. CASE ServiceDeletes(d)
        BY <2>3 DEF ServiceDeletes
  <2>4. CASE DeleteCallFails(d)
        BY <2>4 DEF DeleteCallFails
  <2>5. CASE DeleteCallReturns(d)
        BY <2>5 DEF DeleteCallReturns
  <2>6. CASE DeleteDropsTorrent(d)
        BY <2>6 DEF DeleteDropsTorrent
  <2>7. CASE DeleteRemovesData(d)
        BY <2>7 DEF DeleteRemovesData
  <2>8. CASE DeleteRemovesMetainfo(d)
        BY <2>8 DEF DeleteRemovesMetainfo
  <2>9. CASE DeleteRemovesToken(d)
        BY <2>9 DEF DeleteRemovesToken
  <2> QED BY <2>1, <2>2, <2>3, <2>4, <2>5, <2>6, <2>7, <2>8, <2>9 DEF Delete
<1> QED BY <1>1 DEF DeleteLeft, DeleteSteps

LeftTyped == /\ \A p \in Prefixes : UploadLeft(p) \in 0 .. 10
             /\ \A d \in Deleters : DeleteLeft(d) \in 0 .. 8

LEMMA LeftIsTyped == Core => LeftTyped
<1> SUFFICES ASSUME Core PROVE LeftTyped
    OBVIOUS
<1>1. /\ \A pc \in {"idle"} \cup UploadBusy \cup UploadDone :
           UploadSteps[pc] \in 0 .. 9
      /\ \A pc \in DeleteBusy \cup DeleteDone : DeleteSteps[pc] \in 0 .. 8
      BY DEF UploadSteps, UploadBusy, UploadDone, DeleteSteps, DeleteBusy,
         DeleteDone
<1>2. /\ \A p \in Prefixes :
           upload[p] \in {"idle"} \cup UploadBusy \cup UploadDone
      /\ \A d \in Deleters : del[d].pc \in DeleteBusy \cup DeleteDone
      BY DEF Core, Typed, TypeOK, DeleteRequest
<1>3. \A p \in Prefixes : UploadLeft(p) \in 0 .. 10
  <2> TAKE p \in Prefixes
  <2>1. UploadSteps[upload[p]] \in 0 .. 9
        BY <1>1, <1>2
  <2> QED BY <2>1 DEF UploadLeft
<1>4. \A d \in Deleters : DeleteLeft(d) \in 0 .. 8
      BY <1>1, <1>2 DEF DeleteLeft
<1> QED BY <1>3, <1>4 DEF LeftTyped

(* The request of p, or d, itself apart, a step gives them nothing to do.  *)
LEMMA OthersWait ==
    ASSUME Core, Next
    PROVE  /\ \A p \in Prefixes : Upload(p) \/ UploadLeft(p)' <= UploadLeft(p)
           /\ \A d \in Deleters : Delete(d) \/ DeleteLeft(d)' <= DeleteLeft(d)
<1>1. /\ \A p \in Prefixes : UploadLeft(p) \in 0 .. 10
      /\ \A d \in Deleters : DeleteLeft(d) \in 0 .. 8
      BY LeftIsTyped DEF LeftTyped
<1>2. ASSUME NEW p \in Prefixes, upload'[p] = upload[p],
             remote[p] # "none" => remote'[p] # "none"
      PROVE  UploadLeft(p)' <= UploadLeft(p)
  <2>1. UploadSteps[upload[p]] \in 0 .. 9
        BY DEF Core, Typed, TypeOK, UploadSteps, UploadBusy, UploadDone
  <2> QED BY <1>2, <2>1 DEF UploadLeft
<1>3. ASSUME NEW d \in Deleters, del'[d].pc = del[d].pc
      PROVE  DeleteLeft(d)' <= DeleteLeft(d)
      BY <1>1, <1>3 DEF DeleteLeft
<1>4. ASSUME UNCHANGED <<upload, remote, del>>
      PROVE  /\ \A p \in Prefixes : UploadLeft(p)' <= UploadLeft(p)
             /\ \A d \in Deleters : DeleteLeft(d)' <= DeleteLeft(d)
      BY <1>2, <1>3, <1>4
<1>5. ASSUME Process
      PROVE  /\ \A p \in Prefixes : UploadLeft(p)' <= UploadLeft(p)
             /\ \A d \in Deleters : DeleteLeft(d)' <= DeleteLeft(d)
  <2>1. CASE Crash
    <3>1. /\ remote' = remote
          /\ \A p \in Prefixes : upload'[p] \in {upload[p], "failed"}
          /\ \A d \in Deleters : del'[d].pc = "idle"
          BY <2>1 DEF Crash, NoDelete
    <3>2. \A d \in Deleters : DeleteLeft(d)' = 0
          BY <3>1 DEF DeleteLeft, DeleteSteps
    <3>3. ASSUME NEW p \in Prefixes, upload'[p] = "failed"
          PROVE  UploadLeft(p)' <= UploadLeft(p)
      <4>1. UploadSteps[upload[p]] \in 0 .. 9
            BY DEF Core, Typed, TypeOK, UploadSteps, UploadBusy, UploadDone
      <4> QED BY <3>1, <3>3, <4>1 DEF UploadLeft, UploadSteps
    <3> QED BY <1>1, <1>2, <3>1, <3>2, <3>3
  <2>2. CASE ~Crash
        BY <1>4, <1>5, <2>2 DEF Process, Restart, StartAdds, StartConceals,
           StartFails, StartDone
  <2> QED BY <2>1, <2>2
<1>6. ASSUME NEW q \in Prefixes, Upload(q)
      PROVE  /\ \A p \in Prefixes \ {q} : UploadLeft(p)' <= UploadLeft(p)
             /\ \A d \in Deleters : DeleteLeft(d)' <= DeleteLeft(d)
  <2>1. /\ del' = del
        /\ \A p \in Prefixes \ {q} : /\ upload'[p] = upload[p]
                                     /\ remote'[p] = remote[p]
        BY <1>6, UploadToOwn DEF Core
  <2> QED BY <1>2, <1>3, <2>1
<1>7. ASSUME NEW e \in Deleters, Delete(e)
      PROVE  /\ \A p \in Prefixes : UploadLeft(p)' <= UploadLeft(p)
             /\ \A d \in Deleters \ {e} : DeleteLeft(d)' <= DeleteLeft(d)
  <2>1. /\ upload' = upload
        /\ \A d \in Deleters \ {e} : del'[d] = del[d]
        BY <1>7, DeleteToOwn
  <2>2. \A p \in Prefixes : remote[p] # "none" => remote'[p] # "none"
        BY <1>7, DeleteHasEffect DEF DeleteEffect, Core
  <2> QED BY <1>2, <1>3, <2>1, <2>2
<1>8. ASSUME \/ \E v \in Viewers : View(v)
             \/ \E l \in Listers : List(l)
      PROVE  UNCHANGED <<upload, remote, del>>
      BY <1>8 DEF View, ViewStarts, ViewEnds, List, ListStarts, ListLoads,
         ListAnswers, ListKeeps
<1> QED BY <1>4, <1>5, <1>6, <1>7, <1>8 DEF Next

THEOREM RequestsRunOut == Spec => StepsRunOut
<1> DEFINE Out == /\ \A p \in Prefixes : UploadRunsOut(p)
                  /\ \A d \in Deleters : DeleteRunsOut(d)
<1>1. ASSUME Core, Core', Next
      PROVE  Out
  <2>1. LeftTyped /\ LeftTyped'
    <3>1. (Core => LeftTyped)'
          BY LeftIsTyped, PTL
    <3> QED BY <1>1, <3>1, LeftIsTyped
  <2>2. ASSUME NEW p \in Prefixes
        PROVE  UploadRunsOut(p)
    <3>1. Upload(p) => UploadLeft(p)' < UploadLeft(p)
          BY <1>1, UploadAdvances
    <3>2. Upload(p) \/ UploadLeft(p)' <= UploadLeft(p)
          BY <1>1, OthersWait
    <3> QED BY <2>1, <3>1, <3>2 DEF UploadRunsOut, LeftTyped
  <2>3. ASSUME NEW d \in Deleters,
               ~\E p \in Prefixes : DeleteRequested(d, p)
        PROVE  /\ DeleteLeft(d)' <= DeleteLeft(d)
               /\ Delete(d) => DeleteLeft(d)' < DeleteLeft(d)
    <3>1. Delete(d) => DeleteLeft(d)' < DeleteLeft(d)
          BY <1>1, <2>3, DeleteAdvances
    <3>2. Delete(d) \/ DeleteLeft(d)' <= DeleteLeft(d)
          BY <1>1, OthersWait
    <3> QED BY <2>1, <3>1, <3>2 DEF LeftTyped
  <2> QED BY <2>2, <2>3 DEF DeleteRunsOut
<1>2. Core /\ Core' /\ [Next]_vars => [Out]_vars
      BY <1>1
<1> QED BY <1>2, CoreInvariant, PTL DEF Spec, StepsRunOut
=============================================================================
