------------------------------ MODULE Uploads ------------------------------
(***************************************************************************)
(* The local side of Replica uploads: what the handlers behind /upload,    *)
(* /uploads, /delete and /view, the start-up of NewHTTPHandler and a crash  *)
(* do to the uploads directory, the data directory and the torrent client, *)
(* and what the remote Replica service holds meanwhile.                    *)
(*                                                                         *)
(* net/http runs every request on a goroutine of its own and the handlers  *)
(* take no lock, so each system call, service call and torrent client call *)
(* is an action here and any two requests interleave between them.         *)
(*                                                                         *)
(* The service names every upload with a fresh prefix (handler.go:255-256),*)
(* so an upload request is identified with the prefix it will be given,    *)
(* and the torrent, the files and the links of an upload with that prefix. *)
(***************************************************************************)
EXTENDS Naturals

CONSTANTS
    Prefixes,    \* the prefixes the service can hand out
    NoPrefix,    \* "no prefix": the handler is not working on any upload
    Deleters,    \* /delete requests that can run at once
    Viewers,     \* /view and /download requests that can run at once
    Listers,     \* /uploads requests that can run at once
    StoreUploadsLocally,               \* the options of NewHttpHandlerInput
    StoreMetainfoFileAndTokenLocally,
    AddUploadsToTorrentClient,
    MaxFaults,   \* bound: system or client calls that fail
    MaxCrashes   \* bound: times the process dies

ASSUME UploadsAssumption ==
    /\ NoPrefix \notin Prefixes
    /\ StoreUploadsLocally \in BOOLEAN
    /\ StoreMetainfoFileAndTokenLocally \in BOOLEAN
    /\ AddUploadsToTorrentClient \in BOOLEAN
    /\ MaxFaults \in Nat
    /\ MaxCrashes \in Nat

VARIABLES
    node,      \* the process: down, starting (NewHTTPHandler) or serving
    pending,   \* .torrent files start-up has still to look at
    remote,    \* what the service holds under each prefix
    metainfo,  \* <prefix>.torrent in the uploads directory
    token,     \* <prefix>.token in the uploads directory
    data,      \* whether the upload's body is in the data directory
    client,    \* the upload's torrent in the torrent client
    upload,    \* where the /upload request of each prefix stands
    del,       \* where each /delete request stands and what it has read
    view,      \* the upload each /view request holds, or NoPrefix
    list,      \* where each /uploads request stands
    faults,    \* failed calls so far
    swallowed, \* history: failures the code only logs, or does not look at
    crashes,   \* crashes so far
    early,     \* history: uploads viewed or deleted before they were done
    viewed     \* history: uploads viewed since the process started

process  == <<node, pending, crashes>>
files    == <<metainfo, token, data>>
failures == <<faults, swallowed>>
history  == <<early, viewed>>
vars == <<process, files, failures, history, remote, client, upload, del,
          view, list>>

-----------------------------------------------------------------------------
(* A file is "torn" from the moment it is created or truncated until its   *)
(* whole content is written: a reader, or a crash, can find it so.         *)
File == {"none", "torn", "whole"}

(* A torrent is "exposed" between AddTorrentSpec and DisallowDataUpload in  *)
(* addUploadTorrent, "concealed" after it, and "shared" when a view created *)
(* it: a torrent like any other, that uploads to peers.                    *)
Torrent == {"absent", "exposed", "concealed", "shared"}

UploadBusy == {"put", "metainfo", "metainfoWrite", "token", "tokenWrite",
               "data", "torrent", "conceal"}
UploadDone == {"answered", "failed", "panicked"}

DeleteBusy == {"readToken", "loadMetainfo", "call", "accepted", "drop",
               "removeData", "removeMetainfo", "removeToken"}
DeleteDone == {"idle", "ok", "gone", "failed"}

(* What reading the token file gave; "unreadable" is any error but ENOENT. *)
Auth == File \cup {"unreadable"}

DeleteRequest == [pc : DeleteBusy \cup DeleteDone,
                  prefix : Prefixes \cup {NoPrefix},
                  auth : Auth,
                  mi : File]

NoDelete == [pc |-> "idle", prefix |-> NoPrefix,
             auth |-> "none", mi |-> "none"]

(* todo: directory entries not loaded yet; shown: the response so far;      *)
(* steady is history: records that were whole ever since ReadDir.          *)
ListRequest == [pc : {"idle", "loading", "answered"},
                todo : SUBSET Prefixes,
                shown : SUBSET Prefixes,
                steady : SUBSET Prefixes]

NoList == [pc |-> "idle", todo |-> {}, shown |-> {}, steady |-> {}]

(* The calls whose failure does not fail the request that makes them.      *)
Swallowable == {"openToken", "writeToken", "keepData", "loadRecord",
                "addTorrent", "removeData", "removeMetainfo", "removeToken"}

(* The types of the variables.                                             *)
TypeOK ==
    /\ node \in {"down", "starting", "serving"}
    /\ pending \in SUBSET Prefixes
    /\ remote \in [Prefixes -> {"none", "live", "deleted"}]
    /\ metainfo \in [Prefixes -> File]
    /\ token \in [Prefixes -> File]
    /\ data \in [Prefixes -> BOOLEAN]
    /\ client \in [Prefixes -> Torrent]
    /\ upload \in [Prefixes -> {"idle"} \cup UploadBusy \cup UploadDone]
    /\ del \in [Deleters -> DeleteRequest]
    /\ view \in [Viewers -> Prefixes \cup {NoPrefix}]
    /\ list \in [Listers -> ListRequest]
    /\ faults \in Nat
    /\ swallowed \in SUBSET (Prefixes \X Swallowable)
    /\ crashes \in Nat
    /\ early \in SUBSET Prefixes
    /\ viewed \in SUBSET Prefixes

(* A first installation: nothing stored, NewHTTPHandler about to run.      *)
Init ==
    /\ node = "down"
    /\ pending = {}
    /\ remote = [p \in Prefixes |-> "none"]
    /\ metainfo = [p \in Prefixes |-> "none"]
    /\ token = [p \in Prefixes |-> "none"]
    /\ data = [p \in Prefixes |-> FALSE]
    /\ client = [p \in Prefixes |-> "absent"]
    /\ upload = [p \in Prefixes |-> "idle"]
    /\ del = [d \in Deleters |-> NoDelete]
    /\ view = [v \in Viewers |-> NoPrefix]
    /\ list = [l \in Listers |-> NoList]
    /\ faults = 0
    /\ swallowed = {}
    /\ crashes = 0
    /\ early = {}
    /\ viewed = {}

(* A call of the operating system or the torrent client succeeds ...       *)
Works == UNCHANGED failures

(* ... or fails, at most MaxFaults times, and the request with it ...      *)
Fault == /\ faults < MaxFaults
         /\ faults' = faults + 1
Fails == Fault /\ UNCHANGED swallowed

(* ... or fails for the uploads ps and the request goes on regardless.     *)
Swallows(ps, call) == Fault /\ swallowed' = swallowed \cup (ps \X {call})

(* A request can name any upload the service has published: /uploads and   *)
(* /search hand out the link while the upload is still being recorded.     *)
Touch(p) == early' = IF upload[p] \in UploadBusy THEN early \cup {p} ELSE early

-----------------------------------------------------------------------------
(* Start-up: NewHTTPHandler and its IterUploads.                           *)

(* The files IterUploads finds; ReadDir takes the names once.              *)
Recorded == {p \in Prefixes : metainfo[p] # "none"}

(* Mutant of Restart: a start-up that does not look for earlier uploads.   *)
RestartForgetful ==
    /\ node = "down"
    /\ node' = "starting"
    /\ pending' = {}
    /\ UNCHANGED <<crashes, files, failures, history, remote, client, upload,
                   del, view, list>>

Restart ==
    /\ node = "down"
    /\ node' = "starting"
    /\ pending' = IF AddUploadsToTorrentClient THEN Recorded ELSE {}
    /\ UNCHANGED <<crashes, files, failures, history, remote, client, upload,
                   del, view, list>>

(* IterUploads goes from one record to the next when addUploadTorrent has  *)
(* returned, with a torrent client that peers can reach already. A stored  *)
(* upload is added; no request has added it before. A file that does not   *)
(* load, or that the client refuses, is logged and passed over.            *)
StartAdds(p) ==
    /\ node = "starting"
    /\ p \in pending
    /\ \A q \in Prefixes : client[q] # "exposed"
    /\ \/ /\ Works /\ metainfo[p] = "whole"
          /\ client' = [client EXCEPT ![p] = "exposed"]
          /\ UNCHANGED pending
       \/ /\ (Works /\ metainfo[p] # "whole") \/ Swallows({p}, "addTorrent")
          /\ pending' = pending \ {p}
          /\ UNCHANGED client
    /\ UNCHANGED <<node, crashes, files, history, remote, upload, del, view,
                   list>>

(* Mutant of StartConceals: DisallowDataUpload is left to the handlers.    *)
StartStaysExposed(p) ==
    /\ node = "starting"
    /\ p \in pending /\ client[p] = "exposed"
    /\ pending' = pending \ {p}
    /\ UNCHANGED <<node, crashes, files, failures, history, remote, client,
                   upload, del, view, list>>

(* ... and concealed.                                                      *)
StartConceals(p) ==
    /\ node = "starting"
    /\ p \in pending /\ client[p] = "exposed"
    /\ client' = [client EXCEPT ![p] = "concealed"]
    /\ pending' = pending \ {p}
    /\ UNCHANGED <<node, crashes, files, failures, history, remote, upload,
                   del, view, list>>

(* ReadDir fails: NewHTTPHandler closes what it opened and returns the     *)
(* error; nothing has been added yet.                                      *)
StartFails ==
    /\ node = "starting"
    /\ AddUploadsToTorrentClient
    /\ Fails
    /\ pending = Recorded
    /\ \A q \in Prefixes : client[q] = "absent"
    /\ node' = "down"
    /\ pending' = {}
    /\ UNCHANGED <<crashes, files, history, remote, client, upload, del, view,
                   list>>

StartDone ==
    /\ node = "starting"
    /\ pending = {}
    /\ node' = "serving"
    /\ UNCHANGED <<pending, crashes, files, failures, history, remote, client,
                   upload, del, view, list>>

(* The process dies: its requests and its torrents go, its files stay.     *)
Crash ==
    /\ node # "down"
    /\ crashes < MaxCrashes
    /\ crashes' = crashes + 1
    /\ node' = "down"
    /\ pending' = {}
    /\ client' = [p \in Prefixes |-> "absent"]
    /\ upload' = [p \in Prefixes |->
                    IF upload[p] \in UploadBusy THEN "failed" ELSE upload[p]]
    /\ del' = [d \in Deleters |-> NoDelete]
    /\ view' = [v \in Viewers |-> NoPrefix]
    /\ list' = [l \in Listers |-> NoList]
    /\ viewed' = {}
    /\ UNCHANGED <<files, failures, early, remote>>

-----------------------------------------------------------------------------
(* handleUpload.                                                           *)

UploadAt(p, pc) == upload[p] = pc
UploadTo(p, pc) == upload' = [upload EXCEPT ![p] = pc]

(* What no step of an /upload request touches.                             *)
UploadKeeps == UNCHANGED <<process, history, del, view, list>>

UploadRequest(p) ==
    /\ node = "serving"
    /\ UploadAt(p, "idle")
    /\ UploadTo(p, "put")
    /\ UploadKeeps /\ UNCHANGED <<files, failures, remote, client>>

(* The service stores the body and publishes the upload.                   *)
ServicePublishes(p) ==
    /\ UploadAt(p, "put")
    /\ remote[p] = "none"
    /\ remote' = [remote EXCEPT ![p] = "live"]
    /\ UploadKeeps /\ UNCHANGED <<files, failures, client, upload>>

(* No answer, a status that is not 200, or a body that does not parse: the *)
(* service may have published the upload all the same.                     *)
UploadPutFails(p) ==
    /\ UploadAt(p, "put")
    /\ UploadTo(p, "failed")
    /\ UploadKeeps /\ UNCHANGED <<files, failures, remote, client>>

UploadPutReturns(p) ==
    /\ UploadAt(p, "put")
    /\ remote[p] # "none"
    /\ UploadTo(p, IF StoreMetainfoFileAndTokenLocally THEN "metainfo"
                   ELSE "data")
    /\ UploadKeeps /\ UNCHANGED <<files, failures, remote, client>>

(* storeUploadedTorrent creates or truncates the file ...                  *)
UploadOpensMetainfo(p) ==
    /\ UploadAt(p, "metainfo")
    /\ \/ /\ Works
          /\ metainfo' = [metainfo EXCEPT ![p] = "torn"]
          /\ UploadTo(p, "metainfoWrite")
       \/ Fails /\ UploadTo(p, "failed") /\ UNCHANGED metainfo
    /\ UploadKeeps /\ UNCHANGED <<token, data, remote, client>>

(* ... and writes it. The descriptor outlives a delete's Remove, so what   *)
(* is written to a removed file is lost.                                   *)
UploadWritesMetainfo(p) ==
    /\ UploadAt(p, "metainfoWrite")
    /\ \/ /\ Works
          /\ metainfo' = [metainfo EXCEPT
                            ![p] = IF @ = "none" THEN "none" ELSE "whole"]
          /\ UploadTo(p, "token")
       \/ Fails /\ UploadTo(p, "failed") /\ UNCHANGED metainfo
    /\ UploadKeeps /\ UNCHANGED <<token, data, remote, client>>

(* writeNewUploadAuthTokenFile creates the file, which must not exist; any *)
(* error of it is logged and the request goes on.                          *)
UploadOpensToken(p) ==
    /\ UploadAt(p, "token")
    /\ \/ /\ Works /\ token[p] = "none"
          /\ token' = [token EXCEPT ![p] = "torn"]
          /\ UploadTo(p, "tokenWrite")
       \/ /\ Swallows({p}, "openToken")
          /\ UploadTo(p, "data") /\ UNCHANGED token
    /\ UploadKeeps /\ UNCHANGED <<metainfo, data, remote, client>>

UploadWritesToken(p) ==
    /\ UploadAt(p, "tokenWrite")
    /\ \/ /\ Works
          /\ token' = [token EXCEPT ![p] = IF @ = "none" THEN "none"
                                           ELSE "whole"]
       \/ Swallows({p}, "writeToken") /\ UNCHANGED token
    /\ UploadTo(p, "data")
    /\ UploadKeeps /\ UNCHANGED <<metainfo, data, remote, client>>

(* The body is moved into the data directory. Without a temporary file, or *)
(* when the rename fails, the upload goes on without it; without a place   *)
(* to put it the request fails.                                            *)
UploadKeepsData(p) ==
    /\ UploadAt(p, "data")
    /\ \/ /\ Works
          /\ data' = [data EXCEPT ![p] = StoreUploadsLocally]
          /\ UploadTo(p, "torrent")
       \/ /\ StoreUploadsLocally
          /\ UNCHANGED data
          /\ \/ Swallows({p}, "keepData") /\ UploadTo(p, "torrent")
             \/ Fails /\ UploadTo(p, "failed")
    /\ UploadKeeps /\ UNCHANGED <<metainfo, token, remote, client>>

(* addUploadTorrent: a torrent the client already has is a panic, which    *)
(* net/http recovers from at the end of the request.                       *)
UploadAddsTorrent(p) ==
    /\ UploadAt(p, "torrent")
    /\ \/ /\ ~AddUploadsToTorrentClient
          /\ Works /\ UploadTo(p, "answered") /\ UNCHANGED client
       \/ /\ AddUploadsToTorrentClient /\ client[p] = "absent"
          /\ Works /\ UploadTo(p, "conceal")
          /\ client' = [client EXCEPT ![p] = "exposed"]
       \/ /\ AddUploadsToTorrentClient /\ client[p] # "absent"
          /\ Works /\ UploadTo(p, "panicked") /\ UNCHANGED client
       \/ /\ AddUploadsToTorrentClient
          /\ Fails /\ UploadTo(p, "failed") /\ UNCHANGED client
    /\ UploadKeeps /\ UNCHANGED <<files, remote>>

(* Mutant of UploadConceals: the torrent is added once more.               *)
UploadAddsTwice(p) ==
    /\ UploadAt(p, "conceal")
    /\ client' = [client EXCEPT ![p] = IF @ = "exposed" THEN "concealed"
                                       ELSE @]
    /\ UploadTo(p, "torrent")
    /\ UploadKeeps /\ UNCHANGED <<files, failures, remote>>

(* DisallowDataUpload acts on the torrent just added, if it is still the   *)
(* client's; then the answer is sent.                                      *)
UploadConceals(p) ==
    /\ UploadAt(p, "conceal")
    /\ client' = [client EXCEPT ![p] = IF @ = "exposed" THEN "concealed"
                                       ELSE @]
    /\ UploadTo(p, "answered")
    /\ UploadKeeps /\ UNCHANGED <<files, failures, remote>>

-----------------------------------------------------------------------------
(* handleDelete.                                                           *)

DeleteAt(d, pc) == del[d].pc = pc
DeleteTo(d, pc) == del' = [del EXCEPT ![d].pc = pc]

(* What no step of a /delete request touches.                              *)
DeleteKeeps == UNCHANGED <<process, viewed, upload, view>>

(* Deleting a file that a listing is about to load.                        *)
Unsteady(p) == list' = [l \in Listers |->
                          [list[l] EXCEPT !.steady = @ \ {p}]]

DeleteRequested(d, p) ==
    /\ node = "serving"
    /\ del[d].pc \in DeleteDone
    /\ remote[p] # "none"
    /\ del' = [del EXCEPT ![d] = [pc |-> "readToken", prefix |-> p,
                                  auth |-> "none", mi |-> "none"]]
    /\ Touch(p)
    /\ DeleteKeeps /\ UNCHANGED <<files, failures, remote, client, list>>

DeleteReadsToken(d) ==
    /\ DeleteAt(d, "readToken")
    /\ \/ Works /\ del' = [del EXCEPT ![d].pc = "loadMetainfo",
                                      ![d].auth = token[del[d].prefix]]
       \/ Fails /\ del' = [del EXCEPT ![d].pc = "loadMetainfo",
                                      ![d].auth = "unreadable"]
    /\ DeleteKeeps /\ UNCHANGED <<files, early, remote, client, list>>

(* A token that reads, even empty, or a metainfo that loads is enough to   *)
(* ask the service; with neither file the answer is 410 Gone. A metainfo   *)
(* that cannot be read is as good as a torn one.                           *)
DeleteLoadsMetainfo(d) ==
    /\ DeleteAt(d, "loadMetainfo")
    /\ \E mi \in File :
         /\ \/ Works /\ mi = metainfo[del[d].prefix]
            \/ Fails /\ mi = "torn"
         /\ del' = [del EXCEPT
              ![d].mi = mi,
              ![d].pc = IF del[d].auth \in {"torn", "whole"} \/ mi = "whole"
                        THEN "call"
                        ELSE IF del[d].auth = "none" /\ mi = "none"
                        THEN "gone" ELSE "failed"]
    /\ DeleteKeeps /\ UNCHANGED <<files, early, remote, client, list>>

(* What the service asks of a request: the upload's token or, for uploads  *)
(* that have none, have_metainfo, which is sent when the token file does   *)
(* not exist and the metainfo loads.                                       *)
Authorised(d) == \/ del[d].auth = "whole"
                 \/ del[d].auth = "none" /\ del[d].mi = "whole"

ServiceDeletes(d) ==
    /\ DeleteAt(d, "call")
    /\ Authorised(d)
    /\ remote' = [remote EXCEPT ![del[d].prefix] = "deleted"]
    /\ DeleteTo(d, "accepted")
    /\ DeleteKeeps /\ UNCHANGED <<files, failures, early, client, list>>

(* Mutant of DeleteCallFails: the error of DeleteUpload is not looked at.  *)
DeleteIgnoresCall(d) ==
    /\ del[d].pc \in {"call", "accepted"}
    /\ DeleteTo(d, "drop")
    /\ DeleteKeeps
    /\ UNCHANGED <<files, failures, early, remote, client, list>>

(* The service refuses, a repeated deletion perhaps, or cannot be reached, *)
(* or it has deleted the upload and the answer is lost.                    *)
DeleteCallFails(d) ==
    /\ del[d].pc \in {"call", "accepted"}
    /\ DeleteTo(d, "failed")
    /\ DeleteKeeps
    /\ UNCHANGED <<files, failures, early, remote, client, list>>

DeleteCallReturns(d) ==
    /\ DeleteAt(d, "accepted")
    /\ DeleteTo(d, "drop")
    /\ DeleteKeeps
    /\ UNCHANGED <<files, failures, early, remote, client, list>>

(* Mutant of DeleteDropsTorrent: the records are removed, the body stays.  *)
DeleteForgetsData(d) ==
    /\ DeleteAt(d, "drop")
    /\ client' = [client EXCEPT ![del[d].prefix] = "absent"]
    /\ DeleteTo(d, "removeMetainfo")
    /\ DeleteKeeps /\ UNCHANGED <<files, failures, early, remote, list>>

DeleteDropsTorrent(d) ==
    /\ DeleteAt(d, "drop")
    /\ client' = [client EXCEPT ![del[d].prefix] = "absent"]
    /\ DeleteTo(d, "removeData")
    /\ DeleteKeeps /\ UNCHANGED <<files, failures, early, remote, list>>

(* The results of the three removals are not looked at.                    *)
DeleteRemovesData(d) ==
    /\ DeleteAt(d, "removeData")
    /\ \/ Works /\ data' = [data EXCEPT ![del[d].prefix] = FALSE]
       \/ Swallows({del[d].prefix}, "removeData") /\ UNCHANGED data
    /\ DeleteTo(d, "removeMetainfo")
    /\ DeleteKeeps
    /\ UNCHANGED <<metainfo, token, early, remote, client, list>>

DeleteRemovesMetainfo(d) ==
    /\ DeleteAt(d, "removeMetainfo")
    /\ \/ /\ Works
          /\ metainfo' = [metainfo EXCEPT ![del[d].prefix] = "none"]
          /\ Unsteady(del[d].prefix)
       \/ /\ Swallows({del[d].prefix}, "removeMetainfo")
          /\ UNCHANGED <<metainfo, list>>
    /\ DeleteTo(d, "removeToken")
    /\ DeleteKeeps /\ UNCHANGED <<token, data, early, remote, client>>

(* An unreadable token is still reported, whatever has been removed.       *)
DeleteRemovesToken(d) ==
    /\ DeleteAt(d, "removeToken")
    /\ \/ Works /\ token' = [token EXCEPT ![del[d].prefix] = "none"]
       \/ Swallows({del[d].prefix}, "removeToken") /\ UNCHANGED token
    /\ DeleteTo(d, IF del[d].auth = "unreadable" THEN "failed" ELSE "ok")
    /\ DeleteKeeps
    /\ UNCHANGED <<metainfo, data, early, remote, client, list>>

-----------------------------------------------------------------------------
(* handleViewWith, as far as the client's torrents go.                     *)

ViewStarts(v, p) ==
    /\ node = "serving"
    /\ view[v] = NoPrefix
    /\ remote[p] # "none"
    /\ view' = [view EXCEPT ![v] = p]
    /\ client' = [client EXCEPT ![p] = IF @ = "absent" THEN "shared" ELSE @]
    /\ Touch(p)
    /\ viewed' = viewed \cup {p}
    /\ UNCHANGED <<process, files, failures, remote, upload, del, list>>

(* The last release of a torrent may make Confluence drop it.              *)
ViewEnds(v) ==
    /\ view[v] # NoPrefix
    /\ view' = [view EXCEPT ![v] = NoPrefix]
    /\ \/ UNCHANGED client
       \/ /\ \A w \in Viewers \ {v} : view[w] # view[v]
          /\ client' = [client EXCEPT ![view[v]] = "absent"]
    /\ UNCHANGED <<process, files, failures, history, remote, upload, del,
                   list>>

-----------------------------------------------------------------------------
(* handleUploads.                                                          *)

ListKeeps == UNCHANGED <<process, files, history, remote, client, upload, del,
                         view>>

(* ReadDir takes the names once; when it fails the answer is empty.        *)
ListStarts(l) ==
    /\ node = "serving"
    /\ list[l].pc # "loading"
    /\ \E names \in {{}, Recorded} :
         /\ \/ Works /\ names = Recorded
            \/ Swallows(Recorded, "loadRecord") /\ names = {}
         /\ list' = [list EXCEPT ![l] =
              [pc |-> "loading", todo |-> names, shown |-> {},
               steady |-> {p \in Recorded : metainfo[p] = "whole"}]]
    /\ ListKeeps

(* Mutant of ListLoads: the first file that does not load ends the listing.*)
ListStopsAtError(l, p) ==
    /\ list[l].pc = "loading"
    /\ p \in list[l].todo
    /\ Works
    /\ list' = [list EXCEPT
         ![l].todo = IF metainfo[p] = "whole" THEN @ \ {p} ELSE {},
         ![l].shown = IF metainfo[p] = "whole" THEN @ \cup {p} ELSE @]
    /\ ListKeeps

(* A file that is gone, torn or unreadable by now is logged and left out.  *)
ListLoads(l, p) ==
    /\ list[l].pc = "loading"
    /\ p \in list[l].todo
    /\ \/ /\ Works
          /\ list' = [list EXCEPT ![l].todo = @ \ {p},
                       ![l].shown = @ \cup ({p} \cap {q \in Recorded :
                                                metainfo[q] = "whole"})]
       \/ /\ Swallows({p}, "loadRecord")
          /\ list' = [list EXCEPT ![l].todo = @ \ {p}]
    /\ ListKeeps

ListAnswers(l) ==
    /\ list[l].pc = "loading"
    /\ list[l].todo = {}
    /\ list' = [list EXCEPT ![l].pc = "answered"]
    /\ ListKeeps /\ UNCHANGED failures

-----------------------------------------------------------------------------
Process == \/ Restart \/ StartFails \/ StartDone \/ Crash
           \/ \E p \in Prefixes : StartAdds(p) \/ StartConceals(p)

Upload(p) == \/ UploadRequest(p) \/ ServicePublishes(p)
             \/ UploadPutFails(p) \/ UploadPutReturns(p)
             \/ UploadOpensMetainfo(p) \/ UploadWritesMetainfo(p)
             \/ UploadOpensToken(p) \/ UploadWritesToken(p)
             \/ UploadKeepsData(p) \/ UploadAddsTorrent(p)
             \/ UploadConceals(p)

Delete(d) == \/ \E p \in Prefixes : DeleteRequested(d, p)
             \/ DeleteReadsToken(d) \/ DeleteLoadsMetainfo(d)
             \/ ServiceDeletes(d) \/ DeleteCallFails(d) \/ DeleteCallReturns(d)
             \/ DeleteDropsTorrent(d) \/ DeleteRemovesData(d)
             \/ DeleteRemovesMetainfo(d) \/ DeleteRemovesToken(d)

View(v) == ViewEnds(v) \/ \E p \in Prefixes : ViewStarts(v, p)

List(l) == \/ ListStarts(l) \/ ListAnswers(l)
           \/ \E p \in Prefixes : ListLoads(l, p)

Next == \/ Process
        \/ \E p \in Prefixes : Upload(p)
        \/ \E d \in Deleters : Delete(d)
        \/ \E v \in Viewers : View(v)
        \/ \E l \in Listers : List(l)

Spec == Init /\ [][Next]_vars

-----------------------------------------------------------------------------
(* No request is working on p.                                             *)
Quiet(p) == /\ node = "serving"
            /\ upload[p] \notin UploadBusy
            /\ \A d \in Deleters :
                 del[d].prefix = p => del[d].pc \in DeleteDone
            /\ \A v \in Viewers : view[v] # p

Ignored(p, call) == <<p, call>> \in swallowed

(* A body in the data directory always has a metainfo or a token beside it *)
(* in the uploads directory, so /delete can still be asked to remove it,   *)
(* at every point of every request and after a crash anywhere: handleUpload*)
(* stores the records first (513-527) and handleDelete removes them last   *)
(* (650-652). The two things that break it are a request that names the    *)
(* upload before it is finished and an error of RemoveAll, which the code  *)
(* drops.                                                                  *)
DataHasRecord ==
    StoreMetainfoFileAndTokenLocally =>
      \A p \in Prefixes :
        data[p] /\ p \notin early /\ ~Ignored(p, "removeData")
          => metainfo[p] # "none" \/ token[p] # "none"

(* An upload whose /upload was answered, and that the service still has,   *)
(* can be deleted: what is in the uploads directory is what the service    *)
(* accepts, a whole token, or a whole metainfo and no token at all.        *)
(* Crashes, failed deletions, and a token file that could not be created   *)
(* leave it so (handler.go:524-526, 637-641); only a token that could not  *)
(* be written does not.                                                    *)
DeletableWhenAnswered ==
    StoreMetainfoFileAndTokenLocally =>
      \A p \in Prefixes :
        /\ upload[p] = "answered"
        /\ remote[p] = "live"
        /\ ~Ignored(p, "writeToken")
        => \/ token[p] = "whole"
           \/ token[p] = "none" /\ metainfo[p] = "whole"

(* What the uploads directory, the data directory and the torrent client   *)
(* have of an upload.                                                      *)
NothingLeft(p) == /\ metainfo[p] = "none"
                  /\ token[p] = "none"
                  /\ ~data[p]
                  /\ client[p] \in {"absent", "shared"}

(* When /delete answers 200 nothing of the upload is left, whatever other  *)
(* deletions, views and crashes there are or have been (handler.go:646-652)*)
(* unless a removal failed, which is not looked at, or the upload was      *)
(* being deleted or viewed before it was finished.                         *)
DeletedLeavesNothing ==
    \A d \in Deleters : \A p \in Prefixes :
      /\ del[d].pc = "ok" /\ del[d].prefix = p
      /\ p \notin early
      /\ \A call \in {"removeData", "removeMetainfo", "removeToken"} :
           ~Ignored(p, call)
      => remote[p] = "deleted" /\ NothingLeft(p)

(* The torrent client uploads nothing that identifies the uploader: the    *)
(* torrent of an upload can send data to peers only in the windows of      *)
(* addUploadTorrent between AddTorrentSpec and DisallowDataUpload          *)
(* (handler.go:569, 581), that of its own /upload and one at every start   *)
(* (312), which no failure, deletion or crash leaves open; or when the     *)
(* user views an upload the client does not have (870).                    *)
UploaderConcealed ==
    \A p \in Prefixes :
      /\ client[p] = "exposed" =>
           upload[p] = "conceal" \/ (node = "starting" /\ p \in pending)
      /\ client[p] = "shared" => p \in viewed

(* The panic of addUploadTorrent, "adding an upload should always be a new *)
(* torrent" (handler.go:573-575), is met by no upload, deletion, restart or*)
(* repetition of one: only by an upload that was viewed or deleted while   *)
(* its /upload was running.                                                *)
PanicNeedsEarlyRequest ==
    \A p \in Prefixes : upload[p] = "panicked" => p \in early

(* What the client seeds is what the uploads directory records: between    *)
(* requests, and after any crash and restart, the client has the concealed *)
(* torrent of an answered upload exactly when its metainfo is stored       *)
(* (handler.go:306-322, 519, 549, 646-651). Only failures that are logged  *)
(* or ignored, and views, make them differ.                                *)
ClientMatchesRecords ==
    AddUploadsToTorrentClient /\ StoreMetainfoFileAndTokenLocally =>
      \A p \in Prefixes :
        /\ Quiet(p)
        /\ upload[p] = "answered"
        /\ p \notin early \cup viewed
        /\ ~Ignored(p, "addTorrent") /\ ~Ignored(p, "removeMetainfo")
        => (client[p] = "concealed") <=> (metainfo[p] = "whole")

(* A listing shows every upload whose record was whole from the ReadDir to *)
(* the answer, however many uploads come and go meanwhile, and whatever    *)
(* torn files lie beside it (IterUploads continues past a file that does   *)
(* not load, upload.go:143-153).                                           *)
ListingShowsSteady ==
    \A l \in Listers :
      list[l].pc = "answered" =>
        \A p \in list[l].steady : p \in list[l].shown
                                    \/ Ignored(p, "loadRecord")
-----------------------------------------------------------------------------
(* What the repository says that the code does not keep.                   *)

(* handler.go:107-108, of StoreMetainfoFileAndTokenLocally: "Create a      *)
(* metainfo file and admin token / Admin token is used if the uploader     *)
(* wants to delete their file later on". With the option set an upload     *)
(* that was answered can be deleted. A token file that was created and not *)
(* written is logged (524-526) and left empty, and then stands in the way  *)
(* of the metainfo, which is used only when there is no token file (640).  *)
AnsweredIsDeletable ==
    StoreMetainfoFileAndTokenLocally =>
      \A p \in Prefixes :
        upload[p] = "answered" /\ remote[p] = "live"
          => \/ token[p] = "whole"
             \/ token[p] = "none" /\ metainfo[p] = "whole"

-----------------------------------------------------------------------------
(* The abstract registry's view of this state: what is whole is kept.      *)
Kept == [p \in Prefixes |->
           {k \in {"metainfo", "token", "data"} :
              \/ k = "metainfo" /\ metainfo[p] = "whole"
              \/ k = "token" /\ token[p] = "whole"
              \/ k = "data" /\ data[p]}]

Registry == INSTANCE UploadRegistry WITH kept <- Kept

(* The handlers implement the registry: no step of any request, and no     *)
(* crash, gives up a record, a token or a body of an upload the service    *)
(* still has, and the service is never brought to delete an upload when    *)
(* what authorises it is not on disk any more (handler.go:626-652).        *)
ImplementsRegistry == Registry!Spec
=============================================================================
