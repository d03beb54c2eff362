----------------------------- MODULE Lifecycle -----------------------------
(***************************************************************************)
(* The life of an HttpHandler of server/handler.go: NewHTTPHandler makes   *)
(* directories, the storages and the torrent client, adds the uploads (as  *)
(* the start of Uploads does) and starts metricsExporter; the application  *)
(* calls Close, while requests and the exporter run. Requests come to the  *)
(* storages through the torrent client alone. NewClient may return a       *)
(* client along with its error, as the code expects of it (229): such a    *)
(* client is half-made, and to be closed.                                  *)
(***************************************************************************)
EXTENDS Naturals, Sequences

CONSTANT MaxReports    \* bound: calls of doMetricsOp

ASSUME LifecycleAssumption == MaxReports \in Nat \ {0}

VARIABLES
    pc,              \* where NewHTTPHandler or Close stands
    candidates,      \* candidateCacheDirs
    creatable,       \* the cache directories that can be made
    cacheDir,        \* the one in use, "none" before
    defaultStorage,  \* the storage in the cache directory
    uploadStorage,
    client,          \* the torrent client
    halfMade,        \* half-made clients that are not closed
    failed,          \* NewHTTPHandler returns an error
    storageCloses,   \* history: calls of defaultStorage.Close
    closed,          \* me.closed
    exporter,        \* where metricsExporter stands
    reports,         \* doMetricsOp calls so far
    lateReports      \* history: those begun after closed.Set

dirs == <<candidates, creatable, cacheDir>>
storages == <<defaultStorage, uploadStorage, storageCloses>>
clients == <<client, halfMade>>
metrics == <<exporter, reports, lateReports>>
vars == <<pc, dirs, storages, clients, failed, closed, metrics>>

Dirs == {"input", "user", "temp"}
Resource == {"none", "open", "closed"}

(* The types of the variables.                                             *)
TypeOK ==
    /\ pc \in {"cache", "dirs", "storage", "client", "retry", "uploads",
               "start", "deferred", "running", "returned", "closed",
               "closeClient", "closeUploads", "closeDefault", "setClosed"}
    /\ candidates \in Seq(Dirs)
    /\ creatable \subseteq Dirs
    /\ cacheDir \in Dirs \cup {"none"}
    /\ {defaultStorage, uploadStorage, client} \subseteq Resource
    /\ halfMade \in 0 .. 1
    /\ failed \in BOOLEAN /\ closed \in BOOLEAN
    /\ storageCloses \in 0 .. 2
    /\ exporter \in {"none", "begin", "report", "wait", "ended"}
    /\ reports \in 0 .. MaxReports
    /\ lateReports \in 0 .. MaxReports

Init ==
    /\ pc = "cache"
    /\ candidates \in {<<"temp">>, <<"user", "temp">>, <<"input", "temp">>,
                       <<"input", "user", "temp">>}
    /\ creatable \in SUBSET Dirs
    /\ cacheDir = "none"
    /\ defaultStorage = "none" /\ uploadStorage = "none" /\ client = "none"
    /\ halfMade = 0 /\ storageCloses = 0
    /\ failed = FALSE /\ closed = FALSE
    /\ exporter = "none" /\ reports = 0 /\ lateReports = 0

-----------------------------------------------------------------------------
(* NewHTTPHandler.                                                         *)

(* prepareCacheDir: the first that can be made, or else the first.         *)
Best(cs) == LET ok == {i \in DOMAIN cs : cs[i] \in creatable}
            IN  IF ok = {} THEN cs[1]
                ELSE cs[CHOOSE i \in ok : \A j \in ok : i <= j]

PreparesCacheDir ==
    /\ pc = "cache"
    /\ cacheDir' = Best(candidates)
    /\ pc' = "dirs"
    /\ UNCHANGED <<candidates, creatable, storages, clients, failed, closed,
                   metrics>>

Goes(step) == pc' = step /\ UNCHANGED failed
Fails(step) == pc' = step /\ failed' = TRUE

(* uploadsDir, and the data directory below the cache directory.           *)
MakesDirs ==
    /\ pc = "dirs"
    /\ Fails("returned") \/ (cacheDir \in creatable /\ Goes("storage"))
    /\ UNCHANGED <<dirs, storages, clients, closed, metrics>>

(* The cache file of an earlier handler is removed and one made anew.      *)
OpensStorage ==
    /\ pc = "storage"
    /\ \/ Fails("returned") /\ UNCHANGED defaultStorage
       \/ Goes("client") /\ defaultStorage' = "open"
    /\ UNCHANGED <<dirs, uploadStorage, storageCloses, clients, closed,
                   metrics>>

(* The uploads are added if AddUploadsToTorrentClient says so.             *)
OpensClient ==
    /\ pc \in {"client", "retry"}
    /\ client' = "open" /\ uploadStorage' = "open"
    /\ Goes("uploads") \/ Goes("start")
    /\ UNCHANGED <<dirs, defaultStorage, storageCloses, halfMade, closed,
                   metrics>>

(* Mutant of FirstClientFails: what NewClient returned is not closed.      *)
FirstClientStays ==
    /\ pc = "client"
    /\ Goes("retry")
    /\ halfMade' \in {0, 1}
    /\ UNCHANGED <<dirs, storages, client, closed, metrics>>

(* The half-made client, if any, is closed before an ephemeral port is     *)
(* tried.                                                                  *)
FirstClientFails ==
    /\ pc = "client"
    /\ Goes("retry")
    /\ UNCHANGED <<dirs, storages, clients, closed, metrics>>

(* The second error is returned, and its half-made client is not closed.   *)
SecondClientFails ==
    /\ pc = "retry"
    /\ Fails("deferred")
    /\ halfMade' \in {halfMade, halfMade + 1}
    /\ UNCHANGED <<dirs, storages, client, closed, metrics>>

(* Mutant of AddsUploads: the error is returned and nothing closed.        *)
AddsUploadsOrReturns ==
    /\ pc = "uploads"
    /\ Goes("start") \/ Fails("deferred")
    /\ UNCHANGED <<dirs, storages, clients, closed, metrics>>

(* The uploads are added, or cannot be iterated: handler.Close is called.  *)
AddsUploads ==
    /\ pc = "uploads"
    /\ Goes("start") \/ Fails("closeClient")
    /\ UNCHANGED <<dirs, storages, clients, closed, metrics>>

StartsExporter ==
    /\ pc = "start"
    /\ exporter' = "begin"
    /\ Goes("deferred")
    /\ UNCHANGED <<dirs, storages, clients, closed, reports, lateReports>>

ClosesStorage == /\ defaultStorage' = "closed"
                 /\ storageCloses' = storageCloses + 1

(* What NewHTTPHandler defers once it has the storage.                     *)
RunsDeferred ==
    /\ pc = "deferred"
    /\ Goes(IF failed THEN "returned" ELSE "running")
    /\ IF failed THEN ClosesStorage
       ELSE UNCHANGED <<defaultStorage, storageCloses>>
    /\ UNCHANGED <<dirs, uploadStorage, clients, closed, metrics>>

-----------------------------------------------------------------------------
(* Close.                                                                  *)

CloseCalled ==
    /\ pc = "running"
    /\ Goes("closeClient")
    /\ UNCHANGED <<dirs, storages, clients, closed, metrics>>

(* Mutant of ClosesClient: it is closed last.                              *)
ClosesClientLast ==
    /\ pc \in {"closeClient", "setClosed"}
    /\ client' = IF pc = "setClosed" THEN "closed" ELSE client
    /\ Goes("closeUploads")
    /\ UNCHANGED <<dirs, storages, halfMade, closed, metrics>>

ClosesClient ==
    /\ pc = "closeClient"
    /\ client' = "closed"
    /\ Goes("closeUploads")
    /\ UNCHANGED <<dirs, storages, halfMade, closed, metrics>>

ClosesUploadStorage ==
    /\ pc = "closeUploads"
    /\ uploadStorage' = "closed"
    /\ Goes("closeDefault")
    /\ UNCHANGED <<dirs, defaultStorage, storageCloses, clients, closed,
                   metrics>>

ClosesDefaultStorage ==
    /\ pc = "closeDefault"
    /\ ClosesStorage
    /\ Goes("setClosed")
    /\ UNCHANGED <<dirs, uploadStorage, clients, closed, metrics>>

SetsClosed ==
    /\ pc = "setClosed"
    /\ closed' = TRUE
    /\ Goes(IF failed THEN "deferred" ELSE "closed")
    /\ UNCHANGED <<dirs, storages, clients, metrics>>

-----------------------------------------------------------------------------
(* metricsExporter.                                                        *)

MetricsKeep == UNCHANGED <<pc, dirs, storages, clients, failed, closed>>

(* The goroutine, started or woken by its timer, calls doMetricsOp.        *)
BeginsReport ==
    /\ exporter = "begin"
    /\ exporter' = "report"
    /\ reports' = reports + 1
    /\ lateReports' = IF closed THEN lateReports + 1 ELSE lateReports
    /\ MetricsKeep

EndsReport ==
    /\ exporter = "report"
    /\ exporter' = "wait"
    /\ MetricsKeep /\ UNCHANGED <<reports, lateReports>>

(* Mutant of TimerFires: the select does not have closed.Done.             *)
TimerFiresAnyway ==
    /\ exporter = "wait"
    /\ reports < MaxReports
    /\ exporter' = "begin"
    /\ MetricsKeep /\ UNCHANGED <<reports, lateReports>>

(* 5 minutes pass; once closed is set the select takes that.               *)
TimerFires ==
    /\ exporter = "wait" /\ ~closed
    /\ reports < MaxReports
    /\ exporter' = "begin"
    /\ MetricsKeep /\ UNCHANGED <<reports, lateReports>>

(* Mutant of ExporterEnds: the time of the next report is waited for.      *)
ExporterEndsInTime ==
    /\ exporter = "begin" /\ closed
    /\ exporter' = "ended"
    /\ MetricsKeep /\ UNCHANGED <<reports, lateReports>>

ExporterEnds ==
    /\ exporter = "wait" /\ closed
    /\ exporter' = "ended"
    /\ MetricsKeep /\ UNCHANGED <<reports, lateReports>>

-----------------------------------------------------------------------------
New == \/ PreparesCacheDir \/ MakesDirs \/ OpensStorage
       \/ OpensClient \/ FirstClientFails \/ SecondClientFails
       \/ AddsUploads \/ StartsExporter \/ RunsDeferred

Close == \/ ClosesClient \/ ClosesUploadStorage \/ ClosesDefaultStorage
         \/ SetsClosed

Exporter == BeginsReport \/ EndsReport \/ ExporterEnds

Next == New \/ CloseCalled \/ Close \/ Exporter \/ TimerFires

(* Goroutines run and calls return. Nobody has to call Close, and no timer *)
(* has to fire.                                                            *)
Fairness == WF_vars(New) /\ WF_vars(Close) /\ WF_vars(Exporter)

Spec == Init /\ [][Next]_vars
FairSpec == Spec /\ Fairness

-----------------------------------------------------------------------------
(* No storage is closed under the torrent client that requests, still      *)
(* running, read through: neither by Close (333-338), on any path to it,   *)
(* nor by what NewHTTPHandler defers (205-209).                            *)
StorageOutlivesClient ==
    "closed" \in {defaultStorage, uploadStorage} => client # "open"

(* When NewHTTPHandler returns an error nothing it opened is left, and no  *)
(* goroutine; but a client that a failing second NewClient returned (235). *)
FailureLeavesNothing ==
    pc = "returned" =>
      /\ "open" \notin {defaultStorage, uploadStorage, client}
      /\ exporter = "none"
      /\ halfMade = 1 => client = "none" /\ storageCloses = 1

(* When it returns a handler, that has all it needs, in the first cache    *)
(* directory that could be made, and no half-made client beside it, whose  *)
(* port and files were lost to it (147-158, 226-238).                      *)
HandlerIsWhole ==
    pc = "running" =>
      /\ {defaultStorage, uploadStorage, client} = {"open"}
      /\ halfMade = 0
      /\ \E i \in DOMAIN candidates :
           /\ cacheDir = candidates[i] /\ cacheDir \in creatable
           /\ \A j \in 1 .. i - 1 : candidates[j] \notin creatable

(* The storage is closed twice on one path only: uploads that cannot be    *)
(* iterated, where handler.Close and the deferred function both do (318).  *)
ClosedOnceByClose ==
    storageCloses = 2 => failed /\ closed /\ exporter = "none"

(* After Close metrics of the closed client are reported once at most, by  *)
(* a goroutine that was starting, or whose timer had fired (1084-1093).    *)
OneLateReport == lateReports <= 1

(* The exporter, which sleeps for minutes, does not outlive the handler.   *)
ExporterStops == closed ~> (exporter \in {"none", "ended"})
=============================================================================
