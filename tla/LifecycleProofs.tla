-------------------------- MODULE LifecycleProofs --------------------------
(***************************************************************************)
(* Theorems about Lifecycle, for any number of reports.                    *)
(***************************************************************************)
EXTENDS Lifecycle, TLAPS

(* What is open where NewHTTPHandler and Close stand.                      *)
Nothing == defaultStorage = "none" /\ uploadStorage = "none" /\ client = "none"
Everything == defaultStorage = "open" /\ uploadStorage = "open"
                /\ client = "open"
AllClosed == defaultStorage = "closed" /\ uploadStorage = "closed"
               /\ client = "closed"
StorageOnly(state) == defaultStorage = state /\ uploadStorage = "none"
                        /\ client = "none"

Opened ==
    /\ pc \in {"cache", "dirs", "storage"} => Nothing
    /\ pc \in {"client", "retry"} => StorageOnly("open")
    /\ pc \in {"uploads", "start", "running", "closeClient"} => Everything
    /\ pc = "closeUploads" => /\ defaultStorage = "open"
                              /\ uploadStorage = "open" /\ client = "closed"
    /\ pc = "closeDefault" => /\ defaultStorage = "open"
                              /\ uploadStorage = "closed" /\ client = "closed"
    /\ pc \in {"setClosed", "closed"} => AllClosed /\ storageCloses = 1
    /\ pc = "deferred" =>
         \/ ~failed /\ Everything /\ storageCloses = 0
         \/ failed /\ StorageOnly("open") /\ storageCloses = 0
         \/ failed /\ closed /\ AllClosed /\ storageCloses = 1
    /\ pc = "returned" =>
         \/ Nothing /\ storageCloses = 0
         \/ StorageOnly("closed") /\ storageCloses = 1
         \/ closed /\ AllClosed /\ storageCloses = 2
    /\ pc \notin {"deferred", "setClosed", "closed", "returned"} =>
         storageCloses = 0

(* Which paths failed, and where the exporter and a half-made client may   *)
(* be.                                                                     *)
Told ==
    /\ failed => /\ exporter = "none"
                 /\ pc \in {"returned", "deferred", "closeClient",
                            "closeUploads", "closeDefault", "setClosed"}
    /\ pc = "returned" => failed
    /\ pc \in {"cache", "dirs", "storage", "client", "retry", "uploads",
               "start"} => exporter = "none"
    /\ closed => pc \in {"closed", "deferred", "returned"}
    /\ pc = "deferred" /\ closed => failed
    /\ halfMade = 0 \/ (failed /\ pc \in {"deferred", "returned"}
                          /\ client = "none"
                          /\ (pc = "returned" => storageCloses = 1))

(* A report of a closed handler was begun by a goroutine that was starting *)
(* one when Close was called.                                              *)
Late ==
    /\ ~closed => lateReports = 0
    /\ lateReports <= 1
    /\ lateReports = 1 => exporter \in {"report", "wait", "ended"}
    /\ exporter = "none" => reports = 0
    /\ exporter = "begin" => reports < MaxReports

(* The cache directory is the first of the candidates that can be made, if *)
(* there is one. There are three candidates at most.                       *)
First(dir) ==
    \E i \in DOMAIN candidates :
      /\ dir = candidates[i]
      /\ dir \in creatable =>
           \A j \in 1 .. i - 1 : candidates[j] \notin creatable

Chosen ==
    /\ Len(candidates) \in 1 .. 3
    /\ pc # "cache" => First(cacheDir)
    /\ pc \notin {"cache", "dirs", "returned"} => cacheDir \in creatable

Inv == TypeOK /\ Opened /\ Told /\ Late /\ Chosen

LEMMA InvInit == Init => Inv
<1> SUFFICES ASSUME Init PROVE Inv
    OBVIOUS
<1> USE LifecycleAssumption DEF Init
<1>1. candidates \in Seq(Dirs) /\ Len(candidates) \in 1 .. 3
  <2>1. CASE candidates = <<"temp">>
        BY <2>1 DEF Dirs
  <2>2. CASE candidates = <<"user", "temp">>
        BY <2>2 DEF Dirs
  <2>3. CASE candidates = <<"input", "temp">>
        BY <2>3 DEF Dirs
  <2>4. CASE candidates = <<"input", "user", "temp">>
        BY <2>4 DEF Dirs
  <2> QED BY <2>1, <2>2, <2>3, <2>4
<1>2. TypeOK
  <2>1. failed \in BOOLEAN /\ closed \in BOOLEAN
        OBVIOUS
  <2>2. 0 \in 0 .. MaxReports
        OBVIOUS
  <2> QED BY <1>1, <2>1, <2>2 DEF TypeOK, Resource
<1>3. Opened /\ Told /\ Late
      BY DEF Opened, Nothing, Told, Late
<1> QED BY <1>1, <1>2, <1>3 DEF Inv, Chosen

(* Best finds what it looks for.                                           *)
LEMMA BestIsFirst ==
  ASSUME candidates \in Seq(Dirs), Len(candidates) \in 1 .. 3
  PROVE  First(Best(candidates)) /\ Best(candidates) \in Dirs
<1> DEFINE ok == {i \in DOMAIN candidates : candidates[i] \in creatable}
           least == CHOOSE i \in ok : \A j \in ok : i <= j
<1>1. DOMAIN candidates = 1 .. Len(candidates)
      OBVIOUS
<1>2. \A i \in DOMAIN candidates : candidates[i] \in Dirs
      OBVIOUS
<1>3. CASE ok = {}
  <2>1. Best(candidates) = candidates[1] /\ 1 \in DOMAIN candidates
        BY <1>1, <1>3 DEF Best
  <2> QED BY <1>1, <1>2, <1>3, <2>1 DEF First
<1>4. CASE ok # {}
  <2>1. ok \subseteq {1, 2, 3}
        BY <1>1
  <2>2. \E i \in ok : \A j \in ok : i <= j
    <3>1. CASE 1 \in ok
          BY <2>1, <3>1
    <3>2. CASE 1 \notin ok /\ 2 \in ok
          BY <2>1, <3>2
    <3>3. CASE 1 \notin ok /\ 2 \notin ok
          BY <1>4, <2>1, <3>3
    <3> QED BY <3>1, <3>2, <3>3
  <2>3. least \in ok /\ \A j \in ok : least <= j
        BY <2>2
  <2>4. Best(candidates) = candidates[least]
        BY <1>4 DEF Best
  <2>5. \A j \in 1 .. least - 1 : candidates[j] \notin creatable
    <3> SUFFICES ASSUME NEW j \in 1 .. least - 1, candidates[j] \in creatable
                 PROVE  FALSE
        OBVIOUS
    <3>1. j \in ok
          BY <1>1, <2>3
    <3>2. least <= j /\ least \in Nat
          BY <1>1, <2>3, <3>1
    <3> HIDE DEF least, ok
    <3> QED BY <3>2
  <2> HIDE DEF least
  <2> QED BY <1>2, <2>3, <2>4, <2>5 DEF First
<1> QED BY <1>3, <1>4

(* The steps of the goroutine metricsExporter.                             *)
LEMMA ExporterNext ==
  ASSUME Inv, Exporter \/ TimerFires
  PROVE  Inv'
<1> USE LifecycleAssumption
    DEF Exporter, BeginsReport, EndsReport, TimerFires, ExporterEnds,
        MetricsKeep, dirs, storages, clients
<1>0. UNCHANGED <<pc, candidates, creatable, cacheDir, defaultStorage,
                  uploadStorage, storageCloses, client, halfMade, failed,
                  closed>>
      OBVIOUS
<1>1. /\ exporter \in {"begin", "report", "wait"} /\ ~failed
      /\ exporter' \in {"begin", "report", "wait", "ended"}
      BY DEF Inv, Told
<1>2. /\ Late'
      /\ reports' \in 0 .. MaxReports /\ lateReports' \in 0 .. MaxReports
      BY <1>0, <1>1 DEF Inv, Late, TypeOK
<1>3. TypeOK'
      BY <1>0, <1>1, <1>2 DEF Inv, TypeOK
<1>4. Opened'
      BY <1>0 DEF Inv, Opened, Nothing, Everything, AllClosed, StorageOnly
<1>5. Told'
      BY <1>0, <1>1 DEF Inv, Told
<1>6. Chosen'
      BY <1>0 DEF Inv, Chosen, First
<1> QED BY <1>2, <1>3, <1>4, <1>5, <1>6 DEF Inv

(* The steps of NewHTTPHandler and Close.                                  *)
LEMMA HandlerNext ==
  ASSUME Inv, New \/ CloseCalled \/ Close
  PROVE  Inv'
<1> USE LifecycleAssumption
    DEF New, CloseCalled, Close, PreparesCacheDir, MakesDirs, OpensStorage,
        OpensClient, FirstClientFails, SecondClientFails, AddsUploads,
        StartsExporter, RunsDeferred, ClosesClient, ClosesUploadStorage,
        ClosesDefaultStorage, SetsClosed, ClosesStorage, Goes, Fails,
        dirs, storages, clients, metrics
<1>1. Opened'
      BY DEF Inv, Opened, Told, Nothing, Everything, AllClosed, StorageOnly
<1>2. Told'
      BY DEF Inv, Opened, Told, Nothing, Everything, AllClosed, StorageOnly
<1>3. Late'
      BY DEF Inv, Late, Told, TypeOK
<1>4. Chosen'
  <2>1. UNCHANGED <<candidates, creatable>>
        OBVIOUS
  <2>2. CASE PreparesCacheDir
        BY <2>1, <2>2, BestIsFirst DEF Inv, Chosen, First, TypeOK
  <2>3. CASE ~PreparesCacheDir
        BY <2>1, <2>3 DEF Inv, Chosen, First
  <2> QED BY <2>2, <2>3
<1>5. TypeOK'
  <2>1. /\ UNCHANGED <<candidates, creatable, reports, lateReports>>
        /\ exporter' \in {exporter, "begin"}
        OBVIOUS
  <2>2. pc' \in {"dirs", "storage", "client", "retry", "uploads", "start",
                 "deferred", "running", "returned", "closed", "closeClient",
                 "closeUploads", "closeDefault", "setClosed"}
        OBVIOUS
  <2>3. cacheDir' \in Dirs \cup {"none"}
        BY BestIsFirst DEF Inv, TypeOK, Chosen
  <2>4. {defaultStorage, uploadStorage, client}' \subseteq Resource
        BY DEF Inv, TypeOK, Resource
  <2>5. halfMade' \in 0 .. 1
        BY DEF Inv, TypeOK, Told
  <2>6. /\ failed' \in {failed, TRUE} /\ closed' \in {closed, TRUE}
        /\ failed \in BOOLEAN /\ closed \in BOOLEAN
        BY DEF Inv, TypeOK
  <2>7. failed' \in BOOLEAN /\ closed' \in BOOLEAN
        BY <2>6
  <2>8. storageCloses' \in 0 .. 2
        BY DEF Inv, Opened
  <2> QED BY <2>1, <2>2, <2>3, <2>4, <2>5, <2>7, <2>8 DEF Inv, TypeOK
<1> QED BY <1>1, <1>2, <1>3, <1>4, <1>5 DEF Inv

LEMMA InvAlways == Spec => []Inv
<1>1. Inv /\ UNCHANGED vars => Inv'
      BY DEF vars, dirs, storages, clients, metrics, Inv, TypeOK, Opened,
             Nothing, Everything, AllClosed, StorageOnly, Told, Late, Chosen,
             First
<1>2. Inv /\ [Next]_vars => Inv'
      BY <1>1, ExporterNext, HandlerNext DEF Next
<1> QED BY InvInit, <1>2, PTL DEF Spec

(* The types of the variables.                                             *)
THEOREM TypeCorrect == Spec => []TypeOK
<1>1. Inv => TypeOK
      BY DEF Inv
<1> QED BY <1>1, InvAlways, PTL

(* The torrent client is closed before the storages it reads from, on      *)
(* every path (handler.go:333-338, 205-209).                               *)
THEOREM ClientClosedFirst == Spec => []StorageOutlivesClient
<1>1. Inv => StorageOutlivesClient
      BY DEF Inv, Opened, Told, Nothing, Everything, AllClosed, StorageOnly,
             TypeOK, StorageOutlivesClient
<1> QED BY <1>1, InvAlways, PTL

(* A failing NewHTTPHandler leaves nothing open and no goroutine, whatever *)
(* fails (handler.go:161-325).                                             *)
THEOREM FailureCleansUp == Spec => []FailureLeavesNothing
<1>1. Inv => FailureLeavesNothing
      BY DEF Inv, Opened, Told, Nothing, AllClosed, StorageOnly,
             FailureLeavesNothing
<1> QED BY <1>1, InvAlways, PTL

(* A handler that is returned is whole, in the first cache directory that  *)
(* can be made (handler.go:147-158, 226-238).                              *)
THEOREM HandlersAreWhole == Spec => []HandlerIsWhole
<1>1. Inv => HandlerIsWhole
      BY DEF Inv, Opened, Told, Everything, Chosen, First, HandlerIsWhole
<1> QED BY <1>1, InvAlways, PTL

(* The storage is closed once, but when the uploads cannot be iterated.    *)
THEOREM ClosedOnce == Spec => []ClosedOnceByClose
<1>1. Inv => ClosedOnceByClose
      BY DEF Inv, Opened, Told, ClosedOnceByClose
<1> QED BY <1>1, InvAlways, PTL

(* However many reports there are, one at most is begun after Close.       *)
THEOREM LateOnce == Spec => []OneLateReport
<1>1. Inv => OneLateReport
      BY DEF Inv, Late, OneLateReport
<1> QED BY <1>1, InvAlways, PTL

-----------------------------------------------------------------------------
(* NewHTTPHandler and Close take a bounded number of steps, and metrics-   *)
(* Exporter, once closed is set, three at most.                            *)
Rank == [cache |-> 15, dirs |-> 14, storage |-> 13, client |-> 12,
         retry |-> 11, uploads |-> 10, start |-> 9, deferred |-> 8,
         running |-> 7, closeClient |-> 6, closeUploads |-> 5,
         closeDefault |-> 4, setClosed |-> 3, returned |-> 0, closed |-> 0]
HandlerLeft == IF failed /\ pc = "deferred" THEN 2 ELSE Rank[pc]
ExporterLeft == CASE exporter = "begin" -> 3
                  [] exporter = "report" -> 2
                  [] exporter = "wait" -> 1
                  [] OTHER -> 0

(* What a fair action waits for: the timer, or closed, in the select.      *)
ExporterCanGoOn == \/ exporter \in {"begin", "report"}
                   \/ exporter = "wait" /\ closed
NeverStuck ==
    closed /\ exporter \notin {"none", "ended"} => ExporterCanGoOn

(* The handler is made and closed once, whatever fails and however long    *)
(* the exporter runs; after closed.Set the exporter only comes to its end: *)
(* no timer, no new exporter, sets it back (307-325, 333-340, 1084-1093).  *)
RunsOut ==
    /\ New \/ CloseCalled \/ Close => HandlerLeft' < HandlerLeft
    /\ Exporter \/ TimerFires => HandlerLeft' = HandlerLeft
    /\ closed => ExporterLeft' <= ExporterLeft
    /\ closed /\ Exporter => ExporterLeft' < ExporterLeft
StepsRunOut == [][RunsOut]_vars
StepsBounded == HandlerLeft \in 0 .. 15 /\ ExporterLeft \in 0 .. 3

LEMMA Bounded == TypeOK => StepsBounded
BY DEF TypeOK, StepsBounded, HandlerLeft, ExporterLeft, Rank

LEMMA HandlerRunsOut ==
  ASSUME Inv, New \/ CloseCalled \/ Close
  PROVE  HandlerLeft' < HandlerLeft
<1>1. /\ failed \in BOOLEAN
      /\ pc = "returned" => failed
      /\ failed => pc \in {"returned", "deferred", "closeClient",
                           "closeUploads", "closeDefault", "setClosed"}
      BY DEF Inv, TypeOK, Told
<1>2. CASE New
      BY <1>1, <1>2 DEF New, PreparesCacheDir, MakesDirs, OpensStorage,
         OpensClient, FirstClientFails, SecondClientFails, AddsUploads,
         StartsExporter, RunsDeferred, Goes, Fails, HandlerLeft, Rank
<1>3. CASE CloseCalled \/ Close
      BY <1>1, <1>3 DEF CloseCalled, Close, ClosesClient, ClosesUploadStorage,
         ClosesDefaultStorage, SetsClosed, Goes, HandlerLeft, Rank
<1> QED BY <1>2, <1>3

LEMMA ExporterRunsOut ==
  ASSUME Inv, closed, Next
  PROVE  /\ ExporterLeft' <= ExporterLeft
         /\ Exporter => ExporterLeft' < ExporterLeft
<1>1. Exporter => ExporterLeft' < ExporterLeft
      BY DEF Exporter, BeginsReport, EndsReport, ExporterEnds, ExporterLeft
<1>2. ~TimerFires
      BY DEF TimerFires
<1>3. pc \in {"closed", "deferred", "returned"}
      BY DEF Inv, Told
<1>4. New \/ CloseCalled \/ Close => exporter' = exporter
      BY <1>3 DEF New, PreparesCacheDir, MakesDirs, OpensStorage,
         OpensClient, FirstClientFails, SecondClientFails, AddsUploads,
         StartsExporter, RunsDeferred, CloseCalled, Close, ClosesClient,
         ClosesUploadStorage, ClosesDefaultStorage, SetsClosed, metrics
<1>5. ExporterLeft \in 0 .. 3
      BY DEF ExporterLeft
<1>6. exporter' = exporter => ExporterLeft' = ExporterLeft
      BY DEF ExporterLeft
<1>7. Exporter => ExporterLeft' <= ExporterLeft
      BY DEF Exporter, BeginsReport, EndsReport, ExporterEnds, ExporterLeft
<1> QED BY <1>1, <1>2, <1>4, <1>5, <1>6, <1>7 DEF Next

(* Nobody makes or closes a handler for ever, and the exporter ends.       *)
THEOREM LifeRunsOut == Spec => [](StepsBounded /\ NeverStuck) /\ StepsRunOut
<1>1. ASSUME Inv, Next
      PROVE  RunsOut
  <2>1. Exporter \/ TimerFires => HandlerLeft' = HandlerLeft
        BY DEF Exporter, BeginsReport, EndsReport, ExporterEnds, TimerFires,
               MetricsKeep, HandlerLeft
  <2> QED BY <1>1, <2>1, HandlerRunsOut, ExporterRunsOut DEF RunsOut
<1>2. Inv /\ [Next]_vars => [RunsOut]_vars
      BY <1>1
<1>3. Inv => StepsBounded /\ NeverStuck
      BY Bounded DEF Inv, TypeOK, NeverStuck, ExporterCanGoOn
<1> QED BY <1>2, <1>3, InvAlways, PTL DEF Spec, StepsRunOut
=============================================================================
