# Replica, specified

TLA+ models of the concurrent and failure-prone parts of Replica (the Go
repository `getlantern/replica`), checked with TLC and, where it says so below,
proved with TLAPS for every value of the constants. Line numbers are those of
the Go source; `H` stands for `server/handler.go`.

## 1. The system

Replica stores user uploads as torrents behind a remote service ("the Replica
service", replica-rust, not in this repository) and serves them to a local user
interface through an HTTP handler that runs inside the Lantern client.

| Component | State it keeps | Operations | Hard behaviour |
|---|---|---|---|
| Uploads (`H` 433-661, 306-322; `service/upload.go` 129-157; `service/service.go` 54-145) | uploads directory (`<prefix>.torrent`, `<prefix>.token`), data directory, torrents in the client, what the service has | `/upload`, `/uploads`, `/delete`, the start-up loop | requests interleave without a lock; each stores four things in four places; a crash falls between any two; errors are logged or dropped |
| doFirst (`H` 742-820) | results, retChan, rejected results, cancel functions, response bodies | one request to each mirror, the first good one returned | three kinds of goroutines, a channel that is closed, responses that must be closed or left open |
| Requests that answer with what others hold: `handleMetadata`, `handleObjectInfo`, `handleViewWith`, `handleSearch` (`H` 664-740, 822-1025), inside `wrapHandlerError` (`H` 353-403) | the response (headers, status, body), open bodies of mirrors, a reference to a torrent | `/thumbnail`, `/duration`, `/object_info`, `/view`, `/download`, `/search` | headers set before the outcome is known, errors after the headers were sent, one doFirst after another, an unchecked file index, a wait without a timeout |
| Life cycle (`H` 128-338, 1082-1110) | cache directory, two storages, torrent client, `closed`, metricsExporter | `NewHTTPHandler`, `Close` | a start that fails half-way, twice in `NewClient`; what is closed then, in which order; a goroutine that sleeps through Close |
| GetPeers (`proxy/announce.go` 46-75) | traversals, a wait group, the caller's channel | one DHT traversal for each server and info-hash | closing a channel others send on, an early error return, a context |
| Queue (`awsutil/awsutil.go` 71-240) | `sqsQueue`, `subscriptionArn`, `initialized`; queues, subscriptions and messages at AWS | `Init`, `DeleteQueue`, `GetMessage` | calls that work and whose answer is lost, half-done `Init`, at-least-once delivery, batches |
| replica-browser (`cmd/replica-browser/main.go` 91-190) | the torrent client, the info cache, a page's goroutines, a semaphore, a bounded channel | one page | goroutines against a channel at its limit, infos that only one goroutine stores |
| Announce, S3 listing, search URLs, links, options, configuration | none, or constants | conversions, forwarding and loops | sequential |

How they interact. `net/http` runs every request on a goroutine of its own; the
handlers share the torrent client and the two directories and take no lock. The
upload handlers call the service through `service.ServiceClient`. Metadata
and object-info requests call `doFirst`, which calls the mirrors; every handler
returns through `wrapHandlerError`. Queue and GetPeers are
libraries that other programs call (a peer that seeds what is uploaded): their
callers are not in the repository and appear as what the comments and the tests
do with them.

What would make each correct: an uploader can always delete what the service
still has of theirs, loses nothing before that, does not seed what they have not
recorded, and gives no data away that would identify them (Uploads); one usable
response, and nothing left behind (doFirst); a whole response or a whole error,
and everything released (requests); a handler that is complete or nothing, and
nothing closed under its user (life cycle); a channel that is closed safely and
once all is said (GetPeers); no event acknowledged that was not handled, no AWS
queue lost sight of (Queue); a page that misses no upload and links to what can
be served (replica-browser).

## 2. The modules

| Module | Models | Extends or instantiates |
|---|---|---|
| `UploadRegistry` | abstract: uploads are published once, withdrawn only by someone who keeps a credential, and nothing kept is given up before | |
| `Uploads` | the handlers, step by step | `UploadRegistry` through `Registry` |
| `MCUploads` | symmetry for TLC | `Uploads` |
| `UploadsProofs`, `UploadsOutcomeProofs` | theorems | `Uploads`; the second the first |
| `FirstResponse` | abstract: the first good answer, or any when all are in and none is good | |
| `DoFirst` | workers, collector, caller and clean-up | `FirstResponse` through `First` |
| `DoFirstProofs` | theorems | `DoFirst` |
| `Response` | one request to an endpoint that answers with what others hold, and `wrapHandlerError` around it | `FirstResponse` through `Ask` |
| `ResponseProofs` | theorems | `Response` |
| `Lifecycle` | NewHTTPHandler, Close and metricsExporter | |
| `LifecycleProofs` | theorems | `Lifecycle` |
| `GetPeers` | GetPeers, its goroutines, the traversals and the receiver | |
| `GetPeersProofs` | theorems | `GetPeers` |
| `EventDelivery` | abstract: at-least-once delivery | |
| `Queue` | Init, DeleteQueue and GetMessage against AWS | `EventDelivery` through `Delivery` |
| `MCQueue` | symmetry for TLC | `Queue` |
| `QueueProofs` | theorems | `Queue` |
| `Browser` | the page of replica-browser | |
| `BrowserProofs` | theorems | `Browser` |

Definitions called "Mutant of X" in the modules are X as a plausible mistake
would have it. Nothing uses them. Put in the place of X one at a time, each
makes TLC report the property it is there for, which shows that the property
depends on that line of the code.

### Uploads

An upload is identified with the prefix the service gives it; the service gives
a fresh one each time (`H` 255-258), so prefixes are not used twice. `remote` is
what the service holds. `metainfo` and `token` are the two files, each `none`,
`torn` (created or truncated, not completely written) or `whole`; `data` is the
body in the data directory; `client` is the torrent: `absent`, `exposed` (added,
`DisallowDataUpload` not called yet), `concealed`, or `shared` (added by a view).
`upload`, `del`, `view` and `list` say where each request stands and what it has
read. The actions carry the names of the handlers' steps, in the order of the
code: `UploadRequest`, `ServicePublishes` (external), `UploadPutReturns` or
`UploadPutFails`, `UploadOpensMetainfo`, ..., `UploadConceals`;
`DeleteReadsToken`, `DeleteLoadsMetainfo`, `ServiceDeletes` (external), ...,
`DeleteRemovesToken`; `ListStarts`, `ListLoads`, `ListAnswers`. `Restart`,
`StartAdds`, `StartConceals`, `StartFails` and `StartDone` are the loop of
`NewHTTPHandler`: for each record `AddTorrentSpec` (569) and `DisallowDataUpload`
(581) are two calls on a client that peers reach already, so the torrent is
exposed between them, as it is in `/upload`. `Crash` ends the process at any point
and keeps the files.

`faults` counts the system, client and service calls that failed. `swallowed`
remembers the failures the code only logs (524-526, 543-546) or does not look at
(650-652), so that a property can name exactly the ones that excuse it.
`early` remembers the uploads a deletion or a view named while `/upload` was
still at work on them. These are history variables: no guard reads them.

Abstractions: the temporary file of 481-497 is created before the service is
called and its failure is modelled at the step that would rename it; an error
of `FromUploadMetainfo` or of the response (555-563), after everything is
stored, is not told apart from success; the preparation of the request
(metascrubber, form file) has no effect but that the request may fail, which
`UploadPutFails` covers. The service accepts a deletion with a whole token, or
with `have_metainfo`, and refuses other ones: that is how handleDelete uses it
(637-641). A deletion the service did may still be answered with an error, and
the same deletion asked again may be accepted or refused.

### DoFirst

`arrived` is everything sent on `results` and `received` how much of it the
collector has taken; the channel has room for all (759), so sends do not block.
`retChan` is not buffered: `Handover` is a step of collector and caller together.
`body` is `open` from the arrival of a response until somebody closes it. The
filter is the outcome `good`. The callers of doFirst read the response and close
it (`H` 718, 969, 1004: `CallerFinishes`). With no urls doFirst returns before
any of this.

### GetPeers

`main` is the goroutine of GetPeers, `worker` those it starts, `traversal` the
dht library's side, which hands over peers in batches and ends when it is
exhausted or closed. The caller's channel is taken as unbuffered with one
receiver (`TestP2pNetworking` has one), so that a send and its receipt are one
step; every peer that is received is counted in `delivered`.

### Queue

`sqsQueue` and `subscriptionArn` are 0 for nil and "", or the number of a queue;
`created` gives each `createQueue` a fresh one (its uuid). A failing AWS call may
have taken effect. `abandoned` and `unconfirmed` remember the queues whose
creation or subscription was reported as failed, and the ones a second `Init`
replaced. A message is `visible`, `inflight` with a `holder`, `deleted`, or
`gone` with its queue; `VisibilityExpires` makes an inflight one visible again
at any time. GetMessage names the queue that is known when it calls
ReceiveMessage (206) and looks again for each DeleteMessage (232): `queue` of a
`Poll` is the former. What a queue holds when another Init replaces it is taken to
be out of reach, also for a ReceiveMessage under way. A message's body, once
delivered, either does not parse or has records; it
is handed to the handler record by record. The owner follows the protocol that
the comments suggest: Init; again, or DeleteQueue, if that failed; DeleteQueue
again if that failed; and perhaps Init anew.

### Response

One request, from the link to the last write. `endpoint` says which handler it
is; `pc` where it stands, `round` which of the two `doFirst` calls of
handleObjectInfo it is in. The state of a `doFirst` call is that of
`FirstResponse`: `answers` and `ret`, and `MirrorAnswers` and `DoFirstReturns`
are its two actions, so what is shown of `Response` holds of any doFirst that
implements `FirstResponse`, as `DoFirst` does. `headers` are those set on the
`ResponseWriter`, `status`, `sent` and `body` what has gone out: the first
`WriteHeader` or write sends the status with the headers set so far, as net/http
does. `body` is a sequence of pieces, each `data`, `json` or `error`. `open` are
the mirrors' bodies not closed yet, by round, and `deferred` those a deferred
call will close; `held` is the reference a view has to its torrent.
`ClientLeaves` ends the request's context at any time; writes may fail from then
on. `ConfigChanges` lets the options be the fallback ones, without mirrors, at
any moment, as `GlobalConfig` is asked anew for each request.

### Lifecycle

NewHTTPHandler step by step: the candidate cache directories, of which any set
can be made; the directories, the storages, the first `NewClient`, the second
with another port, the loop over the uploads, the exporter; each can fail, and
`RunsDeferred` is the deferred function of `H` 205-209. Close is four steps. The
exporter reports, then sleeps for minutes or until it is told of the end.
`halfMade` counts clients that `NewClient` returned together with an error and
nobody has closed: the code expects them (`H` 229).

### Browser

`event` is the stream's list of torrents, in which one torrent may come twice;
`user` those that are user uploads. `tc` and `cached` are shared by all requests:
the client has of a torrent nothing, its name, or its info. `pc`, `at` and `hit`
are a request's loop, `worker` its goroutines by event, `sem` the places in use
and `page` the content of `userTorrents`. `InfoArrives` is external and may never
happen; `TimesOut` is the 5 seconds of a goroutine (143), or its client leaving,
which may happen at any time and is otherwise seen only by `Checks` (173);
`PutPanics` ends the process. The cache survives that, the client does not.

## 3. What TLC checks

| Run | Constants | Distinct states | What it shows |
|---|---|---|---|
| `uploads_one` | 1 upload, 2 deletions, 1 view, all options on, 1 fault, 1 crash | 529 thousand | `DataHasRecord`, `DeletableWhenAnswered`, `DeletedLeavesNothing`, `UploaderConcealed`, `PanicNeedsEarlyRequest`; implements `UploadRegistry` |
| `uploads_two` | 2 uploads, 1 deletion, 1 listing, all options on, 1 crash | 881 thousand | a restart between two half-done uploads, and a listing beside them: `ClientMatchesRecords`, `ListingShowsSteady` |
| `do_first` | 3 mirrors, fairness | 22 thousand | `NoSendAfterClose`, `ReturnedStaysUsable`, `NoBodyLost`; liveness `CallerReturns`, `EverythingReleased`; implements `FirstResponse` |
| `get_peers` | 3 pairs, 2 peers, batches of 2, fairness | 33 thousand | `NoSendOnClosedChannel`, `NilMeansAllDelivered`, `NoTraversalOutlives`; liveness `EverythingEnds` |
| `queue_safety` | 2 messages, 2 pollers, batches of 2, 1 record, 2 queues, 1 fault | 1.6 million | `NilMeansHandled`, `ReadyIsSubscribed`, `DeletedIsCleanedUp`, `NoQueueForgotten`; implements `EventDelivery` |
| `queue_liveness` | 2 messages, 2 pollers, batches of 1, 1 fault, fairness | 342 thousand | `EventsHandled` |
| `response` | every endpoint, 2 mirrors, bodies of up to 2 pieces, fairness | 11 thousand | `ErrorsStandAlone`, `ErrorsAreNotCached`, `EndsReleased`, `SilenceIsExplained`; liveness `LeavingEnds` |
| `lifecycle` | every set of cache directories, 3 reports, fairness | 2 thousand | `StorageOutlivesClient`, `FailureLeavesNothing`, `HandlerIsWhole`, `OneLateReport`; liveness `ExporterStops` |
| `browser` | 2 loads, 1 torrent, 2 events, 1 place, 1 lookup at a time, 1 crash, fairness | 463 thousand | `NoSendAfterClose`, `LookupsBounded`, `PageIsComplete`, `LinksAreServed`, `UncachedIsExplained`; liveness `PagesEnd` |

No run repeats `TypeOK`: that each module keeps its types is proved
(`TypeCorrect`), for all constants.

Why these bounds. Every file, torrent and request of `Uploads` belongs to one
upload; uploads meet only in the uploads directory (listing, start-up) and in a
deletion that goes from one to the other, which two uploads show. Two deletions
are needed for one to remove what the other has read; a third adds no new pair.
One fault and one crash put one failure at every point; what two would do is
left to the proofs, which do not bound them. `uploads_two` has a crash and torn
files but no failed call, so a listing that fails on one file (`loadRecord`) is
modelled there and not met. Three mirrors let a good answer come
before, between and after rejected ones. Three pairs let one traversal be
running, one stop and one fail to start, and two peers in batches of one or two
make a goroutine stop inside a batch. Two messages and two pollers show a batch
that fails half-way, and one message at two pollers at once. One record in each
message, with a body without records as the other case, leaves only the position
of the failing record inside one message unexplored; two records pass the same
loop with the same outcome for the message. Two mirrors give `Response` a first
answer that is bad and a second that is good, in both rounds, and two pieces a
copy that fails before, between and after them. Two events of one
torrent make two goroutines of a load, and those of the other load, wait for one
info, the page full before its last event, and the semaphore taken when it is
wanted; two loads let one store, time out, leave or end the process beside the
rendered page of the other. Torrents share nothing but the places of a semaphore
and of a page; the safety properties are proved for any number of loads, events
and torrents.

Deadlock is checked in `do_first` and `get_peers`, where a finished instance
stutters (`Terminated`) and anything else that stops is an error. It is not in
the others: an upload may be over with no request left, a poller may wait for
an `Init` nobody calls, and a request that was answered or a handler that was
closed is followed by nothing.

Fairness. The fair specifications assume that goroutines that can run do
(`WF` of each goroutine's steps), that handlers return, and:
in `DoFirst` and `Response` that `client.Do` returns once its context is done,
which `net/http` promises, and not that mirrors answer; in `GetPeers` that a
traversal of a finite network ends, which is what "Returns when all traversals are
exhausted" (42-43) rests on, and not that the context ends; in `Queue` that
somebody keeps calling GetMessage, visibility timeouts pass, and SQS does not
pass over a message for ever (`SF` of its receipt), and not that the owner, the
topic or any other call does anything; in `Lifecycle` that the application's
call of Close goes on once begun, and not that the timer fires; in `Browser` that
the 5 seconds pass, and not that an info ever comes.

### What the code does not keep

Three runs are expected to end in a violation. Each checks one sentence of the
repository.

- `uploads_torn_token`, `AnsweredIsDeletable`: "Admin token is used if the
  uploader wants to delete their file later on" (`H` 107-108). A token file that
  is created and not written is logged and left empty (524-526); a deletion
  then sends an empty token, and does not set `have_metainfo` because the file
  exists (640).
- `get_peers_error`, `ClosedOnReturn`: "'peers' will close when this function
  returns" (`announce.go:45`). It does not when a traversal cannot be started.
- `response_torn`, `MetadataErrorsStandAlone`: "if it's an error during
  encoding+writing, don't attempt to write new headers and body" (`H` 376-377).
  The copy of a mirror's body in handleMetadata returns an ordinary error
  (728-731), and the JSON of the error is appended to the piece already sent.

The invariants of the passing runs say what holds all the same, with such cases
named in them: `ErrorsAreNotCached`, for one, holds of every error but those of
that copy, whose JSON goes out under the `Cache-Control` of the mirror's answer. They name these too, which contradict no sentence of the
repository, or only one about an order of calls that the user interface may be
taken to keep:

- `early` in `DeletedLeavesNothing`, `DataHasRecord` and
  `PanicNeedsEarlyRequest`: a deletion between the metainfo and the token of an
  upload answers 200 and the token is written afterwards (`H` 652); a view of the
  link while the upload is being stored adds the torrent first, and the upload
  panics with "adding an upload should always be a new torrent" (573-575).
- `halfMade` in `FailureLeavesNothing`: the client a failing second `NewClient`
  returned is closed by nobody (235).
- `selected = "outside"` in `SilenceIsExplained`: a file index beyond the
  torrent's files panics in the handler, and the client gets nothing (926).
- `new` and `got` in `UncachedIsExplained`: only the goroutine that added a
  torrent stores its info; if its 5 seconds pass, no later page does, so each of
  them takes a place of the semaphore again (146-152).
- a link of a page that outlived its process, in `LinksAreServed`: `handleFile`
  dereferences the nil of `tc.Torrent` (84-85) until a load of the page has come
  to its event again; from then on the link is served, if the info was cached.
- the windows in `UploaderConcealed`: between the calls at 569 and 581, in
  `/upload` and for each stored upload at every start, peers can have the data.
- `initialized`, which is never taken back (97, 166-182), in `ReadyIsSubscribed`:
  after a DeleteQueue, or an Init that failed, GetMessage passes its check on a
  queue that is gone or that was not confirmed.
- `abandoned` and `unconfirmed` in `Queue`: a queue whose creation or
  subscription AWS reported as failed, or that a second Init replaced, stays at
  AWS unknown to the `Queue` (91, 139-155).

## 4. What is proved

Every theorem below holds for all values of the constants under the modules'
assumptions (`UploadsAssumption`, `DoFirstAssumption`, ...), which give the types
of the constants and nothing more. Each module's `TypeCorrect` is the first theorem the others
rest on.

`UploadsProofs`: `TypeCorrect`, `RegistryImplemented`, `ConcealedAlways`,
`PanicOnlyEarly`, `BodiesAreRecorded`, `AnsweredCanBeDeleted`. The invariant is
`Core == Typed /\ Staged /\ Backed`: what the variables hold, how far an upload
is when something of it exists, and what a deletion that has read a credential,
or that the service has accepted, may rely on. `Backed` is what the handlers'
order of steps buys: a credential that was read is still on disk while the
service has the upload, because only an accepted deletion removes it. The
refinement follows from `Core`: each step keeps, gains or loses one keepsake of
one upload. The other theorems each add a layer: `Announced` (a torrent in the
client before its own upload put it there was named early), `Documented` (a body
is stored after the metainfo and removed before it, by a deletion that removed
the body or failed at it), `Credentialed` (an upload past its token has what the
service accepts). `DeletableWhenAnswered` alone is not inductive because the
token is written two steps before the answer; `DataHasRecord` is not because a
deletion that is about to remove the records must be known to have removed the
body.

`UploadsOutcomeProofs`: `SteadyAreShown`, `DeletionIsComplete`,
`ClientSeedsRecords`. Each adds a layer to those above. `Listings`: a record that
was whole since a listing's ReadDir is whole still, and is on the list or to be
loaded. `Cleaning`: what a deletion has got rid of stays so, because nothing but
a running upload or a start brings it back, the upload is finished (`Unhurried`),
and no deletion is remembered over a start (`Still`). `Seeding`: a start has
added the whole records it is past and has exposed at most the one it is at
(`Starting`), and outside of it torrent and record of an answered upload agree, or a deletion is between dropping the one and removing the
other. The properties speak of a moment without requests, and are not inductive
without an account of those that run. Two more speak of what lasts. `DeletionLasts`: a
withdrawn upload of which nothing is left comes back through no view, deletion,
crash or restart, as long as it is finished; before that an early deletion does
not last, which is why the theorem says "finished".
`RequestsRunOut` is below.

`DoFirstProofs`: `TypeCorrect`, `ClosedForGood`, `ReturnedUsable`,
`BodiesHaveOwners`, `FirstResponseImplemented`, `FirstWins`, `FallbackFinds`,
`DoFirstGoesOn`, `DoFirstRunsOut`. The invariant is
`Inv == TypeOK /\ Sent /\ Sorted /\ Chosen`: every url answers once and what is
rejected, offered or returned was received; no url is both rejected and returned;
and where the collector stands says whether the caller has its result and that
no good answer was passed over. `Usable` adds that the returned response is in
no hands that would close or cancel it. `FirstWins` says of the code what the
refinement says of its abstraction, which good answer it is: the first to arrive.
`FallbackFinds` is what `rand.Intn`, which panics on 0, relies on.

`GetPeersProofs`: `TypeCorrect`, `ClosedAfterSends`, `NilDelivered`,
`TraversalsClosed`, `GetPeersGoesOn`, `GetPeersRunsOut`. The invariant is
`Inv == TypeOK /\ Staged /\ Balanced`: past
`wg.Wait` every goroutine is done and only past it is the channel closed; and
what a traversal handed over was received or is still to be sent, unless the
context is done.

`QueueProofs`: `TypeCorrect`, `HandledBeforeDeleted`, `NilHandled`,
`ReadySubscribed`, `DeletedCleanedUp`, `QueuesKnown`, `DeliveryImplemented`,
`QueueIsThere`, `NoEventLost`, `GetMessageGoesOn`, `GetMessageRunsOut`. The
invariant has two halves. `OwnerInv` is about Init and DeleteQueue: queues are
numbered in the order of their creation, and where the owner stands says which of
them exist, are subscribed, and are known to it. `DeliveryInv` is about
GetMessage: what a poller has passed of its batch was handled, whoever holds the
message by then. Neither half needs more of the other than its types, which is
why they are preserved separately. `ReadySubscribed` is all of `OwnerInv`: a new
queue has a number above the ARN that is kept, so that an ARN that is not its own
is an earlier one's. `DeliveryImplemented` maps a message to what
`EventDelivery` says of its event; a message that goes with its queue is the
abstract event that is lost. `QueueIsThere` needs the one fact that joins the
halves: `initialized`, which GetMessage reads, is never true without a
`sqsQueue`, which it dereferences. `NoEventLost` says that a queued event ends
only by being handled and deleted, or together with a queue that DeleteQueue
removed or another Init replaced.

`ResponseProofs`: `TypeCorrect`, `ErrorsAlone`, `ErrorsUncached`,
`EverythingReleased`, `SilenceExplained`, `RequestGoesOn`, `RequestRunsOut`. The
invariant is
`Inv == TypeOK /\ Answered /\ Errors /\ Released`: at each `pc` what may have been
sent, that an ordinary error is returned only before anything was sent (but by
the metadata copy), and that every open body and the held torrent is one a
deferred call will release.

`LifecycleProofs`: `TypeCorrect`, `ClientClosedFirst`, `FailureCleansUp`,
`HandlersAreWhole`, `ClosedOnce`, `LateOnce`, `LifeRunsOut`. The invariant is
`Inv == TypeOK /\ Opened /\ Told /\ Late /\ Chosen`: what is open at each step of
NewHTTPHandler and Close, what the exporter has been told, how many reports
began late, and that the cache directory is the first that could be made.

`BrowserProofs`: `TypeCorrect`, `ClosedAfterSends`, `LookupsAreBounded`,
`PageComplete`, `LinksServed`, `UncachedExplained`, `AllPlacesReturned`,
`RenderedPageStays`, `PagesGoOn`, `PagesRunOut`. The invariant counts:
`Counted` says that a request's places in use are one for each goroutine that
took one and has not given it back, and one for the loop between taking it and
starting the goroutine; `Looped` says which goroutines there are at each point of
the loop, `Informed` that one that has the info left it in the client, `Shown`
that the page holds what was sent, and `Explained` who is still to store an info.
`LookupsBounded` and `UncachedIsExplained` say nothing of the loop and are not
inductive without them. `LinksServed` adds `Known`: a torrent whose event some
load has come to is in the client, and one the client has without its info is not
in the cache, however a lookup of the cache and the step that adds the torrent are
apart. `AllPlacesReturned` follows from the same counts: a
goroutine that gives its place back is counted by the semaphore, so that the
receive does not block, and with no goroutine left none is in use.

### What liveness rests on

Liveness needs fairness and `ENABLED`, which this prover does not handle. What
can be proved for every value of the constants is what each liveness property
rests on in the code, as two facts of safety:

- nothing that is owed is ever stuck (`...GoesOn`: `NeverStuck`). Where the
  property promises something that has not happened yet, the guard of an action
  that `Fairness` names is true. `CanGoOn` writes these guards out, since
  `ENABLED` cannot be used. This is where the waits are: the collector for the
  mirrors, `wg.Wait` for goroutines that wait for a send, a goroutine at a full
  semaphore, the client that left;
- and it cannot go on for ever (`...RunsOut`: `StepsRunOut`, with `StepsBounded`).
  A measure of the steps that are left, bounded below, goes down with every step
  that counts and up with none.

| Liveness | Never stuck | Runs out | The measure |
|---|---|---|---|
| `CallerReturns`, `EverythingReleased` (`DoFirst`) | `DoFirstGoesOn` | `DoFirstRunsOut` | at most 4N + 7; every step counts |
| `EverythingEnds` | `GetPeersGoesOn` | `GetPeersRunsOut` | seven finite sets of what is left, one of which loses something at every step |
| `LeavingEnds` | `RequestGoesOn` | `RequestRunsOut` | at most 2N + MaxChunks + 15; only a change of the options costs nothing |
| `PagesEnd` | `PagesGoOn` | `PagesRunOut` | at most 10 NumEvents + 5 for each request |
| `ExporterStops` | `LifeRunsOut` | `LifeRunsOut` | at most 3 once `closed` is set; 15 for NewHTTPHandler and Close |
| `EventsHandled` | `GetMessageGoesOn`, `NoEventLost` | `GetMessageRunsOut` | the messages of the response, then the records of the message at hand |

`RequestsRunOut` has no counterpart among the runs: an upload or a deletion takes
a bounded number of steps, and nothing that other requests do, no crash and no
restart gives it more. A restarted browser serves its requests anew: the bound
of `PagesRunOut` is for one process. `GetMessage` may of course be called again: these theorems are about one
call, and `EventsHandled` also needs visibility timeouts that pass and an SQS
that does not pass over a message for ever, which its fairness assumes.

The measures and `NeverStuck` need little beyond the invariants above, and what
they need is named: `Swept` (what the clean-up is past is cancelled, unless it
was returned, and the collector stops with every result received and nothing left
to close), `Ending` (a channel that is not closed when GetPeers returns is that
of a failed start), `Routed` and `Asked` (which endpoint is where; that a mirror
answers once and that, of good answers, one is first), `Counts` (no poller is
past the last record of a message).

Only model-checked: the last step, from these two facts and the fairness to the
liveness properties themselves (`CallerReturns`, the `EverythingReleased` of
`DoFirst`, `EverythingEnds`, `EventsHandled`, `LeavingEnds`, `ExporterStops`,
`PagesEnd`), and with it that the guards in `CanGoOn` enable the actions of
`Fairness`. Every safety property of a passing run is proved.

## 5. Not modelled

- Announce runs one traversal after another, drains it and closes it, with
  nothing beside it. ForAllObjects is one call of the AWS library with a callback.
  The options getter reads its inputs anew on every call and keeps nothing;
  `Response` has what follows from it, options that change between two requests.
- Conversions without state: search and service URLs, links and magnets, object
  infos, metainfo encoding, `GetPrefixFromTorrentKey`, the field getters and
  defaults of the options, `SetDefaults`, `projectpath`. In the models an
  upload, its files, its key and its links are one prefix, and a mirror is the
  number of its URL.
- The torrent client, confluence, the dht library, SQS, SNS and the Replica
  service appear only as the code uses them. When the last view of a torrent
  releases it, confluence may drop the torrent or keep it: both are possible.
- Requests that run while Close does: they use the torrent client, which ends
  them; what a library does with a read after its storage was closed is not in
  this repository. What is shown is that no storage is closed before the client.
- Nothing bounds the time of an upload at the service (`service.go:64`) or of a
  view that waits for its info (`H` 891): there is no promise to check but that
  the latter ends when its client leaves (`LeavingEnds`).
- Logging, metrics, sentry, CORS and instrumentation change no state that a
  property is about.
- The README of the repository names a `dualsearchroundtripper.go` that is not in
  it; there is nothing to model.

## 6. What is left

Three events, or several torrents, in two loads of the browser's page at once, and
two records in an event's message, are larger instances than the runs take: their
safety is proved, and so is what their liveness (`PagesEnd`, `EventsHandled`)
rests on. Uploads that fail in the service's own
storage, and what it says to a deletion that is repeated, could be checked if its
side of the protocol were in this repository.

Checking a module: `tlc -config UploadsOne.cfg MCUploads.tla`, and for the proofs
`tlapm UploadsProofs.tla`. The configurations and the modules they belong to are
those of `PROJECT.json`.
