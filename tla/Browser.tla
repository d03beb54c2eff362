------------------------------ MODULE Browser ------------------------------
(***************************************************************************)
(* The page of cmd/replica-browser: for every upload event a request adds  *)
(* the torrent to the client all requests share, and starts a goroutine    *)
(* that waits for its info, keeps it in the cache and offers it to the     *)
(* page over userTorrents, a channel of MaxTorrents that is the sequence   *)
(* page here. Lookups of infos that are not cached take one of MaxLookups  *)
(* places of getInfoSem. The cache is a file; the client's torrents live   *)
(* as long as the process, which a goroutine that cannot store its info    *)
(* ends.                                                                   *)
(***************************************************************************)
EXTENDS Naturals, Sequences, FiniteSets

CONSTANTS
    Requests,       \* loads of the page
    Torrents,
    NumEvents,      \* how many events the stream has
    MaxTorrents,    \* how many torrents the page shows: 30
    MaxLookups,     \* how many places getInfoSem has: 10
    MaxCrashes      \* bound: how often the process ends

ASSUME BrowserAssumption ==
    /\ NumEvents \in Nat /\ MaxCrashes \in Nat
    /\ MaxTorrents \in Nat \ {0} /\ MaxLookups \in Nat \ {0}

Events == 1 .. NumEvents

VARIABLES
    event,      \* the torrent of each event
    user,       \* the torrents that are user uploads, not "youtube" ones
    tc,         \* the torrent client: what it has of each torrent
    cached,     \* the torrents whose info bytes are in squirrelCache
    pc,         \* where each request stands
    at,         \* the event its loop is at
    hit,        \* infoWasCached of that event
    sem,        \* the places of its getInfoSem in use
    page,       \* what userTorrents holds: events
    worker,     \* the goroutine of each event of a request
    crashes     \* how often the process has ended

stream == <<event, user>>
request == <<pc, at, hit>>
shared == <<tc, cached>>
vars == <<stream, shared, request, sem, page, worker, crashes>>

(* Where a goroutine stands, torIsNew and infoWasCached, and whether it    *)
(* got the info.                                                           *)
Worker == [pc : {"none", "wait", "store", "send", "release", "ended"},
           new : BOOLEAN, hit : BOOLEAN, got : BOOLEAN]
NoWorker == [pc |-> "none", new |-> FALSE, hit |-> FALSE, got |-> FALSE]

(* The types of the variables.                                             *)
TypeOK ==
    /\ event \in [Events -> Torrents] /\ user \in SUBSET Torrents
    /\ tc \in [Torrents -> {"absent", "added", "info"}]
    /\ cached \in SUBSET Torrents
    /\ pc \in [Requests -> {"idle", "next", "acquire", "add", "check", "wait",
                            "done", "left"}]
    /\ at \in [Requests -> 1 .. NumEvents + 1]
    /\ hit \in [Requests -> BOOLEAN]
    /\ sem \in [Requests -> 0 .. MaxLookups]
    /\ page \in [Requests -> Seq(Events)]
    /\ \A r \in Requests : Len(page[r]) <= MaxTorrents
    /\ worker \in [Requests -> [Events -> Worker]]
    /\ crashes \in 0 .. MaxCrashes

All(v) == [r \in Requests |-> v]
NoWorkers == All([e \in Events |-> NoWorker])

Init ==
    /\ event \in [Events -> Torrents] /\ user \in SUBSET Torrents
    /\ cached \in SUBSET Torrents /\ crashes = 0
    /\ tc = [t \in Torrents |-> "absent"]
    /\ pc = All("idle") /\ at = All(1) /\ hit = All(FALSE)
    /\ sem = All(0) /\ page = All(<<>>) /\ worker = NoWorkers

-----------------------------------------------------------------------------
(* The request.                                                            *)

RequestKeeps == UNCHANGED <<stream, cached, page, crashes>>
Goes(r, step) == pc' = [pc EXCEPT ![r] = step]
Torrent(r) == event[at[r]]

(* XRevRangeN gives the events.                                            *)
Loads(r) ==
    /\ pc[r] = "idle"
    /\ Goes(r, IF NumEvents = 0 THEN "wait" ELSE "next")
    /\ RequestKeeps /\ UNCHANGED <<tc, at, hit, sem, worker>>

(* Mutant of LooksUp: a torrent the client has needs no place.             *)
LooksUpUnlessAdded(r) ==
    /\ pc[r] = "next"
    /\ hit' = [hit EXCEPT ![r] = Torrent(r) \in cached]
    /\ Goes(r, IF hit'[r] \/ tc[Torrent(r)] # "absent" THEN "add"
               ELSE "acquire")
    /\ RequestKeeps /\ UNCHANGED <<tc, at, sem, worker>>

LooksUp(r) ==
    /\ pc[r] = "next"
    /\ hit' = [hit EXCEPT ![r] = Torrent(r) \in cached]
    /\ Goes(r, IF hit'[r] THEN "add" ELSE "acquire")
    /\ RequestKeeps /\ UNCHANGED <<tc, at, sem, worker>>

(* Another error of the cache is a panic, which net/http recovers.         *)
LookupFails(r) ==
    /\ pc[r] = "next"
    /\ Goes(r, "left")
    /\ RequestKeeps /\ UNCHANGED <<tc, at, hit, sem, worker>>

(* getInfoSem <- struct{}{}, whether or not the client is still there.     *)
Acquires(r) ==
    /\ pc[r] = "acquire"
    /\ sem[r] < MaxLookups
    /\ sem' = [sem EXCEPT ![r] = @ + 1]
    /\ Goes(r, "add")
    /\ RequestKeeps /\ UNCHANGED <<tc, at, hit, worker>>

IsNew(t) == tc[t] = "absent"

(* AddTorrentOpt, with the info if it was cached, and the goroutine.       *)
Adds(r) ==
    /\ pc[r] = "add"
    /\ tc' = [tc EXCEPT ![Torrent(r)] =
                IF @ # "absent" THEN @ ELSE IF hit[r] THEN "info" ELSE "added"]
    /\ worker' = [worker EXCEPT ![r][at[r]] =
                    [pc |-> "wait", new |-> IsNew(Torrent(r)),
                     hit |-> hit[r], got |-> FALSE]]
    /\ Goes(r, "check")
    /\ RequestKeeps /\ UNCHANGED <<at, hit, sem>>

(* Mutant of Full: one torrent early.                                      *)
AlmostFull(r) == Len(page[r]) + 1 >= MaxTorrents

Full(r) == Len(page[r]) = MaxTorrents

(* A client may have left by now, at any moment, and the request returns;  *)
(* one whose page is full ends its loop.                                   *)
Checks(r) ==
    /\ pc[r] = "check"
    /\ \/ Goes(r, "left")
       \/ Goes(r, IF Full(r) \/ at[r] = NumEvents THEN "wait" ELSE "next")
    /\ at' = [at EXCEPT ![r] = @ + 1]
    /\ RequestKeeps /\ UNCHANGED <<tc, hit, sem, worker>>

Working == {"wait", "store", "send"}

(* Mutant of WaitReturns: it is told of each goroutine by the goroutine.   *)
WaitReturnsEarly(r) == \E e \in Events : worker[r][e].pc \notin Working

WaitReturns(r) == \A e \in Events : worker[r][e].pc \notin Working

(* wg.Wait; userTorrents is closed and the page made from what it holds.   *)
Renders(r) ==
    /\ pc[r] = "wait"
    /\ WaitReturns(r)
    /\ Goes(r, "done")
    /\ RequestKeeps /\ UNCHANGED <<tc, at, hit, sem, worker>>

-----------------------------------------------------------------------------
(* The goroutines.                                                         *)

WorkerKeeps == UNCHANGED <<stream, request>>
WorkerGoes(r, e, step) == worker' = [worker EXCEPT ![r][e].pc = step]

(* Mutant of Stores: the infos of user uploads are stored.                 *)
StoresUsers(w, t) == w.new /\ ~w.hit /\ t \in user

Stores(w, t) == w.new /\ ~w.hit

GetsInfo(r, e) ==
    /\ worker[r][e].pc = "wait"
    /\ tc[event[e]] = "info"
    /\ worker' = [worker EXCEPT
         ![r][e].pc = IF Stores(worker[r][e], event[e]) THEN "store"
                      ELSE "send",
         ![r][e].got = TRUE]
    /\ WorkerKeeps /\ UNCHANGED <<shared, sem, page, crashes>>

(* Mutant of TimesOut: the torrent is dropped.                             *)
TimesOutDropping(r, e) ==
    /\ worker[r][e].pc = "wait"
    /\ WorkerGoes(r, e, "release")
    /\ tc' = [tc EXCEPT ![event[e]] = "absent"]
    /\ WorkerKeeps /\ UNCHANGED <<cached, sem, page, crashes>>

(* ctx.Done: after 5 seconds, or because the client left.                  *)
TimesOut(r, e) ==
    /\ worker[r][e].pc = "wait"
    /\ WorkerGoes(r, e, "release")
    /\ WorkerKeeps /\ UNCHANGED <<shared, sem, page, crashes>>

Put(r, e) ==
    /\ worker[r][e].pc = "store"
    /\ cached' = cached \cup {event[e]}
    /\ WorkerGoes(r, e, "send")
    /\ WorkerKeeps /\ UNCHANGED <<tc, sem, page, crashes>>

(* The panic of a goroutine ends the process, and it is started again.     *)
PutPanics(r, e) ==
    /\ worker[r][e].pc = "store"
    /\ crashes < MaxCrashes
    /\ crashes' = crashes + 1
    /\ tc' = [t \in Torrents |-> "absent"]
    /\ pc' = All("idle") /\ at' = All(1) /\ hit' = All(FALSE)
    /\ sem' = All(0) /\ page' = All(<<>>) /\ worker' = NoWorkers
    /\ UNCHANGED <<stream, cached>>

(* A user upload is offered to the page, which may be full.                *)
Sends(r, e) ==
    /\ worker[r][e].pc = "send"
    /\ page' = IF event[e] \in user /\ ~Full(r)
               THEN [page EXCEPT ![r] = Append(@, e)] ELSE page
    /\ WorkerGoes(r, e, "release")
    /\ WorkerKeeps /\ UNCHANGED <<shared, sem, crashes>>

(* Mutant of GivesBack: only a goroutine that got an info does.            *)
FinderGivesBack(w) == ~w.hit /\ w.got

GivesBack(w) == ~w.hit

(* <-getInfoSem, after wg.Done                                             *)
Releases(r, e) ==
    /\ worker[r][e].pc = "release"
    /\ \/ /\ GivesBack(worker[r][e])
          /\ sem[r] > 0
          /\ sem' = [sem EXCEPT ![r] = @ - 1]
       \/ ~GivesBack(worker[r][e]) /\ UNCHANGED sem
    /\ WorkerGoes(r, e, "ended")
    /\ WorkerKeeps /\ UNCHANGED <<shared, page, crashes>>

InfoArrives(t) ==
    /\ tc[t] = "added"
    /\ tc' = [tc EXCEPT ![t] = "info"]
    /\ UNCHANGED <<stream, cached, request, sem, page, worker, crashes>>

-----------------------------------------------------------------------------
Serves(r) == \/ Loads(r) \/ LooksUp(r) \/ LookupFails(r) \/ Acquires(r)
             \/ Adds(r) \/ Checks(r) \/ Renders(r)

Works(r, e) == \/ GetsInfo(r, e) \/ TimesOut(r, e) \/ Put(r, e) \/ Sends(r, e)
               \/ Releases(r, e)

Next == \/ \E r \in Requests : Serves(r)
        \/ \E r \in Requests, e \in Events : Works(r, e) \/ PutPanics(r, e)
        \/ \E t \in Torrents : InfoArrives(t)

(* Goroutines run, and time passes. No info has to arrive.                 *)
Fairness == /\ \A r \in Requests : WF_vars(Serves(r))
            /\ \A r \in Requests, e \in Events : WF_vars(Works(r, e))

Spec == Init /\ [][Next]_vars
FairSpec == Spec /\ Fairness

-----------------------------------------------------------------------------
(* userTorrents is closed when no goroutine can send on it any more, also  *)
(* when the loop stopped early (177-181).                                  *)
NoSendAfterClose ==
    \A r \in Requests, e \in Events :
      pc[r] = "done" => worker[r][e].pc \notin Working

Looking(r) == {e \in Events : worker[r][e].pc = "wait" /\ ~worker[r][e].hit}

(* Places are given back before the goroutine ends and after wg.Done, and  *)
(* only by those for which one was taken: never are more infos waited for  *)
(* than there are places (133, 169-171).                                   *)
LookupsBounded == \A r \in Requests : Cardinality(Looking(r)) <= MaxLookups

(* A page with room left misses no user upload whose info came in time,    *)
(* whatever the goroutines' order; only a full one stops early (154-179).  *)
PageIsComplete ==
    \A r \in Requests :
      pc[r] = "done" /\ Len(page[r]) < MaxTorrents =>
        \A e \in Events :
          /\ worker[r][e].pc # "none"
          /\ worker[r][e].got /\ event[e] \in user =>
               \E i \in DOMAIN page[r] : page[r][i] = e

(* handleFile can serve t: the client has it, with its info (84-85).       *)
Servable(t) == tc[t] = "info"

(* A load of the page has come to an event of t in this process.           *)
Reached(t) == \E r \in Requests, e \in Events :
                event[e] = t /\ worker[r][e].pc # "none"

(* The links of a page are served as long as the process that made it      *)
(* lives: nothing another load of the page does, no timeout or departure   *)
(* of its client, takes the torrents from under them (84-85, 137, 162-166).*)
(* And a link that outlived its process, which has handleFile dereference  *)
(* the nil of tc.Torrent, is served again as soon as any load has come to  *)
(* its event, if the info was cached (128-131, 149).                       *)
LinksAreServed ==
    /\ \A r \in Requests :
         pc[r] = "done" => \A i \in DOMAIN page[r] : Servable(event[page[r][i]])
    /\ \A t \in Torrents : Reached(t) /\ t \in cached => Servable(t)

(* An info the client has and the cache has not is one that the goroutine  *)
(* which added the torrent has still to store, or did not get in time:     *)
(* then no other ever stores it (146-152).                                 *)
UncachedIsExplained ==
    \A t \in Torrents :
      tc[t] = "info" /\ t \notin cached =>
        \E r \in Requests, e \in Events :
          /\ event[e] = t /\ worker[r][e].new
          /\ worker[r][e].pc \in {"wait", "store"} \/ ~worker[r][e].got

(* Every request for the page ends, though it waits for a place, and for   *)
(* its goroutines, without a look at its context, unless the process does. *)
PagesEnd ==
    \A r \in Requests :
      (pc[r] = "next") ~> (pc[r] \in {"done", "left", "idle"})
=============================================================================
