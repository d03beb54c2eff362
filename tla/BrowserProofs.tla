---------------------------- MODULE BrowserProofs ----------------------------
(***************************************************************************)
(* Theorems about Browser, for any number of requests, torrents, events,   *)
(* places on the page and lookups.                                         *)
(***************************************************************************)
EXTENDS Browser, FiniteSetTheorems, TLAPS

(* The goroutines that have a place of getInfoSem, and the loop's own.     *)
Holders(r) == {e \in Events : /\ worker[r][e].pc \in Working \cup {"release"}
                              /\ ~worker[r][e].hit}
Own(r) == IF pc[r] = "add" /\ ~hit[r] THEN 1 ELSE 0

(* Every place in use is that of one of them.                              *)
Counted == \A r \in Requests : sem[r] = Cardinality(Holders(r)) + Own(r)

(* The loop has started the goroutines of the events before at, and stops  *)
(* after the last event or at a full page.                                 *)
Looped ==
    \A r \in Requests :
      /\ pc[r] \in {"next", "acquire", "add", "check"} => at[r] <= NumEvents
      /\ pc[r] = "idle" => at[r] = 1
      /\ pc[r] \in {"wait", "done"} => Full(r) \/ at[r] = NumEvents + 1
      /\ pc[r] = "acquire" => ~hit[r]
      /\ pc[r] = "add" /\ hit[r] => event[at[r]] \in cached
      /\ \A e \in Events :
           worker[r][e] # NoWorker <=>
             e < at[r] \/ (e = at[r] /\ pc[r] = "check")

(* What a goroutine has is what its torrent has.                           *)
Informed ==
    \A r \in Requests, e \in Events :
      /\ worker[r][e].pc = "none" <=> worker[r][e] = NoWorker
      /\ worker[r][e].pc \in {"none", "wait"} => ~worker[r][e].got
      /\ worker[r][e].pc \in {"store", "send"} => worker[r][e].got
      /\ worker[r][e].got => tc[event[e]] = "info"
      /\ worker[r][e].hit => event[e] \in cached

(* The page shows what goroutines that have got an info sent while there   *)
(* was room.                                                               *)
Shown ==
    \A r \in Requests :
      /\ \A i \in DOMAIN page[r] : worker[r][page[r][i]].got
      /\ \A e \in Events :
           /\ worker[r][e].pc \in {"release", "ended"}
           /\ worker[r][e].got /\ event[e] \in user
           => Full(r) \/ \E i \in DOMAIN page[r] : page[r][i] = e

(* A torrent that is not cached was added by a goroutine that still stores *)
(* its info, waits for it, or gave up.                                     *)
Explained ==
    \A t \in Torrents :
      tc[t] # "absent" /\ t \notin cached =>
        \E r \in Requests, e \in Events :
          /\ event[e] = t /\ worker[r][e].new
          /\ worker[r][e].pc = "store" \/ ~worker[r][e].got

Inv == /\ TypeOK /\ Counted /\ Looped /\ Informed /\ Shown /\ Explained
       /\ NoSendAfterClose

-----------------------------------------------------------------------------
LEMMA EventsFinite ==
  ASSUME NEW S \in SUBSET Events
  PROVE  IsFiniteSet(S) /\ Cardinality(S) \in Nat
<1>1. IsFiniteSet(Events)
      BY FS_Interval, BrowserAssumption DEF Events
<1>2. IsFiniteSet(S)
      BY <1>1, FS_Subset
<1> QED BY <1>2, FS_CardinalityType

(* A process that has just started: every place is free.                   *)
Blank == /\ tc = [t \in Torrents |-> "absent"]
         /\ pc = All("idle") /\ at = All(1) /\ hit = All(FALSE)
         /\ sem = All(0) /\ page = All(<<>>) /\ worker = NoWorkers
         /\ event \in [Events -> Torrents] /\ user \in SUBSET Torrents
         /\ cached \in SUBSET Torrents /\ crashes \in 0 .. MaxCrashes

LEMMA BlankInv == Blank => Inv
<1> SUFFICES ASSUME Blank PROVE Inv
    OBVIOUS
<1> USE BrowserAssumption
<1>1. \A r \in Requests :
        /\ pc[r] = "idle" /\ at[r] = 1 /\ hit[r] = FALSE /\ sem[r] = 0
        /\ page[r] = <<>>
        /\ \A e \in Events : worker[r][e] = NoWorker
      BY DEF Blank, All, NoWorkers
<1>2. TypeOK
  <2>1. NoWorker \in Worker
        BY DEF NoWorker, Worker
  <2>2. worker \in [Requests -> [Events -> Worker]]
        BY <2>1 DEF Blank, All, NoWorkers
  <2>3. /\ tc \in [Torrents -> {"absent", "added", "info"}]
        /\ pc \in [Requests -> {"idle", "next", "acquire", "add", "check",
                                "wait", "done", "left"}]
        /\ at \in [Requests -> 1 .. NumEvents + 1]
        /\ sem \in [Requests -> 0 .. MaxLookups]
        BY DEF Blank, All
  <2>4. hit \in [Requests -> BOOLEAN]
        BY DEF Blank, All
  <2>5. page \in [Requests -> Seq(Events)]
        BY DEF Blank, All
  <2>6. \A r \in Requests : Len(page[r]) <= MaxTorrents
        BY <1>1
  <2>7. /\ event \in [Events -> Torrents] /\ user \in SUBSET Torrents
        /\ cached \in SUBSET Torrents /\ crashes \in 0 .. MaxCrashes
        BY DEF Blank
  <2> QED BY <2>2, <2>3, <2>4, <2>5, <2>6, <2>7 DEF TypeOK
<1>3. Counted
  <2>1. \A r \in Requests : Holders(r) = {} /\ Own(r) = 0
        BY <1>1 DEF Holders, Own, NoWorker, Working
  <2>2. Cardinality({}) = 0
        BY FS_EmptySet
  <2>3. ASSUME NEW r \in Requests
        PROVE  sem[r] = Cardinality(Holders(r)) + Own(r)
    <3>1. Holders(r) = {} /\ Own(r) = 0 /\ sem[r] = 0
          BY <1>1, <2>1
    <3>2. Cardinality(Holders(r)) = 0
          BY <2>2, <3>1
    <3> QED BY <3>1, <3>2
  <2> QED BY <2>3 DEF Counted
<1>4. Looped
      BY <1>1 DEF Looped, Events
<1>5. Informed /\ Shown /\ NoSendAfterClose
      BY <1>1 DEF Informed, Shown, NoSendAfterClose, NoWorker, Working
<1>6. Explained
      BY DEF Explained, Blank
<1> QED BY <1>2, <1>3, <1>4, <1>5, <1>6 DEF Inv

LEMMA InvInit == Init => Inv
BY BlankInv, BrowserAssumption DEF Init, Blank

-----------------------------------------------------------------------------
(* Steps that start no goroutine, and move none.                           *)
Loop(r) == \/ Loads(r) \/ LooksUp(r) \/ LookupFails(r) \/ Acquires(r)
           \/ Checks(r) \/ Renders(r)

LEMMA LoopNext ==
  ASSUME Inv, NEW r \in Requests, Loop(r)
  PROVE  Inv'
<1> USE BrowserAssumption DEF RequestKeeps, Goes, request, shared, stream
<1>0. /\ TypeOK
      /\ UNCHANGED <<event, user, cached, page, crashes, tc, worker>>
      BY DEF Inv, Loop, Loads, LooksUp, LookupFails, Acquires, Checks, Renders
<1>1. \A q \in Requests :
        q # r => /\ pc'[q] = pc[q] /\ at'[q] = at[q] /\ hit'[q] = hit[q]
                 /\ sem'[q] = sem[q]
      BY <1>0 DEF TypeOK, Loop, Loads, LooksUp, LookupFails, Acquires, Checks,
             Renders
<1>2. \/ /\ pc[r] = "idle" /\ UNCHANGED <<at, hit, sem>>
         /\ pc'[r] = IF NumEvents = 0 THEN "wait" ELSE "next"
      \/ /\ pc[r] = "next" /\ UNCHANGED <<at, sem>>
         /\ hit'[r] \in BOOLEAN
         /\ hit'[r] => event[at[r]] \in cached
         /\ pc'[r] = IF hit'[r] THEN "add" ELSE "acquire"
      \/ pc[r] = "next" /\ UNCHANGED <<at, hit, sem>> /\ pc'[r] = "left"
      \/ /\ pc[r] = "acquire" /\ UNCHANGED <<at, hit>>
         /\ sem[r] < MaxLookups /\ sem'[r] = sem[r] + 1 /\ pc'[r] = "add"
      \/ /\ pc[r] = "check" /\ UNCHANGED <<hit, sem>>
         /\ at'[r] = at[r] + 1
         /\ \/ pc'[r] = "left"
            \/ pc'[r] = "wait" /\ (Full(r) \/ at[r] = NumEvents)
            \/ pc'[r] = "next" /\ at[r] # NumEvents
      \/ /\ pc[r] = "wait" /\ WaitReturns(r) /\ UNCHANGED <<at, hit, sem>>
         /\ pc'[r] = "done"
  <2>1. CASE Loads(r)
        BY <1>0, <2>1 DEF TypeOK, Loads
  <2>2. CASE LooksUp(r)
    <3>1. pc[r] = "next" /\ UNCHANGED <<at, sem>>
          BY <2>2 DEF LooksUp
    <3>2. hit'[r] = (event[at[r]] \in cached)
          BY <1>0, <2>2 DEF TypeOK, LooksUp, Torrent
    <3>3. pc'[r] = IF hit'[r] THEN "add" ELSE "acquire"
          BY <1>0, <2>2 DEF TypeOK, LooksUp
    <3>4. hit'[r] \in BOOLEAN /\ (hit'[r] => event[at[r]] \in cached)
      <4>1. CASE event[at[r]] \in cached
            BY <3>2, <4>1
      <4>2. CASE event[at[r]] \notin cached
        <5>1. (event[at[r]] \in cached) = FALSE
              BY <4>2
        <5>2. hit'[r] = FALSE
              BY <3>2, <5>1, Zenon
        <5> QED BY <5>2
      <4> QED BY <4>1, <4>2
    <3> QED BY <3>1, <3>3, <3>4
  <2>3. CASE LookupFails(r)
        BY <1>0, <2>3 DEF TypeOK, LookupFails
  <2>4. CASE Acquires(r)
        BY <1>0, <2>4 DEF TypeOK, Acquires
  <2>5. CASE Checks(r)
        BY <1>0, <2>5 DEF TypeOK, Checks
  <2>6. CASE Renders(r)
        BY <1>0, <2>6 DEF TypeOK, Renders
  <2> QED BY <2>1, <2>2, <2>3, <2>4, <2>5, <2>6 DEF Loop
<1>3. /\ pc[r] \in {"next", "acquire", "check"} => at[r] <= NumEvents
      /\ pc[r] = "idle" => at[r] = 1
      /\ pc[r] = "wait" => Full(r) \/ at[r] = NumEvents + 1
      /\ pc[r] = "acquire" => ~hit[r]
      /\ at[r] \in 1 .. NumEvents + 1 /\ sem[r] \in 0 .. MaxLookups
      BY <1>0 DEF Inv, Looped, TypeOK
<1>4. TypeOK'
  <2>1. pc' \in [Requests -> {"idle", "next", "acquire", "add", "check",
                            "wait", "done", "left"}]
        BY <1>0, <1>2 DEF TypeOK, Loop, Loads, LooksUp, LookupFails, Acquires,
                     Checks, Renders
  <2>2. at' = [at EXCEPT ![r] = at'[r]] /\ at'[r] \in 1 .. NumEvents + 1
        BY <1>0, <1>2, <1>3 DEF TypeOK, Loop, Loads, LooksUp, LookupFails,
                     Acquires, Checks, Renders
  <2>3. sem' = [sem EXCEPT ![r] = sem'[r]] /\ sem'[r] \in 0 .. MaxLookups
        BY <1>0, <1>2, <1>3 DEF TypeOK, Loop, Loads, LooksUp, LookupFails,
                     Acquires, Checks, Renders
  <2>4. hit' = [hit EXCEPT ![r] = hit'[r]] /\ hit'[r] \in BOOLEAN
    <3>1. CASE LooksUp(r)
          BY <1>0, <3>1 DEF TypeOK, LooksUp
    <3>2. CASE ~LooksUp(r)
          BY <1>0, <3>2 DEF TypeOK, Loop, Loads, LookupFails,
                       Acquires, Checks, Renders
    <3> QED BY <3>1, <3>2
  <2>5. /\ at' \in [Requests -> 1 .. NumEvents + 1]
        /\ sem' \in [Requests -> 0 .. MaxLookups]
        /\ hit' \in [Requests -> BOOLEAN]
        BY <1>0, <2>2, <2>3, <2>4 DEF TypeOK
  <2> QED BY <1>0, <2>1, <2>5 DEF TypeOK
<1>5. Counted'
  <2> SUFFICES ASSUME NEW q \in Requests
               PROVE  sem'[q] = Cardinality(Holders(q)') + Own(q)'
      BY DEF Counted
  <2>1. Holders(q)' = Holders(q) /\ Cardinality(Holders(q)) \in Nat
        BY <1>0, EventsFinite DEF Holders
  <2>2. sem[q] = Cardinality(Holders(q)) + Own(q)
        BY DEF Inv, Counted
  <2>3. sem'[q] - Own(q)' = sem[q] - Own(q)
    <3>1. CASE q # r
          BY <1>1, <3>1, <1>0 DEF Own, TypeOK
    <3>2. CASE q = r
          BY <1>2, <1>3, <3>2, <1>0 DEF Own, TypeOK
    <3> QED BY <3>1, <3>2
  <2>4. Own(q) \in 0 .. 1 /\ Own(q)' \in 0 .. 1
        BY DEF Own
  <2>5. sem'[q] \in 0 .. MaxLookups /\ sem[q] \in 0 .. MaxLookups
        BY <1>0, <1>4 DEF TypeOK
  <2> QED BY <2>1, <2>2, <2>3, <2>4, <2>5
<1>6. Looped'
  <2> SUFFICES ASSUME NEW q \in Requests
      PROVE  /\ pc'[q] \in {"next", "acquire", "add", "check"} =>
                  at'[q] <= NumEvents
             /\ pc'[q] = "idle" => at'[q] = 1
             /\ pc'[q] \in {"wait", "done"} =>
                  Full(q)' \/ at'[q] = NumEvents + 1
             /\ pc'[q] = "acquire" => ~hit'[q]
             /\ pc'[q] = "add" /\ hit'[q] => event'[at'[q]] \in cached'
             /\ \A e \in Events :
                  worker'[q][e] # NoWorker <=>
                    e < at'[q] \/ (e = at'[q] /\ pc'[q] = "check")
      BY DEF Looped
  <2>1. Full(q)' <=> Full(q)
        BY <1>0 DEF Full
  <2>2. CASE q # r
        BY <1>0, <1>1, <2>1, <2>2 DEF Inv, Looped
  <2>3. CASE q = r
    <3>1. /\ pc[r] = "add" /\ hit[r] => event[at[r]] \in cached
          /\ \A e \in Events :
               worker[r][e] # NoWorker <=>
                 e < at[r] \/ (e = at[r] /\ pc[r] = "check")
          BY DEF Inv, Looped
    <3>2. CASE UNCHANGED <<pc, at, hit, sem>>
          BY <1>0, <2>1, <2>3, <3>2 DEF Inv, Looped
    <3>3. CASE ~UNCHANGED <<pc, at, hit, sem>>
      <4>1. \A e \in Events :
              (e < at'[q] \/ (e = at'[q] /\ pc'[q] = "check")) <=>
                (e < at[r] \/ (e = at[r] /\ pc[r] = "check"))
            BY <1>2, <1>3, <2>3, <3>3 DEF Events
      <4>2. pc'[q] = "add" /\ hit'[q] => event[at'[q]] \in cached
            BY <1>2, <1>3, <2>3, <3>1, <3>3
      <4>3. /\ pc'[q] \in {"next", "acquire", "add", "check"} =>
                  at'[q] <= NumEvents
            /\ pc'[q] = "idle" => at'[q] = 1
            /\ pc'[q] = "acquire" => ~hit'[q]
            /\ pc'[q] \in {"wait", "done"} =>
                  Full(q) \/ at'[q] = NumEvents + 1
            BY <1>2, <1>3, <2>3, <3>3
      <4> QED BY <1>0, <2>1, <2>3, <3>1, <4>1, <4>2, <4>3
    <3> QED BY <3>2, <3>3
  <2> QED BY <2>2, <2>3
<1>7. Informed' /\ Shown' /\ Explained'
      BY <1>0 DEF Inv, Informed, Shown, Explained, Full
<1>8. NoSendAfterClose'
  <2> SUFFICES ASSUME NEW q \in Requests, NEW e \in Events, pc'[q] = "done"
               PROVE  worker[q][e].pc \notin Working
      BY <1>0 DEF NoSendAfterClose
  <2>1. CASE pc[q] = "done"
        BY <2>1 DEF Inv, NoSendAfterClose
  <2>2. CASE pc[q] # "done"
        BY <1>1, <1>2, <2>2 DEF WaitReturns
  <2> QED BY <2>1, <2>2
<1> QED BY <1>4, <1>5, <1>6, <1>7, <1>8 DEF Inv

-----------------------------------------------------------------------------
(* The loop starts the goroutine of its event.                             *)
LEMMA AddsNext ==
  ASSUME Inv, NEW r \in Requests, Adds(r)
  PROVE  Inv'
<1> USE BrowserAssumption DEF RequestKeeps, Goes, stream
<1> DEFINE a == at[r]
<1> DEFINE w == [pc |-> "wait", new |-> IsNew(event[a]), hit |-> hit[r],
                 got |-> FALSE]
<1>0. /\ TypeOK /\ pc[r] = "add" /\ a \in Events
      /\ UNCHANGED <<event, user, cached, page, crashes, at, hit, sem>>
      /\ pc' = [pc EXCEPT ![r] = "check"]
      /\ worker[r][a] = NoWorker
  <2>1. /\ TypeOK /\ pc[r] = "add"
        /\ UNCHANGED <<event, user, cached, page, crashes, at, hit, sem>>
        /\ pc' = [pc EXCEPT ![r] = "check"]
        BY DEF Inv, Adds
  <2>2. a \in 1 .. NumEvents + 1 /\ a <= NumEvents
        BY <2>1 DEF Inv, TypeOK, Looped
  <2>3. a \in Events
        BY <2>2 DEF Events
  <2>4. worker[r][a] = NoWorker
        BY <2>1, <2>2, <2>3 DEF Inv, Looped
  <2> QED BY <2>1, <2>3, <2>4
<1>1. w \in Worker
      BY <1>0 DEF TypeOK, Worker, IsNew
<1>2. \A q \in Requests, e \in Events :
        worker'[q][e] = IF q = r /\ e = a THEN w ELSE worker[q][e]
      BY <1>0 DEF Adds, TypeOK, Torrent
<1>3. worker' \in [Requests -> [Events -> Worker]]
      BY <1>0, <1>1 DEF Adds, TypeOK, Torrent
<1>4. /\ tc' \in [Torrents -> {"absent", "added", "info"}]
      /\ event[a] \in Torrents
      /\ \A t \in Torrents : t # event[a] => tc'[t] = tc[t]
      /\ tc[event[a]] # "absent" => tc'[event[a]] = tc[event[a]]
      BY <1>0 DEF Adds, TypeOK, Torrent
<1>5. \A q \in Requests : pc'[q] = IF q = r THEN "check" ELSE pc[q]
      BY <1>0 DEF TypeOK
<1>6. TypeOK'
      BY <1>0, <1>3, <1>4 DEF TypeOK
<1>7. w # NoWorker /\ w.pc = "wait" /\ w.hit = hit[r] /\ w.got = FALSE
      BY DEF NoWorker
<1>8. Counted'
  <2> SUFFICES ASSUME NEW q \in Requests
               PROVE  sem[q] = Cardinality(Holders(q)') + Own(q)'
      BY <1>0 DEF Counted
  <2>1. /\ sem[q] = Cardinality(Holders(q)) + Own(q)
        /\ Holders(q) \subseteq Events
        BY DEF Inv, Counted, Holders
  <2>2. CASE q # r \/ hit[r]
    <3>1. Own(q)' = Own(q)
          BY <1>0, <1>5, <2>2 DEF Own
    <3>2. Holders(q)' = Holders(q)
          BY <1>0, <1>2, <1>7, <2>2 DEF Holders, NoWorker, Working
    <3> QED BY <2>1, <3>1, <3>2
  <2>3. CASE q = r /\ ~hit[r]
    <3>1. Own(q) = 1 /\ Own(q)' = 0
          BY <1>0, <1>5, <2>3 DEF Own
    <3>2. Holders(q)' = Holders(q) \cup {a} /\ a \notin Holders(q)
          BY <1>0, <1>2, <1>7, <2>3 DEF Holders, NoWorker, Working
    <3>3. /\ Cardinality(Holders(q) \cup {a}) = Cardinality(Holders(q)) + 1
          /\ Cardinality(Holders(q)) \in Nat
          BY <2>1, <3>2, EventsFinite, FS_AddElement
    <3> QED BY <2>1, <3>1, <3>2, <3>3
  <2> QED BY <2>2, <2>3
<1>9. Looped'
      BY <1>0, <1>2, <1>5, <1>7 DEF Inv, Looped, Full
<1>10. Informed'
  <2> SUFFICES ASSUME NEW q \in Requests, NEW e \in Events
      PROVE  /\ worker'[q][e].pc = "none" <=> worker'[q][e] = NoWorker
             /\ worker'[q][e].pc \in {"none", "wait"} => ~worker'[q][e].got
             /\ worker'[q][e].pc \in {"store", "send"} => worker'[q][e].got
             /\ worker'[q][e].got => tc'[event[e]] = "info"
             /\ worker'[q][e].hit => event[e] \in cached
      BY <1>0 DEF Informed
  <2>1. CASE q = r /\ e = a
        BY <1>0, <1>2, <1>7, <2>1 DEF Inv, Looped
  <2>2. CASE ~(q = r /\ e = a)
    <3>1. worker'[q][e] = worker[q][e]
          BY <1>2, <2>2
    <3>2. tc[event[e]] = "info" => tc'[event[e]] = "info"
          BY <1>0, <1>4 DEF TypeOK
    <3> QED BY <3>1, <3>2 DEF Inv, Informed
  <2> QED BY <2>1, <2>2
<1>11. Shown'
  <2>1. ASSUME NEW q \in Requests, NEW i \in DOMAIN page[q]
        PROVE  worker'[q][page[q][i]].got
    <3>1. page[q][i] \in Events /\ worker[q][page[q][i]].got
          BY <1>0, <2>1 DEF Inv, Shown, TypeOK
    <3> QED BY <1>0, <1>2, <3>1 DEF NoWorker
  <2>2. ASSUME NEW q \in Requests, NEW e \in Events,
               worker'[q][e].pc \in {"release", "ended"},
               worker'[q][e].got, event[e] \in user
        PROVE  Full(q) \/ \E i \in DOMAIN page[q] : page[q][i] = e
    <3>1. worker'[q][e] = worker[q][e]
          BY <1>2, <1>7, <2>2
    <3> QED BY <2>2, <3>1 DEF Inv, Shown
  <2> QED BY <1>0, <2>1, <2>2 DEF Shown, Full
<1>12. Explained'
  <2> SUFFICES ASSUME NEW t \in Torrents, tc'[t] # "absent", t \notin cached
      PROVE  \E q \in Requests, e \in Events :
               /\ event[e] = t /\ worker'[q][e].new
               /\ worker'[q][e].pc = "store" \/ ~worker'[q][e].got
      BY <1>0 DEF Explained
  <2>1. CASE tc[t] # "absent"
        BY <1>0, <1>2, <2>1 DEF Inv, Explained, NoWorker
  <2>2. CASE tc[t] = "absent"
    <3>1. t = event[a]
          BY <1>4, <2>2
    <3>2. w.new
          BY <2>2, <3>1 DEF IsNew
    <3> QED BY <1>0, <1>2, <1>7, <3>1, <3>2
  <2> QED BY <2>1, <2>2
<1>13. NoSendAfterClose'
      BY <1>0, <1>2, <1>5 DEF Inv, NoSendAfterClose
<1> QED BY <1>6, <1>8, <1>9, <1>10, <1>11, <1>12, <1>13 DEF Inv

-----------------------------------------------------------------------------
(* A goroutine moves to w, and takes nothing back from the cache.          *)
Moves(r, e, w) ==
    /\ worker' = [worker EXCEPT ![r][e] = w]
    /\ UNCHANGED <<stream, request, tc, crashes>>
    /\ w.pc # "none" /\ worker[r][e].pc # "none"
    /\ w.hit = worker[r][e].hit /\ w.new = worker[r][e].new
    /\ w.pc = "wait" => ~w.got
    /\ w.pc \in {"store", "send"} => w.got
    /\ w.got => tc[event[e]] = "info"
    /\ worker[r][e].got => w.got
    /\ w.pc \in Working => worker[r][e].pc \in Working
    /\ cached \subseteq cached'
    /\ \A q \in Requests : Full(q) => Full(q)'

LEMMA Moved ==
  ASSUME Inv, NEW r \in Requests, NEW e \in Events, NEW w \in Worker,
         Moves(r, e, w)
  PROVE  /\ worker' \in [Requests -> [Events -> Worker]]
         /\ \A q \in Requests, f \in Events :
              worker'[q][f] = IF q = r /\ f = e THEN w ELSE worker[q][f]
         /\ Looped' /\ Informed' /\ NoSendAfterClose'
<1> USE BrowserAssumption DEF Moves, stream, request
<1>0. TypeOK
      BY DEF Inv
<1>1. worker' \in [Requests -> [Events -> Worker]]
      BY <1>0 DEF TypeOK
<1>2. \A q \in Requests, f \in Events :
        worker'[q][f] = IF q = r /\ f = e THEN w ELSE worker[q][f]
      BY <1>0 DEF TypeOK
<1>3. w # NoWorker /\ worker[r][e] # NoWorker
      BY DEF NoWorker
<1>4. Looped'
  <2> SUFFICES ASSUME NEW q \in Requests
      PROVE  /\ pc[q] \in {"next", "acquire", "add", "check"} =>
                  at[q] <= NumEvents
             /\ pc[q] = "idle" => at[q] = 1
             /\ pc[q] \in {"wait", "done"} =>
                  Full(q)' \/ at[q] = NumEvents + 1
             /\ pc[q] = "acquire" => ~hit[q]
             /\ pc[q] = "add" /\ hit[q] => event[at[q]] \in cached'
             /\ \A f \in Events :
                  worker'[q][f] # NoWorker <=>
                    f < at[q] \/ (f = at[q] /\ pc[q] = "check")
      BY DEF Looped
  <2> QED BY <1>2, <1>3 DEF Inv, Looped
<1>5. Informed'
  <2> SUFFICES ASSUME NEW q \in Requests, NEW f \in Events
      PROVE  /\ worker'[q][f].pc = "none" <=> worker'[q][f] = NoWorker
             /\ worker'[q][f].pc \in {"none", "wait"} => ~worker'[q][f].got
             /\ worker'[q][f].pc \in {"store", "send"} => worker'[q][f].got
             /\ worker'[q][f].got => tc[event[f]] = "info"
             /\ worker'[q][f].hit => event[f] \in cached'
      BY DEF Informed
  <2>1. CASE q = r /\ f = e
        BY <1>2, <1>3, <2>1 DEF Inv, Informed
  <2>2. CASE ~(q = r /\ f = e)
    <3>1. worker'[q][f] = worker[q][f]
          BY <1>2, <2>2
    <3> QED BY <3>1 DEF Inv, Informed
  <2> QED BY <2>1, <2>2
<1>6. NoSendAfterClose'
      BY <1>2 DEF Inv, NoSendAfterClose
<1> QED BY <1>1, <1>2, <1>4, <1>5, <1>6

(* It keeps its place, if it has one, until it gives that back.            *)
LEMMA PlacesKept ==
  ASSUME Inv, NEW r \in Requests, NEW e \in Events, NEW w \in Worker,
         Moves(r, e, w), UNCHANGED sem,
         w.hit \/ (worker[r][e].pc \in Working \cup {"release"} <=>
                     w.pc \in Working \cup {"release"})
  PROVE  Counted'
<1>1. \A q \in Requests, f \in Events :
        worker'[q][f] = IF q = r /\ f = e THEN w ELSE worker[q][f]
      BY Moved
<1>2. w.hit = worker[r][e].hit /\ UNCHANGED <<pc, hit>>
      BY DEF Moves, request
<1>3. \A q \in Requests : Holders(q)' = Holders(q) /\ Own(q)' = Own(q)
      BY <1>1, <1>2 DEF Holders, Own
<1> QED BY <1>3 DEF Inv, Counted

(* The page stays what it was, or shows what the goroutine sent.           *)
LEMMA PageKept ==
  ASSUME Inv, NEW r \in Requests, NEW e \in Events, NEW w \in Worker,
         Moves(r, e, w), UNCHANGED page,
         /\ w.pc \in {"release", "ended"} /\ w.got /\ event[e] \in user
         => worker[r][e].pc \in {"release", "ended"} /\ worker[r][e].got
  PROVE  Shown'
<1>1. \A q \in Requests, f \in Events :
        worker'[q][f] = IF q = r /\ f = e THEN w ELSE worker[q][f]
      BY Moved
<1>2. /\ worker[r][e].got => w.got
      /\ UNCHANGED <<event, user>>
      BY DEF Moves, stream
<1>3. ASSUME NEW q \in Requests, NEW i \in DOMAIN page[q]
      PROVE  worker'[q][page[q][i]].got
  <2>1. page[q][i] \in Events /\ worker[q][page[q][i]].got
        BY <1>3 DEF Inv, Shown, TypeOK
  <2> QED BY <1>1, <1>2, <2>1
<1>4. ASSUME NEW q \in Requests, NEW f \in Events,
             worker'[q][f].pc \in {"release", "ended"},
             worker'[q][f].got, event[f] \in user
      PROVE  Full(q) \/ \E i \in DOMAIN page[q] : page[q][i] = f
  <2>1. worker[q][f].pc \in {"release", "ended"} /\ worker[q][f].got
        BY <1>1, <1>4
  <2> QED BY <1>4, <2>1 DEF Inv, Shown
<1> QED BY <1>2, <1>3, <1>4 DEF Shown, Full

(* It stays the explanation of its torrent, or the torrent is cached.      *)
LEMMA ExplanationKept ==
  ASSUME Inv, NEW r \in Requests, NEW e \in Events, NEW w \in Worker,
         Moves(r, e, w),
         /\ w.new
         /\ worker[r][e].pc = "store" \/ ~worker[r][e].got
         => w.pc = "store" \/ ~w.got \/ event[e] \in cached'
  PROVE  Explained'
<1>1. \A q \in Requests, f \in Events :
        worker'[q][f] = IF q = r /\ f = e THEN w ELSE worker[q][f]
      BY Moved
<1>2. /\ w.new = worker[r][e].new /\ cached \subseteq cached'
      /\ UNCHANGED <<event, tc>>
      BY DEF Moves, stream
<1> SUFFICES ASSUME NEW t \in Torrents, tc[t] # "absent", t \notin cached'
    PROVE  \E q \in Requests, f \in Events :
             /\ event[f] = t /\ worker'[q][f].new
             /\ worker'[q][f].pc = "store" \/ ~worker'[q][f].got
    BY <1>2 DEF Explained
<1>3. PICK q \in Requests, f \in Events :
        /\ event[f] = t /\ worker[q][f].new
        /\ worker[q][f].pc = "store" \/ ~worker[q][f].got
      BY <1>2 DEF Inv, Explained
<1> QED BY <1>1, <1>2, <1>3

LEMMA WorksNext ==
  ASSUME Inv, NEW r \in Requests, NEW e \in Events, Works(r, e)
  PROVE  Inv'
<1> USE BrowserAssumption DEF WorkerKeeps, WorkerGoes, shared
<1>0. TypeOK /\ worker[r][e] \in Worker
      BY DEF Inv, TypeOK
<1> DEFINE old == worker[r][e]
<1>1. CASE GetsInfo(r, e)
  <2> DEFINE w == [old EXCEPT !.pc = IF Stores(old, event[e]) THEN "store"
                                     ELSE "send",
                              !.got = TRUE]
  <2>1. /\ w \in Worker /\ w.hit = old.hit /\ w.new = old.new /\ w.got
        /\ w.pc \in {"store", "send"}
        /\ w.new /\ ~w.hit => w.pc = "store"
        BY <1>0 DEF Worker, Stores
  <2>2. /\ worker' = [worker EXCEPT ![r][e] = w]
        BY <1>0, <1>1 DEF GetsInfo, TypeOK, Worker
  <2>3. /\ old.pc = "wait" /\ tc[event[e]] = "info"
        /\ UNCHANGED <<stream, request, tc, cached, sem, page, crashes>>
        BY <1>1 DEF GetsInfo
  <2>4. Moves(r, e, w)
        BY <2>1, <2>2, <2>3 DEF Moves, Working, Full
  <2>5. Counted'
        BY <2>1, <2>3, <2>4, PlacesKept DEF Working
  <2>6. Shown'
        BY <2>1, <2>3, <2>4, PageKept
  <2>7. Explained'
    <3>1. w.hit => event[e] \in cached'
          BY <2>1, <2>3 DEF Inv, Informed
    <3> QED BY <2>1, <2>4, <3>1, ExplanationKept
  <2>8. /\ worker' \in [Requests -> [Events -> Worker]]
        /\ Looped' /\ Informed' /\ NoSendAfterClose'
        BY <2>1, <2>4, Moved
  <2>9. TypeOK'
        BY <1>0, <2>3, <2>8 DEF TypeOK, stream, request
  <2> QED BY <2>5, <2>6, <2>7, <2>8, <2>9 DEF Inv
<1>2. CASE TimesOut(r, e)
  <2> DEFINE w == [old EXCEPT !.pc = "release"]
  <2>1. /\ w \in Worker /\ w.hit = old.hit /\ w.new = old.new
        /\ w.got = old.got /\ w.pc = "release"
        BY <1>0 DEF Worker
  <2>2. /\ worker' = [worker EXCEPT ![r][e] = w]
        BY <1>0, <1>2 DEF TimesOut, TypeOK, Worker
  <2>3. /\ old.pc = "wait"
        /\ UNCHANGED <<stream, request, tc, cached, sem, page, crashes>>
        BY <1>2 DEF TimesOut
  <2>4. ~old.got
        BY <2>3 DEF Inv, Informed
  <2>5. Moves(r, e, w)
        BY <2>1, <2>2, <2>3, <2>4 DEF Moves, Working, Full
  <2>6. Counted' /\ Shown' /\ Explained'
        BY <2>1, <2>3, <2>4, <2>5, PlacesKept, PageKept, ExplanationKept
           DEF Working
  <2>7. /\ worker' \in [Requests -> [Events -> Worker]]
        /\ Looped' /\ Informed' /\ NoSendAfterClose'
        BY <2>1, <2>5, Moved
  <2>8. TypeOK'
        BY <1>0, <2>3, <2>7 DEF TypeOK, stream, request
  <2> QED BY <2>6, <2>7, <2>8 DEF Inv
<1>3. CASE Put(r, e)
  <2> DEFINE w == [old EXCEPT !.pc = "send"]
  <2>1. /\ w \in Worker /\ w.hit = old.hit /\ w.new = old.new
        /\ w.got = old.got /\ w.pc = "send"
        BY <1>0 DEF Worker
  <2>2. /\ worker' = [worker EXCEPT ![r][e] = w]
        BY <1>0, <1>3 DEF Put, TypeOK, Worker
  <2>3. /\ old.pc = "store" /\ cached' = cached \cup {event[e]}
        /\ UNCHANGED <<stream, request, tc, sem, page, crashes>>
        BY <1>3 DEF Put
  <2>4. old.got /\ tc[event[e]] = "info"
        BY <2>3 DEF Inv, Informed
  <2>5. Moves(r, e, w)
        BY <2>1, <2>2, <2>3, <2>4 DEF Moves, Working, Full
  <2>6. Counted' /\ Shown'
        BY <2>1, <2>3, <2>5, PlacesKept, PageKept DEF Working
  <2>7. Explained'
        BY <2>1, <2>3, <2>5, ExplanationKept
  <2>8. /\ worker' \in [Requests -> [Events -> Worker]]
        /\ Looped' /\ Informed' /\ NoSendAfterClose'
        BY <2>1, <2>5, Moved
  <2>9. cached' \in SUBSET Torrents
        BY <1>0, <2>3 DEF TypeOK
  <2>10. TypeOK'
        BY <1>0, <2>3, <2>8, <2>9 DEF TypeOK, stream, request
  <2> QED BY <2>6, <2>7, <2>8, <2>10 DEF Inv
<1>4. CASE Sends(r, e)
  <2> DEFINE w == [old EXCEPT !.pc = "release"]
  <2>1. /\ w \in Worker /\ w.hit = old.hit /\ w.new = old.new
        /\ w.got = old.got /\ w.pc = "release"
        BY <1>0 DEF Worker
  <2>2. /\ worker' = [worker EXCEPT ![r][e] = w]
        BY <1>0, <1>4 DEF Sends, TypeOK, Worker
  <2>3. /\ old.pc = "send"
        /\ UNCHANGED <<stream, request, tc, cached, sem, crashes>>
        /\ page' = IF event[e] \in user /\ ~Full(r)
                   THEN [page EXCEPT ![r] = Append(@, e)] ELSE page
        BY <1>4 DEF Sends
  <2>4. old.got /\ tc[event[e]] = "info"
        BY <2>3 DEF Inv, Informed
  <2>5. /\ page' \in [Requests -> Seq(Events)]
        /\ \A q \in Requests : Len(page'[q]) <= MaxTorrents
        /\ \A q \in Requests : Full(q) => Full(q)'
        /\ \A q \in Requests : q # r => page'[q] = page[q]
        /\ event[e] \in user /\ ~Full(r) => page'[r] = Append(page[r], e)
        /\ ~(event[e] \in user /\ ~Full(r)) => page'[r] = page[r]
        BY <1>0, <2>3 DEF TypeOK, Full
  <2>6. Moves(r, e, w)
        BY <2>1, <2>2, <2>3, <2>4, <2>5 DEF Moves, Working
  <2>7. /\ worker' \in [Requests -> [Events -> Worker]]
        /\ \A q \in Requests, f \in Events :
             worker'[q][f] = IF q = r /\ f = e THEN w ELSE worker[q][f]
        /\ Looped' /\ Informed' /\ NoSendAfterClose'
        BY <2>1, <2>6, Moved
  <2>8. Counted' /\ Explained'
        BY <2>1, <2>3, <2>4, <2>6, PlacesKept, ExplanationKept DEF Working
  <2>9. ASSUME NEW q \in Requests, NEW i \in DOMAIN page'[q]
        PROVE  worker'[q][page'[q][i]].got
    <3>1. /\ page'[q][i] \in Events
          /\ worker[q][page'[q][i]].got
      <4>1. page[q] \in Seq(Events)
            BY <1>0 DEF TypeOK
      <4>2. CASE page'[q] = page[q]
            BY <2>9, <4>1, <4>2 DEF Inv, Shown
      <4>3. CASE page'[q] # page[q]
        <5>1. q = r /\ page'[q] = Append(page[q], e)
              BY <2>5, <4>3
        <5>2. \/ i \in DOMAIN page[q] /\ page'[q][i] = page[q][i]
              \/ page'[q][i] = e
              BY <2>9, <4>1, <5>1
        <5> QED BY <2>4, <4>1, <5>1, <5>2 DEF Inv, Shown
      <4> QED BY <4>2, <4>3
    <3> QED BY <2>1, <2>7, <3>1
  <2>10. ASSUME NEW q \in Requests, NEW f \in Events,
                worker'[q][f].pc \in {"release", "ended"},
                worker'[q][f].got, event[f] \in user
         PROVE  Full(q)' \/ \E i \in DOMAIN page'[q] : page'[q][i] = f
    <3>1. page[q] \in Seq(Events)
          BY <1>0 DEF TypeOK
    <3>2. CASE q = r /\ f = e
      <4>1. CASE Full(r)
            BY <2>5, <3>2, <4>1
      <4>2. CASE ~Full(r)
        <5>1. page'[q] = Append(page[q], f)
              BY <2>5, <2>10, <3>2, <4>2
        <5>2. /\ Len(page[q]) + 1 \in DOMAIN page'[q]
              /\ page'[q][Len(page[q]) + 1] = f
              BY <3>1, <5>1
        <5> QED BY <5>2
      <4> QED BY <4>1, <4>2
    <3>3. CASE ~(q = r /\ f = e)
      <4>1. worker[q][f].pc \in {"release", "ended"} /\ worker[q][f].got
            BY <2>7, <2>10, <3>3
      <4>2. Full(q) \/ \E i \in DOMAIN page[q] : page[q][i] = f
            BY <2>10, <4>1 DEF Inv, Shown
      <4>3. \A i \in DOMAIN page[q] :
              i \in DOMAIN page'[q] /\ page'[q][i] = page[q][i]
        <5>1. page'[q] = page[q] \/ page'[q] = Append(page[q], e)
              BY <2>5
        <5> QED BY <3>1, <5>1
      <4> QED BY <2>5, <4>2, <4>3
    <3> QED BY <3>2, <3>3
  <2>11. Shown'
    <3>1. UNCHANGED <<event, user>>
          BY <2>3 DEF stream
    <3> QED BY <2>9, <2>10, <3>1 DEF Shown
  <2>12. TypeOK'
        BY <1>0, <2>3, <2>5, <2>7 DEF TypeOK, stream, request
  <2> QED BY <2>7, <2>8, <2>11, <2>12 DEF Inv
<1>5. CASE Releases(r, e)
  <2> DEFINE w == [old EXCEPT !.pc = "ended"]
  <2>1. /\ w \in Worker /\ w.hit = old.hit /\ w.new = old.new
        /\ w.got = old.got /\ w.pc = "ended"
        BY <1>0 DEF Worker
  <2>2. /\ worker' = [worker EXCEPT ![r][e] = w]
        BY <1>0, <1>5 DEF Releases, TypeOK, Worker
  <2>3. /\ old.pc = "release"
        /\ UNCHANGED <<stream, request, tc, cached, page, crashes>>
        /\ \/ ~old.hit /\ sem[r] > 0 /\ sem' = [sem EXCEPT ![r] = @ - 1]
           \/ old.hit /\ UNCHANGED sem
        BY <1>5 DEF Releases, GivesBack
  <2>4. old.got => tc[event[e]] = "info"
        BY DEF Inv, Informed
  <2>5. Moves(r, e, w)
        BY <2>1, <2>2, <2>3, <2>4 DEF Moves, Working, Full
  <2>6. Shown' /\ Explained'
        BY <2>1, <2>3, <2>5, PageKept, ExplanationKept
  <2>7. /\ worker' \in [Requests -> [Events -> Worker]]
        /\ \A q \in Requests, f \in Events :
             worker'[q][f] = IF q = r /\ f = e THEN w ELSE worker[q][f]
        /\ Looped' /\ Informed' /\ NoSendAfterClose'
        BY <2>1, <2>5, Moved
  <2>8. sem' \in [Requests -> 0 .. MaxLookups]
    <3>1. CASE sem' = sem
          BY <1>0, <3>1 DEF TypeOK
    <3>2. CASE sem' = [sem EXCEPT ![r] = @ - 1] /\ sem[r] > 0
          BY <1>0, <3>2 DEF TypeOK
    <3> QED BY <2>3, <3>1, <3>2
  <2>9. TypeOK'
        BY <1>0, <2>3, <2>7, <2>8 DEF TypeOK, stream, request
  <2>10. Counted'
    <3>1. CASE old.hit
          BY <2>1, <2>3, <2>5, <3>1, PlacesKept
    <3>2. CASE ~old.hit
      <4> SUFFICES ASSUME NEW q \in Requests
                   PROVE  sem'[q] = Cardinality(Holders(q)') + Own(q)'
          BY DEF Counted
      <4>1. /\ sem[q] = Cardinality(Holders(q)) + Own(q)
            /\ Own(q)' = Own(q) /\ Holders(q) \in SUBSET Events
            /\ sem[q] \in Nat /\ Own(q) \in 0 .. 1
            BY <1>0, <2>3 DEF Inv, Counted, Own, Holders, request, TypeOK
      <4>2. CASE q # r
        <5>1. sem'[q] = sem[q] /\ Holders(q)' = Holders(q)
              BY <1>0, <2>3, <2>7, <4>2 DEF TypeOK, Holders
        <5> QED BY <4>1, <5>1
      <4>3. CASE q = r
        <5>1. sem'[q] = sem[q] - 1
              BY <1>0, <2>3, <3>2, <4>3 DEF TypeOK
        <5>2. Holders(q)' = Holders(q) \ {e} /\ e \in Holders(q)
              BY <2>1, <2>3, <2>7, <3>2, <4>3 DEF Holders, Working
        <5>3. /\ Cardinality(Holders(q) \ {e}) = Cardinality(Holders(q)) - 1
              /\ Cardinality(Holders(q)) \in Nat
              BY <4>1, <5>2, EventsFinite, FS_RemoveElement
        <5> QED BY <4>1, <5>1, <5>2, <5>3
      <4> QED BY <4>2, <4>3
    <3> QED BY <3>1, <3>2
  <2> QED BY <2>6, <2>7, <2>9, <2>10 DEF Inv
<1> QED BY <1>1, <1>2, <1>3, <1>4, <1>5 DEF Works

-----------------------------------------------------------------------------
(* The process ends and starts again, infos arrive.                        *)
LEMMA OutsideNext ==
  ASSUME Inv, \/ \E r \in Requests, e \in Events : PutPanics(r, e)
              \/ \E t \in Torrents : InfoArrives(t)
              \/ UNCHANGED vars
  PROVE  Inv'
<1> USE BrowserAssumption DEF stream, request, shared
<1>1. ASSUME NEW r \in Requests, NEW e \in Events, PutPanics(r, e)
      PROVE  Inv'
  <2>1. crashes' \in 0 .. MaxCrashes
        BY <1>1 DEF PutPanics, Inv, TypeOK
  <2>2. Blank'
        BY <1>1, <2>1 DEF PutPanics, Blank, All, NoWorkers, Inv, TypeOK
  <2>3. (Blank => Inv)'
        BY BlankInv, PTL
  <2> QED BY <2>2, <2>3
<1>2. ASSUME NEW t \in Torrents, InfoArrives(t)
      PROVE  Inv'
  <2>1. /\ UNCHANGED <<event, user, cached, pc, at, hit, sem, page,
                       worker, crashes>>
        /\ tc[t] = "added" /\ tc' = [tc EXCEPT ![t] = "info"]
        /\ TypeOK
        BY <1>2 DEF InfoArrives, Inv
  <2>2. /\ tc' \in [Torrents -> {"absent", "added", "info"}]
        /\ \A u \in Torrents : /\ tc[u] = "info" => tc'[u] = "info"
                               /\ tc[u] = "absent" <=> tc'[u] = "absent"
        BY <2>1 DEF TypeOK
  <2>3. TypeOK'
        BY <2>1, <2>2 DEF TypeOK
  <2>4. Counted' /\ Looped' /\ Shown' /\ NoSendAfterClose'
        BY <2>1 DEF Inv, Counted, Holders, Own, Looped, Shown, Full,
                    NoSendAfterClose
  <2>5. Informed'
    <3>1. \A e \in Events : event[e] \in Torrents
          BY <2>1 DEF TypeOK
    <3> QED BY <2>1, <2>2, <3>1 DEF Inv, Informed
  <2>6. Explained'
        BY <2>1, <2>2 DEF Inv, Explained
  <2> QED BY <2>3, <2>4, <2>5, <2>6 DEF Inv
<1>3. CASE UNCHANGED vars
  <2>1. UNCHANGED <<event, user, cached, pc, at, hit, sem, page, tc,
                    worker, crashes>>
        BY <1>3 DEF vars
  <2>2. TypeOK'
        BY <2>1 DEF Inv, TypeOK
  <2>3. Counted' /\ Looped' /\ Shown' /\ NoSendAfterClose'
        BY <2>1 DEF Inv, Counted, Holders, Own, Looped, Shown, Full,
                    NoSendAfterClose
  <2>4. Informed' /\ Explained'
        BY <2>1 DEF Inv, Informed, Explained
  <2> QED BY <2>2, <2>3, <2>4 DEF Inv
<1> QED BY <1>1, <1>2, <1>3

LEMMA InvAlways == Spec => []Inv
<1>1. Inv /\ [Next]_vars => Inv'
      BY LoopNext, AddsNext, WorksNext, OutsideNext DEF Next, Serves, Loop
<1> QED BY <1>1, InvInit, PTL DEF Spec

-----------------------------------------------------------------------------
(* The types of the variables, for every value of the bounds.              *)
THEOREM TypeCorrect == Spec => []TypeOK
<1>1. Inv => TypeOK
      BY DEF Inv
<1> QED BY <1>1, InvAlways, PTL

(* userTorrents is not closed under a goroutine that sends on it.          *)
THEOREM ClosedAfterSends == Spec => []NoSendAfterClose
<1>1. Inv => NoSendAfterClose
      BY DEF Inv
<1> QED BY <1>1, InvAlways, PTL

(* getInfoSem bounds the infos that one request waits for.                 *)
THEOREM LookupsAreBounded == Spec => []LookupsBounded
<1>1. ASSUME Inv, NEW r \in Requests
      PROVE  Cardinality(Looking(r)) <= MaxLookups
  <2>1. Looking(r) \subseteq Holders(r) /\ Holders(r) \in SUBSET Events
        BY DEF Looking, Holders, Working
  <2>2. Looking(r) \in SUBSET Events
        BY <2>1
  <2>3. /\ IsFiniteSet(Holders(r))
        /\ Cardinality(Holders(r)) \in Nat /\ Cardinality(Looking(r)) \in Nat
        BY <2>1, <2>2, EventsFinite
  <2>4. Cardinality(Looking(r)) <= Cardinality(Holders(r))
        BY <2>1, <2>3, FS_Subset
  <2>5. /\ sem[r] = Cardinality(Holders(r)) + Own(r)
        /\ sem[r] \in 0 .. MaxLookups /\ Own(r) \in 0 .. 1
        BY <1>1 DEF Inv, Counted, TypeOK, Own
  <2> QED BY <2>3, <2>4, <2>5, BrowserAssumption
<1>2. Inv => LookupsBounded
      BY <1>1 DEF LookupsBounded
<1> QED BY <1>2, InvAlways, PTL

(* A page with room left misses none whose info came in time.              *)
THEOREM PageComplete == Spec => []PageIsComplete
<1>1. ASSUME Inv, NEW r \in Requests, pc[r] = "done",
             Len(page[r]) < MaxTorrents, NEW e \in Events
      PROVE  /\ worker[r][e].pc # "none"
             /\ worker[r][e].got /\ event[e] \in user =>
                  \E i \in DOMAIN page[r] : page[r][i] = e
  <2>1. ~Full(r)
        BY <1>1, BrowserAssumption DEF Full
  <2>2. e < at[r]
    <3>1. at[r] = NumEvents + 1
          BY <1>1, <2>1 DEF Inv, Looped
    <3> QED BY <3>1, BrowserAssumption DEF Events
  <2>3. worker[r][e] # NoWorker /\ worker[r][e].pc # "none"
        BY <1>1, <2>2 DEF Inv, Looped, Informed
  <2>4. worker[r][e].pc \in {"release", "ended"}
    <3>1. /\ worker[r][e].pc \notin Working
          /\ worker[r][e] \in Worker
          BY <1>1 DEF Inv, NoSendAfterClose, TypeOK
    <3> QED BY <2>3, <3>1 DEF Working, Worker
  <2> QED BY <1>1, <2>1, <2>3, <2>4 DEF Inv, Shown
<1>2. Inv => PageIsComplete
      BY <1>1 DEF PageIsComplete
<1> QED BY <1>2, InvAlways, PTL

(* What the client still waits for is not cached, it has every torrent     *)
(* whose event a load has come to, and a torrent that it has not is not    *)
(* cached behind the back of a load that did not find it in the cache.     *)
Known ==
    /\ \A t \in Torrents : tc[t] = "added" => t \notin cached
    /\ \A t \in Torrents : Reached(t) => tc[t] # "absent"
    /\ \A r \in Requests :
         /\ pc[r] \in {"acquire", "add"} /\ ~hit[r]
         /\ tc[Torrent(r)] = "absent"
         => Torrent(r) \notin cached

LEMMA KnownInit == Init => Known
BY DEF Init, Known, Reached, All, NoWorkers, NoWorker

LEMMA KnownServes ==
  ASSUME Inv, Known, NEW r \in Requests, Serves(r)
  PROVE  Known'
<1> USE DEF RequestKeeps, Goes, stream, Torrent
<1>0. TypeOK /\ UNCHANGED <<event, cached>>
      BY DEF Inv, Serves, Loads, LooksUp, LookupFails, Acquires, Adds, Checks,
         Renders
<1>1. CASE Adds(r)
  <2>1. /\ pc[r] = "add" /\ at[r] \in Events /\ event[at[r]] \in Torrents
        /\ hit[r] \in BOOLEAN
    <3>1. pc[r] = "add" /\ at[r] \in 1 .. NumEvents + 1
          BY <1>0, <1>1 DEF Adds, TypeOK
    <3>2. at[r] <= NumEvents
          BY <3>1 DEF Inv, Looped
    <3>3. at[r] \in Events
          BY <3>1, <3>2, BrowserAssumption DEF Events
    <3> QED BY <1>0, <3>1, <3>3 DEF TypeOK
  <2>2. /\ \A t \in Torrents \ {event[at[r]]} : tc'[t] = tc[t]
        /\ tc'[event[at[r]]] = IF tc[event[at[r]]] # "absent"
                              THEN tc[event[at[r]]]
                              ELSE IF hit[r] THEN "info" ELSE "added"
        /\ UNCHANGED <<at, hit>>
        /\ \A q \in Requests : pc'[q] = IF q = r THEN "check" ELSE pc[q]
        BY <1>0, <1>1, <2>1 DEF Adds, TypeOK
  <2>3. \A t \in Torrents : Reached(t)' => Reached(t) \/ t = event[at[r]]
        BY <1>0, <1>1 DEF Adds, Reached, TypeOK
  <2>4. \A t \in Torrents : tc'[t] = "absent" => tc[t] = "absent"
        BY <2>1, <2>2
  <2>5. \A q \in Requests : pc'[q] \in {"acquire", "add"} =>
          event[at[q]] \in Torrents
    <3> SUFFICES ASSUME NEW q \in Requests, pc'[q] \in {"acquire", "add"}
                 PROVE  event[at[q]] \in Torrents
        OBVIOUS
    <3>1. at[q] \in 1 .. NumEvents + 1 /\ at[q] <= NumEvents
          BY <1>0, <2>2 DEF Inv, Looped, TypeOK
    <3>2. at[q] \in Events
          BY <3>1, BrowserAssumption DEF Events
    <3> QED BY <1>0, <3>2 DEF TypeOK
  <2>6. \A t \in Torrents : tc'[t] = "added" => t \notin cached
        BY <2>1, <2>2 DEF Known
  <2>7. \A t \in Torrents : Reached(t)' => tc'[t] # "absent"
        BY <2>1, <2>2, <2>3, <2>4 DEF Known
  <2>8. \A q \in Requests :
          /\ pc'[q] \in {"acquire", "add"} /\ ~hit[q]
          /\ tc'[event[at[q]]] = "absent"
          => event[at[q]] \notin cached
        BY <2>2, <2>4, <2>5 DEF Known
  <2> QED BY <1>0, <2>2, <2>6, <2>7, <2>8 DEF Known
<1>2. CASE ~Adds(r)
  <2>1. UNCHANGED <<tc, worker>>
        BY <1>2 DEF Serves, Loads, LooksUp, LookupFails, Acquires, Checks,
           Renders
  <2>2. \A t \in Torrents : Reached(t)' = Reached(t)
        BY <1>0, <2>1 DEF Reached
  <2>3. ASSUME NEW q \in Requests, pc'[q] \in {"acquire", "add"}, ~hit'[q]
        PROVE  /\ at'[q] = at[q]
               /\ \/ pc[q] \in {"acquire", "add"} /\ ~hit[q]
                  \/ event[at[q]] \notin cached
    <3>1. CASE LooksUp(r)
      <4>1. at' = at
            BY <3>1 DEF LooksUp
      <4>2. CASE q = r
        <5>1. hit'[r] = (event[at[r]] \in cached)
              BY <1>0, <3>1, Zenon DEF LooksUp, TypeOK
        <5> QED BY <2>3, <4>1, <4>2, <5>1
      <4>3. CASE q # r
        <5>1. pc'[q] = pc[q] /\ hit'[q] = hit[q]
              BY <1>0, <3>1, <4>3 DEF LooksUp, TypeOK
        <5> QED BY <2>3, <4>1, <5>1
      <4> QED BY <4>2, <4>3
    <3>2. CASE Acquires(r)
      <4>1. UNCHANGED <<at, hit>> /\ pc[r] = "acquire"
            BY <3>2 DEF Acquires
      <4>2. \A s \in Requests \ {r} : pc'[s] = pc[s]
            BY <1>0, <3>2 DEF Acquires, TypeOK
      <4> QED BY <2>3, <4>1, <4>2
    <3>3. CASE Loads(r) \/ LookupFails(r) \/ Checks(r) \/ Renders(r)
      <4>1. hit' = hit /\ pc'[r] \in {"next", "wait", "left", "done"}
            BY <1>0, <3>3 DEF Loads, LookupFails, Checks, Renders, TypeOK
      <4>2. \A s \in Requests \ {r} : pc'[s] = pc[s] /\ at'[s] = at[s]
            BY <1>0, <3>3 DEF Loads, LookupFails, Checks, Renders, TypeOK
      <4>3. q # r
            BY <2>3, <4>1
      <4> QED BY <2>3, <4>1, <4>2, <4>3
    <3> QED BY <1>2, <3>1, <3>2, <3>3 DEF Serves
  <2> QED BY <1>0, <2>1, <2>2, <2>3 DEF Known
<1> QED BY <1>1, <1>2

LEMMA KnownNext == Inv /\ Known /\ [Next]_vars => Known'
<1> SUFFICES ASSUME Inv, Known, [Next]_vars PROVE Known'
    OBVIOUS
<1> USE DEF stream, request, shared
<1>0. TypeOK
      BY DEF Inv
<1>1. CASE UNCHANGED vars
      BY <1>1 DEF vars, Known, Reached, Torrent
<1>2. ASSUME NEW r \in Requests, NEW e \in Events, Works(r, e)
      PROVE  Known'
  <2>1. UNCHANGED <<event, pc, at, hit, tc>>
        BY <1>2 DEF Works, GetsInfo, TimesOut, Put, Sends, Releases,
           WorkerKeeps
  <2>2. \A t \in Torrents : Reached(t)' => Reached(t)
    <3>1. worker[r][e].pc # "none"
          BY <1>2 DEF Works, GetsInfo, TimesOut, Put, Sends, Releases
    <3>2. \A q \in Requests, f \in Events :
            q # r \/ f # e => worker'[q][f] = worker[q][f]
          BY <1>0, <1>2 DEF Works, GetsInfo, TimesOut, Put, Sends, Releases,
             WorkerGoes, TypeOK
    <3> QED BY <2>1, <3>1, <3>2 DEF Reached
  <2>3. \A t \in Torrents : t \in cached' => t \in cached \/ tc[t] = "info"
    <3>1. CASE Put(r, e)
      <4>1. cached' = cached \cup {event[e]} /\ worker[r][e].pc = "store"
            BY <3>1 DEF Put
      <4>2. tc[event[e]] = "info"
            BY <4>1 DEF Inv, Informed
      <4> QED BY <4>1, <4>2
    <3>2. CASE ~Put(r, e)
          BY <1>2, <3>2 DEF Works, GetsInfo, TimesOut, Sends, Releases
    <3> QED BY <3>1, <3>2
  <2>4. \A r2 \in Requests : pc[r2] \in {"acquire", "add"} =>
          event[at[r2]] \in Torrents
    <3> SUFFICES ASSUME NEW q \in Requests, pc[q] \in {"acquire", "add"}
                 PROVE  event[at[q]] \in Torrents
        OBVIOUS
    <3>1. at[q] \in 1 .. NumEvents + 1 /\ at[q] <= NumEvents
          BY <1>0 DEF Inv, Looped, TypeOK
    <3>2. at[q] \in Events
          BY <3>1, BrowserAssumption DEF Events
    <3> QED BY <1>0, <3>2 DEF TypeOK
  <2> QED BY <2>1, <2>2, <2>3, <2>4 DEF Known, Torrent
<1>3. ASSUME NEW r \in Requests, NEW e \in Events, PutPanics(r, e)
      PROVE  Known'
  <2>1. /\ \A t \in Torrents : tc'[t] = "absent"
        /\ \A q \in Requests : pc'[q] = "idle"
        /\ \A q \in Requests, f \in Events : worker'[q][f].pc = "none"
        BY <1>3 DEF PutPanics, All, NoWorkers, NoWorker
  <2> QED BY <2>1 DEF Known, Reached
<1>4. ASSUME NEW t \in Torrents, InfoArrives(t)
      PROVE  Known'
  <2>1. /\ UNCHANGED <<event, cached, pc, at, hit, worker>>
        /\ tc[t] = "added" /\ tc' = [tc EXCEPT ![t] = "info"]
        BY <1>4 DEF InfoArrives
  <2>2. \A u \in Torrents : /\ tc'[u] = "added" => tc[u] = "added"
                            /\ tc'[u] = "absent" <=> tc[u] = "absent"
        BY <1>0, <2>1 DEF TypeOK
  <2>3. \A u \in Torrents : Reached(u)' = Reached(u)
        BY <2>1 DEF Reached
  <2>4. \A q \in Requests : pc[q] \in {"acquire", "add"} =>
          event[at[q]] \in Torrents
    <3> SUFFICES ASSUME NEW q \in Requests, pc[q] \in {"acquire", "add"}
                 PROVE  event[at[q]] \in Torrents
        OBVIOUS
    <3>1. at[q] \in 1 .. NumEvents + 1 /\ at[q] <= NumEvents
          BY <1>0 DEF Inv, Looped, TypeOK
    <3>2. at[q] \in Events
          BY <3>1, BrowserAssumption DEF Events
    <3> QED BY <1>0, <3>2 DEF TypeOK
  <2> QED BY <2>1, <2>2, <2>3, <2>4 DEF Known, Torrent
<1> QED BY <1>1, <1>2, <1>3, <1>4, KnownServes DEF Next

(* What a page links to is served as long as its process lives, and again  *)
(* by a later one, once a load has come to its event and its info is in    *)
(* the cache, whatever other loads do (84-85, 128-137).                    *)
THEOREM LinksServed == Spec => []LinksAreServed
<1>1. ASSUME Inv, NEW r \in Requests, NEW i \in DOMAIN page[r]
      PROVE  Servable(event[page[r][i]])
  <2>1. page[r][i] \in Events /\ worker[r][page[r][i]].got
        BY <1>1 DEF Inv, Shown, TypeOK
  <2> QED BY <1>1, <2>1 DEF Inv, Informed, Servable
<1>2. ASSUME Inv, Known, NEW t \in Torrents, Reached(t), t \in cached
      PROVE  Servable(t)
  <2>1. tc[t] \in {"absent", "added", "info"}
        BY <1>2 DEF Inv, TypeOK
  <2> QED BY <1>2, <2>1 DEF Known, Servable
<1>3. Inv /\ Known => LinksAreServed
      BY <1>1, <1>2 DEF LinksAreServed
<1> QED BY <1>3, InvAlways, KnownInit, KnownNext, PTL DEF Spec

(* An info the client has and the cache has not has an explanation.        *)
THEOREM UncachedExplained == Spec => []UncachedIsExplained
<1>1. ASSUME Inv, NEW t \in Torrents, tc[t] = "info", t \notin cached
      PROVE  \E r \in Requests, e \in Events :
               /\ event[e] = t /\ worker[r][e].new
               /\ worker[r][e].pc \in {"wait", "store"} \/ ~worker[r][e].got
      BY <1>1 DEF Inv, Explained
<1>2. Inv => UncachedIsExplained
      BY <1>1 DEF UncachedIsExplained
<1> QED BY <1>2, InvAlways, PTL
-----------------------------------------------------------------------------
(* What getInfoSem and a rendered page are worth.                          *)

(* <-getInfoSem never blocks, and when a request and its goroutines have   *)
(* ended all places are free (133, 169-171).                               *)
Ended(r) == /\ pc[r] \in {"done", "left"}
            /\ \A e \in Events : worker[r][e].pc \in {"none", "ended"}
PlacesReturned ==
    \A r \in Requests :
      /\ \A e \in Events :
           worker[r][e].pc = "release" /\ ~worker[r][e].hit => sem[r] > 0
      /\ Ended(r) => sem[r] = 0

LEMMA HoldersCounted ==
  ASSUME Inv, NEW r \in Requests
  PROVE  /\ IsFiniteSet(Holders(r)) /\ Cardinality(Holders(r)) \in Nat
         /\ sem[r] = Cardinality(Holders(r)) + Own(r) /\ sem[r] \in Nat
         /\ Own(r) \in 0 .. 1
         /\ Cardinality(Holders(r)) = 0 <=> Holders(r) = {}
<1>1. Holders(r) \in SUBSET Events
      BY DEF Holders
<1>2. IsFiniteSet(Holders(r)) /\ Cardinality(Holders(r)) \in Nat
      BY <1>1, EventsFinite
<1>3. Cardinality(Holders(r)) = 0 <=> Holders(r) = {}
      BY <1>2, FS_EmptySet
<1>4. sem[r] = Cardinality(Holders(r)) + Own(r) /\ Own(r) \in 0 .. 1
      BY DEF Inv, Counted, Own
<1> QED BY <1>2, <1>3, <1>4

LEMMA Returned == Inv => PlacesReturned
<1>1. ASSUME Inv, NEW r \in Requests, NEW e \in Events,
             worker[r][e].pc = "release", ~worker[r][e].hit
      PROVE  sem[r] > 0
  <2>1. e \in Holders(r)
        BY <1>1 DEF Holders
  <2>2. Holders(r) # {}
        BY <2>1
  <2>3. Cardinality(Holders(r)) > 0
        BY <1>1, <2>2, HoldersCounted
  <2> QED BY <1>1, <2>3, HoldersCounted
<1>2. ASSUME Inv, NEW r \in Requests, Ended(r)
      PROVE  sem[r] = 0
  <2>1. Holders(r) = {} /\ Own(r) = 0
        BY <1>2 DEF Ended, Holders, Own, Working
  <2> QED BY <1>2, <2>1, HoldersCounted
<1> QED BY <1>1, <1>2 DEF PlacesReturned

(* No place is lost, and no goroutine waits to give one back.              *)
THEOREM AllPlacesReturned == Spec => []PlacesReturned
BY Returned, InvAlways, PTL

(* A page that was rendered is not written to any more, except by the end  *)
(* of the process.                                                         *)
PageStays ==
    \A r \in Requests :
      pc[r] = "done" =>
        crashes' # crashes \/ (pc'[r] = "done" /\ page'[r] = page[r])

THEOREM RenderedPageStays == Spec => [][PageStays]_vars
<1>1. ASSUME Inv, Next, NEW r \in Requests, pc[r] = "done",
             crashes' = crashes
      PROVE  pc'[r] = "done" /\ page'[r] = page[r]
  <2> USE <1>1 DEF request, stream, shared
  <2>0. /\ TypeOK /\ crashes \in Nat
        /\ \A e \in Events : worker[r][e].pc # "send"
        BY DEF Inv, TypeOK, NoSendAfterClose, Working
  <2>1. ASSUME NEW q \in Requests, Serves(q)
        PROVE  pc'[r] = "done" /\ page'[r] = page[r]
        BY <2>0, <2>1 DEF TypeOK, Serves, Loads, LooksUp, LookupFails,
           Acquires, Adds, Checks, Renders, RequestKeeps, Goes
  <2>2. ASSUME NEW q \in Requests, NEW e \in Events, Works(q, e)
        PROVE  pc'[r] = "done" /\ page'[r] = page[r]
    <3>1. pc' = pc
          BY <2>2 DEF Works, GetsInfo, TimesOut, Put, Sends, Releases,
             WorkerKeeps
    <3>2. CASE Sends(q, e)
      <4>1. q # r
            BY <2>0, <3>2 DEF Sends
      <4> QED BY <2>0, <3>1, <3>2, <4>1 DEF Sends, TypeOK
    <3>3. CASE ~Sends(q, e)
          BY <2>2, <3>1, <3>3 DEF Works, GetsInfo, TimesOut, Put, Releases
    <3> QED BY <3>2, <3>3
  <2>3. ASSUME NEW q \in Requests, NEW e \in Events, PutPanics(q, e)
        PROVE  FALSE
        BY <2>0, <2>3 DEF PutPanics
  <2>4. ASSUME NEW t \in Torrents, InfoArrives(t)
        PROVE  pc'[r] = "done" /\ page'[r] = page[r]
        BY <2>4 DEF InfoArrives
  <2> QED BY <2>1, <2>2, <2>3, <2>4 DEF Next
<1>2. Inv /\ [Next]_vars => [PageStays]_vars
      BY <1>1 DEF PageStays
<1> QED BY <1>2, InvAlways, PTL DEF Spec

-----------------------------------------------------------------------------
(* A request takes a bounded number of steps, and cannot stop before it    *)
(* and its goroutines have ended.                                          *)

(* What a fair action waits for besides the value of its pc: a place, and  *)
(* the goroutines that may still send.                                     *)
LoopCanGoOn(r) == \/ pc[r] \in {"idle", "next", "add", "check"}
                  \/ pc[r] = "acquire" /\ sem[r] < MaxLookups
                  \/ pc[r] = "wait" /\ WaitReturns(r)
WorkerCanGoOn(r, e) ==
    \/ worker[r][e].pc \in Working
    \/ worker[r][e].pc = "release" /\ (GivesBack(worker[r][e]) => sem[r] > 0)
CanGoOn(r) == LoopCanGoOn(r) \/ \E e \in Events : WorkerCanGoOn(r, e)

(* Every goroutine that has not ended can go on, so that one which the     *)
(* loop waits for, at a full getInfoSem or at wg.Wait, can (133-185).      *)
NeverStuck ==
    \A r \in Requests :
      /\ \A e \in Events :
           worker[r][e].pc \notin {"none", "ended"} => WorkerCanGoOn(r, e)
      /\ ~Ended(r) => CanGoOn(r)

THEOREM PagesGoOn == Spec => []NeverStuck
<1>1. ASSUME Inv, NEW r \in Requests, NEW e \in Events,
             worker[r][e].pc \notin {"none", "ended"}
      PROVE  WorkerCanGoOn(r, e)
  <2>1. worker[r][e] \in Worker
        BY <1>1 DEF Inv, TypeOK
  <2>2. worker[r][e].pc \in Working \cup {"release"}
        BY <1>1, <2>1 DEF Worker, Working
  <2> QED BY <1>1, <2>2, Returned DEF PlacesReturned, WorkerCanGoOn, GivesBack
<1>2. ASSUME Inv, NEW r \in Requests, ~Ended(r)
      PROVE  CanGoOn(r)
  <2>1. pc[r] \in {"idle", "next", "acquire", "add", "check", "wait", "done",
                  "left"}
        BY <1>2 DEF Inv, TypeOK
  <2>2. CASE \E e \in Events : worker[r][e].pc \notin {"none", "ended"}
        BY <1>1, <1>2, <2>2 DEF CanGoOn
  <2>3. CASE \A e \in Events : worker[r][e].pc \in {"none", "ended"}
    <3>1. WaitReturns(r) /\ pc[r] \notin {"done", "left"}
          BY <1>2, <2>3 DEF WaitReturns, Working, Ended
    <3>2. pc[r] = "acquire" => sem[r] < MaxLookups
      <4>1. pc[r] = "acquire" => Holders(r) = {} /\ Own(r) = 0
            BY <2>3 DEF Holders, Own, Working
      <4>2. pc[r] = "acquire" => sem[r] = 0
            BY <1>2, <4>1, HoldersCounted
      <4> QED BY <4>2, BrowserAssumption
    <3> QED BY <2>1, <3>1, <3>2 DEF CanGoOn, LoopCanGoOn
  <2> QED BY <2>2, <2>3
<1>3. Inv => NeverStuck
      BY <1>1, <1>2 DEF NeverStuck
<1> QED BY <1>3, InvAlways, PTL

(* The steps a request may still take: of its loop, which starts the next  *)
(* event with four to take, and of its goroutines.                         *)
Rank == [idle |-> 5, next |-> 4, acquire |-> 3, add |-> 2, check |-> 1,
         wait |-> 1, done |-> 0, left |-> 0]
Todo == [none |-> 5, wait |-> 4, store |-> 3, send |-> 2, release |-> 1,
         ended |-> 0]
LoopLeft(r) == IF pc[r] \in {"done", "left"} THEN 0
               ELSE 5 * (NumEvents + 1 - at[r]) + Rank[pc[r]]
Undone(r) ==
    {p \in Events \X (1 .. 5) : p[2] <= Todo[worker[r][p[1]].pc]}
StepsLeft(r) == LoopLeft(r) + Cardinality(Undone(r))

(* Each step of a request or of one of its goroutines leaves it fewer, and *)
(* no step more; only a new process starts anew (125-186).                 *)
StepsBounded == \A r \in Requests : StepsLeft(r) \in 0 .. 10 * NumEvents + 5
RunsOut ==
    \A r \in Requests :
      \/ crashes' # crashes
      \/ /\ StepsLeft(r)' <= StepsLeft(r)
         /\ Serves(r) \/ (\E e \in Events : Works(r, e))
              => StepsLeft(r)' < StepsLeft(r)
StepsRunOut == [][RunsOut]_vars

Places == {"none", "wait", "store", "send", "release", "ended"}

LEMMA TodoIsNat == \A p \in Places : Todo[p] \in 0 .. 5
BY DEF Places, Todo

LEMMA LeftTypes ==
  ASSUME TypeOK, NEW r \in Requests
  PROVE  /\ LoopLeft(r) \in 0 .. 5 * NumEvents + 5
         /\ IsFiniteSet(Undone(r))
         /\ Cardinality(Undone(r)) \in 0 .. 5 * NumEvents
<1> USE BrowserAssumption
<1>1. LoopLeft(r) \in 0 .. 5 * NumEvents + 5
  <2>1. /\ at[r] \in 1 .. NumEvents + 1
        /\ pc[r] \in {"idle", "next", "acquire", "add", "check", "wait",
                      "done", "left"}
        BY DEF TypeOK
  <2>2. Rank[pc[r]] \in 0 .. 5
        BY <2>1 DEF Rank
  <2> QED BY <2>1, <2>2 DEF LoopLeft
<1>2. /\ IsFiniteSet(Events) /\ Cardinality(Events) = NumEvents
      /\ IsFiniteSet(1 .. 5) /\ Cardinality(1 .. 5) = 5
  <2>1. IsFiniteSet(Events) /\ Cardinality(Events) = NumEvents
        BY FS_Interval DEF Events
  <2>2. IsFiniteSet(1 .. 5) /\ Cardinality(1 .. 5) = 5
    <3>1. 1 \in Int /\ 5 \in Int /\ 5 - 1 + 1 = 5 /\ ~(1 > 5)
          OBVIOUS
    <3> HIDE BrowserAssumption
    <3>2. /\ IsFiniteSet(1 .. 5)
          /\ Cardinality(1 .. 5) = IF 1 > 5 THEN 0 ELSE 5 - 1 + 1
          BY <3>1, FS_Interval, Zenon
    <3> QED BY <3>1, <3>2
  <2> QED BY <2>1, <2>2
<1>3. /\ IsFiniteSet(Events \X (1 .. 5))
      /\ Cardinality(Events \X (1 .. 5)) = NumEvents * 5
      BY <1>2, FS_Product
<1>4. Undone(r) \subseteq Events \X (1 .. 5)
      BY DEF Undone
<1>5. /\ IsFiniteSet(Undone(r))
      /\ Cardinality(Undone(r)) <= Cardinality(Events \X (1 .. 5))
      BY <1>3, <1>4, FS_Subset
<1>6. Cardinality(Undone(r)) \in Nat
      BY <1>5, FS_CardinalityType
<1> QED BY <1>1, <1>3, <1>5, <1>6

LEMMA Bounded == TypeOK => StepsBounded
<1> SUFFICES ASSUME TypeOK, NEW r \in Requests
             PROVE  StepsLeft(r) \in 0 .. 10 * NumEvents + 5
    BY DEF StepsBounded
<1>1. /\ LoopLeft(r) \in 0 .. 5 * NumEvents + 5
      /\ Cardinality(Undone(r)) \in 0 .. 5 * NumEvents
      BY LeftTypes
<1> QED BY <1>1, BrowserAssumption DEF StepsLeft

Finite == \A r \in Requests : /\ LoopLeft(r) \in Nat
                             /\ IsFiniteSet(Undone(r))
                             /\ Cardinality(Undone(r)) \in Nat

LEMMA LeftFinite == TypeOK => Finite
<1> SUFFICES ASSUME TypeOK, NEW r \in Requests
             PROVE  /\ LoopLeft(r) \in Nat /\ IsFiniteSet(Undone(r))
                    /\ Cardinality(Undone(r)) \in Nat
    BY DEF Finite
<1> QED BY LeftTypes, BrowserAssumption

(* A goroutine that goes on leaves its request fewer steps.                *)
LEMMA UndoneShrinks ==
  ASSUME TypeOK, TypeOK', NEW r \in Requests, NEW e \in Events,
         \A f \in Events : f # e => worker'[r][f] = worker[r][f],
         Todo[worker'[r][e].pc] < Todo[worker[r][e].pc]
  PROVE  Cardinality(Undone(r)') < Cardinality(Undone(r))
<1> DEFINE k == Todo[worker[r][e].pc]
           k2 == Todo[worker'[r][e].pc]
<1>1. k \in 0 .. 5 /\ k2 \in 0 .. 5
  <2>1. worker[r][e].pc \in Places /\ worker'[r][e].pc \in Places
        BY DEF TypeOK, Worker, Places
  <2> QED BY <2>1, TodoIsNat
<1>2. Undone(r)' \subseteq Undone(r)
  <2> SUFFICES ASSUME NEW f \in Events, NEW n \in 1 .. 5,
                      n <= Todo[worker'[r][f].pc]
               PROVE  n <= Todo[worker[r][f].pc]
      BY DEF Undone
  <2>1. CASE f = e
        BY <1>1, <2>1
  <2>2. CASE f # e
        BY <2>2
  <2> QED BY <2>1, <2>2
<1>3. <<e, k>> \in Undone(r) /\ <<e, k>> \notin Undone(r)'
  <2>1. k \in 1 .. 5 /\ ~(k <= k2)
        BY <1>1
  <2> QED BY <2>1 DEF Undone
<1>4. IsFiniteSet(Undone(r)) /\ IsFiniteSet(Undone(r)')
  <2>1. (TypeOK => Finite)'
        BY LeftFinite, PTL
  <2> QED BY <2>1, LeftFinite DEF Finite
<1>5. Undone(r)' # Undone(r)
      BY <1>3
<1>6. /\ Cardinality(Undone(r)') <= Cardinality(Undone(r))
      /\ Cardinality(Undone(r)') # Cardinality(Undone(r))
      BY <1>2, <1>4, <1>5, FS_Subset
<1>7. Cardinality(Undone(r)) \in Nat /\ Cardinality(Undone(r)') \in Nat
      BY <1>4, FS_CardinalityType
<1> QED BY <1>6, <1>7

(* A step of the loop leaves it fewer.                                     *)
LEMMA LoopLeftShrinks ==
  ASSUME Inv, TypeOK', NEW r \in Requests, Serves(r)
  PROVE  LoopLeft(r)' < LoopLeft(r)
<1> USE BrowserAssumption DEF RequestKeeps, Goes, stream
<1>1. /\ TypeOK /\ at[r] \in 1 .. NumEvents + 1
      /\ at'[r] \in 1 .. NumEvents + 1
      /\ pc[r] = "idle" => at[r] = 1
      BY DEF Inv, TypeOK, Looped
<1>2. \/ /\ at'[r] = at[r]
         /\ \/ pc[r] = "idle" /\ pc'[r] \in {"wait", "next"}
            \/ pc[r] = "next" /\ pc'[r] \in {"acquire", "add", "left"}
            \/ pc[r] = "acquire" /\ pc'[r] = "add"
            \/ pc[r] = "add" /\ pc'[r] = "check"
            \/ pc[r] = "wait" /\ pc'[r] = "done"
      \/ /\ at'[r] = at[r] + 1
         /\ pc[r] = "check" /\ pc'[r] \in {"left", "wait", "next"}
      BY <1>1 DEF Serves, Loads, LooksUp, LookupFails, Acquires, Adds, Checks,
                  Renders, TypeOK
<1> QED BY <1>1, <1>2 DEF LoopLeft, Rank

(* No step of any request gives one more to do, while the process lasts.  *)
LEMMA StepLeaves ==
  ASSUME Inv, TypeOK', Next, crashes' = crashes, NEW r \in Requests
  PROVE  /\ LoopLeft(r)' <= LoopLeft(r)
         /\ Cardinality(Undone(r)') <= Cardinality(Undone(r))
         /\ Serves(r) => LoopLeft(r)' < LoopLeft(r)
         /\ (\E e \in Events : Works(r, e))
              => Cardinality(Undone(r)') < Cardinality(Undone(r))
<1> USE DEF stream, request, shared
<1>1. /\ TypeOK /\ crashes \in Nat /\ LoopLeft(r) \in Nat
      /\ LoopLeft(r)' \in Nat /\ Cardinality(Undone(r)) \in Nat
      /\ Cardinality(Undone(r)') \in Nat
  <2>1. (TypeOK => Finite)'
        BY LeftFinite, PTL
  <2> QED BY <2>1, LeftFinite DEF Inv, TypeOK, Finite
<1>2. /\ UNCHANGED <<pc, at>> => LoopLeft(r)' = LoopLeft(r)
      /\ worker'[r] = worker[r]
           => Cardinality(Undone(r)') = Cardinality(Undone(r))
      BY DEF LoopLeft, Undone
<1>3. ASSUME NEW q \in Requests, NEW e \in Events, Works(q, e)
      PROVE  /\ UNCHANGED <<pc, at>>
             /\ Cardinality(Undone(r)') <= Cardinality(Undone(r))
             /\ q = r => Cardinality(Undone(r)') < Cardinality(Undone(r))
  <2>1. UNCHANGED <<pc, at>>
        BY <1>3 DEF Works, GetsInfo, TimesOut, Put, Sends, Releases,
           WorkerKeeps
  <2>2. /\ \A p \in Requests : p # q => worker'[p] = worker[p]
        /\ \A f \in Events : f # e => worker'[q][f] = worker[q][f]
        /\ \/ /\ worker[q][e].pc = "wait"
              /\ worker'[q][e].pc \in {"store", "send", "release"}
           \/ worker[q][e].pc = "store" /\ worker'[q][e].pc = "send"
           \/ worker[q][e].pc = "send" /\ worker'[q][e].pc = "release"
           \/ worker[q][e].pc = "release" /\ worker'[q][e].pc = "ended"
    <3>1. CASE GetsInfo(q, e)
          BY <1>1, <3>1 DEF GetsInfo, TypeOK, Worker
    <3>2. CASE TimesOut(q, e)
          BY <1>1, <3>2 DEF TimesOut, WorkerGoes, TypeOK, Worker
    <3>3. CASE Put(q, e)
          BY <1>1, <3>3 DEF Put, WorkerGoes, TypeOK, Worker
    <3>4. CASE Sends(q, e)
          BY <1>1, <3>4 DEF Sends, WorkerGoes, TypeOK, Worker
    <3>5. CASE Releases(q, e)
          BY <1>1, <3>5 DEF Releases, WorkerGoes, TypeOK, Worker
    <3> QED BY <1>3, <3>1, <3>2, <3>3, <3>4, <3>5 DEF Works
  <2>3. Todo[worker'[q][e].pc] < Todo[worker[q][e].pc]
        BY <2>2 DEF Todo
  <2>4. CASE q = r
        BY <1>1, <2>1, <2>2, <2>3, <2>4, UndoneShrinks
  <2>5. CASE q # r
        BY <1>1, <1>2, <2>1, <2>2, <2>5
  <2> QED BY <2>4, <2>5
<1>4. ASSUME NEW q \in Requests, Serves(q)
      PROVE  /\ q # r => LoopLeft(r)' = LoopLeft(r)
             /\ Cardinality(Undone(r)') <= Cardinality(Undone(r))
             /\ pc' # pc
  <2>1. q # r => pc'[r] = pc[r] /\ at'[r] = at[r]
        BY <1>1, <1>4 DEF Serves, Loads, LooksUp, LookupFails, Acquires, Adds,
           Checks, Renders, RequestKeeps, Goes, TypeOK
  <2>2. q # r => LoopLeft(r)' = LoopLeft(r)
        BY <2>1 DEF LoopLeft
  <2>3. Cardinality(Undone(r)') <= Cardinality(Undone(r))
    <3>1. CASE Adds(q) /\ q = r
      <4>1. pc[q] = "add" /\ at[q] \in Events /\ worker[q][at[q]] = NoWorker
        <5>1. pc[q] = "add" /\ at[q] \in 1 .. NumEvents + 1
              BY <1>1, <3>1 DEF Adds, TypeOK
        <5>2. at[q] <= NumEvents
              BY <5>1 DEF Inv, Looped
        <5>3. at[q] \in Events
              BY <5>1, <5>2, BrowserAssumption DEF Events
        <5>4. ~(at[q] < at[q] \/ (at[q] = at[q] /\ pc[q] = "check"))
              BY <5>1
        <5> QED BY <5>1, <5>3, <5>4 DEF Inv, Looped
      <4>2. /\ worker'[r][at[r]].pc = "wait"
            /\ \A f \in Events : f # at[r] => worker'[r][f] = worker[r][f]
            BY <1>1, <3>1, <4>1 DEF Adds, TypeOK
      <4>3. Todo[worker'[r][at[r]].pc] < Todo[worker[r][at[r]].pc]
            BY <3>1, <4>1, <4>2 DEF Todo, NoWorker
      <4> QED BY <1>1, <2>2, <3>1, <4>1, <4>2, <4>3, UndoneShrinks
    <3>2. CASE ~(Adds(q) /\ q = r)
      <4>1. worker'[r] = worker[r]
            BY <1>1, <1>4, <3>2 DEF Serves, Loads, LooksUp, LookupFails,
               Acquires, Adds, Checks, Renders, TypeOK
      <4> QED BY <1>1, <1>2, <4>1
    <3> QED BY <3>1, <3>2
  <2>4. pc'[q] # pc[q]
        BY <1>1, <1>4 DEF Serves, Loads, LooksUp, LookupFails, Acquires, Adds,
           Checks, Renders, Goes, TypeOK
  <2>5. pc' # pc
        BY <2>4
  <2> QED BY <2>2, <2>3, <2>5
<1>5. ASSUME ~(\E q \in Requests : Serves(q)),
             ~(\E q \in Requests, e \in Events : Works(q, e))
      PROVE  UNCHANGED <<pc, at, worker>>
  <2>1. ASSUME NEW q \in Requests, NEW e \in Events, PutPanics(q, e)
        PROVE  FALSE
        BY <1>1, <2>1 DEF PutPanics
  <2>2. ASSUME NEW t \in Torrents, InfoArrives(t)
        PROVE  UNCHANGED <<pc, at, worker>>
        BY <2>2 DEF InfoArrives
  <2> QED BY <1>5, <2>1, <2>2 DEF Next
<1>6. CASE \E q \in Requests : Serves(q)
  <2>1. PICK q \in Requests : Serves(q)
        BY <1>6
  <2>2. ~\E e \in Events : Works(r, e)
        BY <1>3, <1>4, <2>1
  <2>3. Serves(r) => LoopLeft(r)' < LoopLeft(r)
        BY LoopLeftShrinks
  <2>4. LoopLeft(r)' <= LoopLeft(r)
        BY <1>1, <1>4, <2>1, <2>3
  <2> QED BY <1>4, <2>1, <2>2, <2>3, <2>4
<1>7. CASE \E q \in Requests, e \in Events : Works(q, e)
  <2>1. PICK q \in Requests, e \in Events : Works(q, e)
        BY <1>7
  <2>2. /\ LoopLeft(r)' <= LoopLeft(r)
        /\ Cardinality(Undone(r)') <= Cardinality(Undone(r))
        BY <1>1, <1>2, <1>3, <2>1
  <2>3. ~Serves(r)
        BY <1>3, <1>4, <2>1
  <2> QED BY <1>3, <2>2, <2>3
<1>8. CASE ~(\E q \in Requests : Serves(q))
           /\ ~(\E q \in Requests, e \in Events : Works(q, e))
  <2>1. UNCHANGED <<pc, at, worker>>
        BY <1>5, <1>8
  <2> QED BY <1>1, <1>2, <1>8, <2>1
<1> QED BY <1>6, <1>7, <1>8

THEOREM PagesRunOut == Spec => []StepsBounded /\ StepsRunOut
<1>1. ASSUME Inv, Inv', Next
      PROVE  RunsOut
  <2> SUFFICES ASSUME NEW r \in Requests, crashes' = crashes
               PROVE  /\ StepsLeft(r)' <= StepsLeft(r)
                      /\ Serves(r) \/ (\E e \in Events : Works(r, e))
                           => StepsLeft(r)' < StepsLeft(r)
      BY DEF RunsOut
  <2>1. TypeOK /\ TypeOK'
        BY <1>1 DEF Inv
  <2>2. /\ LoopLeft(r)' <= LoopLeft(r)
        /\ Cardinality(Undone(r)') <= Cardinality(Undone(r))
        /\ Serves(r) => LoopLeft(r)' < LoopLeft(r)
        /\ (\E e \in Events : Works(r, e))
             => Cardinality(Undone(r)') < Cardinality(Undone(r))
        BY <1>1, <2>1, StepLeaves
  <2>3. /\ LoopLeft(r) \in Nat /\ Cardinality(Undone(r)) \in Nat
        /\ LoopLeft(r)' \in Nat /\ Cardinality(Undone(r)') \in Nat
    <3>1. (TypeOK => Finite)'
          BY LeftFinite, PTL
    <3> QED BY <2>1, <3>1, LeftFinite DEF Finite
  <2>4. StepsLeft(r)' = LoopLeft(r)' + Cardinality(Undone(r)')
        BY DEF StepsLeft
  <2> QED BY <2>2, <2>3, <2>4 DEF StepsLeft
<1>2. Inv /\ Inv' /\ [Next]_vars => [RunsOut]_vars
      BY <1>1
<1>3. Inv => StepsBounded
      BY Bounded DEF Inv
<1> QED BY <1>2, <1>3, InvAlways, PTL DEF Spec, StepsRunOut
=============================================================================
