--------------------------- MODULE ResponseProofs ---------------------------
(***************************************************************************)
(* Theorems about Response, for any endpoints, any number of mirrors and   *)
(* bodies of any length.                                                   *)
(***************************************************************************)
EXTENDS Response, SequenceTheorems, FiniteSetTheorems, TLAPS

(* Nothing was sent; and not even a header was set.                        *)
Fresh == status = "none" /\ sent = {} /\ body = <<>>
Bare == headers = {} /\ Fresh

(* How far the response is where the request stands. An error that comes   *)
(* to wrapHandlerError after something was sent is one of encoding, or of  *)
(* the metadata copy.                                                      *)
Answered ==
    /\ pc \in {"start", "ask", "asked", "got", "load", "wait", "proxy"} =>
         Bare
    /\ pc = "respond" => Fresh
    /\ pc \in {"copy", "relay"} => status \in {"ok", "theirs"}
    /\ pc = "wrap" =>
         \/ err = "encoderWriter" /\ status # "none"
         \/ err = "error" /\ Fresh /\ ("Cache-Control" \in headers => gone)
         \/ err = "error" /\ endpoint = "metadata" /\ status # "none"
    /\ pc = "done" => status # "none" \/ gone
    /\ pc = "panicked" =>
         status # "none" \/ (endpoint = "view" /\ selected = "outside")

(* The status of an error is not sent to be cached.                        *)
StatusIsNotCached == status = "error" /\ "Cache-Control" \in sent => gone

(* Errors are written last.                                                *)
Clean == \A i \in DOMAIN body : body[i] # "error"

Errors ==
    /\ pc # "done" => /\ Clean /\ status # "error"
                      /\ Len(body) <= MaxChunks
    /\ ErrorsStandAlone
    /\ StatusIsNotCached

(* A body is opened with the deferred call that closes it, and only views  *)
(* hold a torrent.                                                         *)
Released ==
    /\ open \subseteq deferred
    /\ held => pc \in {"wait", "serve"}
    /\ pc \in {"wrap", "done", "panicked"} => open = {}

Inv == TypeOK /\ Answered /\ Errors /\ Released

-----------------------------------------------------------------------------
LEMMA InvInit == Init => Inv
<1> SUFFICES ASSUME Init PROVE Inv
    OBVIOUS
<1> USE ResponseAssumption DEF Init
<1>1. TypeOK
  <2>1. gone \in BOOLEAN /\ held \in BOOLEAN
        OBVIOUS
  <2> QED BY <2>1 DEF TypeOK
<1>2. Answered /\ Errors /\ Released
      BY DEF Answered, Fresh, Bare, Errors, Clean, ErrorsStandAlone,
             ErrorStandsAlone, StatusIsNotCached, Released
<1> QED BY <1>1, <1>2 DEF Inv

(* The environment, and the mirrors, change nothing of a response.         *)
Idle == UNCHANGED <<pc, endpoint, selected, headers, status, sent, body, err,
                    open, deferred, held>>

LEMMA IdleKeeps ==
  ASSUME Inv, Idle, gone => gone'
  PROVE  Answered' /\ Errors' /\ Released'
BY DEF Inv, Idle, Answered, Fresh, Bare, Errors, Clean, ErrorsStandAlone,
       ErrorStandsAlone, StatusIsNotCached, Released

LEMMA EnvironmentNext ==
  ASSUME Inv, ClientLeaves \/ InfoArrives \/ ConfigChanges \/ UNCHANGED vars
  PROVE  Inv'
<1> USE DEF ClientLeaves, InfoArrives, ConfigChanges, vars, mirrors,
            environment, response, resources
<1>1. Idle /\ UNCHANGED <<round, answers, ret>> /\ (gone => gone')
      BY DEF Idle
<1>2. /\ gone' \in BOOLEAN /\ configured' \in BOOLEAN
      /\ info' \in BOOLEAN
      BY DEF Inv, TypeOK
<1>3. TypeOK'
      BY <1>1, <1>2 DEF Inv, TypeOK, Idle
<1> QED BY <1>1, <1>3, IdleKeeps DEF Inv

LEMMA MirrorsNext ==
  ASSUME Inv, MirrorAnswers
  PROVE  Inv'
<1> USE DEF MirrorAnswers, environment, response, resources
<1>1. Idle /\ UNCHANGED <<round, gone, configured, info>>
      BY DEF Idle
<1>2. answers' \in Seq(Ask!Answer) /\ ret' \in 0 .. N
      BY DEF Inv, TypeOK, Ask!Arrive
<1>3. TypeOK'
      BY <1>1, <1>2 DEF Inv, TypeOK, Idle
<1> QED BY <1>1, <1>3, IdleKeeps DEF Inv

-----------------------------------------------------------------------------
(* A write appends to the body.                                            *)
LEMMA Written ==
  ASSUME TypeOK, NEW piece \in {"data", "json", "error"},
         body' = Append(body, piece)
  PROVE  /\ body' \in Seq({"data", "json", "error"})
         /\ Len(body') = Len(body) + 1
         /\ Clean /\ piece # "error" => Clean'
         /\ body = <<>> => \A i \in DOMAIN body' : i = 1
BY DEF TypeOK, Clean

(* What sending a status does to the types.                                *)
LEMMA StatusSent ==
  ASSUME TypeOK, NEW s \in {"ok", "theirs", "error"},
         NEW hs \in SUBSET {"Cache-Control", "Content-Type"},
         SendsStatus(s, hs)
  PROVE  /\ headers' \subseteq {"Cache-Control", "Content-Type"}
         /\ status' \in {"ok", "theirs", "error"} /\ sent' \subseteq headers'
         /\ status # "none" => status' = status /\ sent' = sent
         /\ status = "none" => status' = s /\ sent' = headers'
BY DEF TypeOK, SendsStatus

(* A handler that ends leaves nothing open.                                *)
LEMMA EndReleases ==
  ASSUME Inv, Ends
  PROVE  /\ open' = {} /\ deferred' = deferred /\ held' = FALSE
         /\ UNCHANGED <<round, answers, ret, endpoint, selected, gone,
                        configured, info>>
         /\ Released'
BY DEF Inv, Released, Ends, mirrors, environment

(* A handler that ends and has sent nothing, or all it had to.             *)
LEMMA ReturnTyped ==
  ASSUME Inv, NEW e \in {"none", "error", "encoderWriter"}, Returns(e),
         headers' \subseteq {"Cache-Control", "Content-Type"},
         status' \in {"none", "ok", "theirs", "error"},
         sent' \subseteq headers',
         body' \in Seq({"data", "json", "error"}),
         Len(body') <= MaxChunks + 1
  PROVE  TypeOK' /\ Released' /\ UNCHANGED <<endpoint, selected, gone>>
<1>1. /\ open' = {} /\ deferred' = deferred /\ held' = FALSE
      /\ UNCHANGED <<round, answers, ret, endpoint, selected, gone,
                     configured, info>>
      /\ Released'
      BY EndReleases DEF Returns
<1>2. err' = e /\ pc' \in {"done", "wrap"}
      BY DEF Returns
<1> QED BY <1>1, <1>2 DEF Inv, TypeOK

(* One that returns an error before it has sent anything.                  *)
LEMMA FailsFresh ==
  ASSUME Inv, Fresh, Returns("error"), UNCHANGED <<status, sent, body>>,
         headers' \subseteq {"Cache-Control", "Content-Type"},
         pc # "done", "Cache-Control" \in headers' => gone
  PROVE  Inv'
<1>1. TypeOK' /\ Released' /\ UNCHANGED <<endpoint, selected, gone>>
      BY ReturnTyped DEF Inv, TypeOK, Fresh
<1>2. pc' = "wrap" /\ err' = "error"
      BY DEF Returns
<1>3. Answered'
      BY <1>1, <1>2 DEF Answered, Fresh
<1>4. Errors'
      BY <1>1, <1>2 DEF Inv, Errors, Clean, Fresh, ErrorsStandAlone,
             ErrorStandsAlone, StatusIsNotCached
<1> QED BY <1>1, <1>3, <1>4 DEF Inv

(* A handler that goes on, having sent and set nothing.                    *)
LEMMA GoesOn ==
  ASSUME Inv, pc # "done",
         UNCHANGED <<endpoint, selected, gone, status, sent, body, err>>,
         headers' \subseteq {"Cache-Control", "Content-Type"},
         sent \subseteq headers'
  PROVE  Errors'
BY DEF Inv, Errors, Clean, ErrorsStandAlone, ErrorStandsAlone,
       StatusIsNotCached

LEMMA StartNext ==
  ASSUME Inv, LinkIsBad \/ Starts \/ DoFirstCalled \/ DoFirstReturns
  PROVE  Inv'
<1> USE DEF response, environment, mirrors
<1>1. CASE LinkIsBad
      BY <1>1, FailsFresh DEF LinkIsBad, Inv, TypeOK, Answered, Bare
<1>2. CASE Starts
  <2>1. /\ pc = "start" /\ pc' \in {"wait", "proxy", "ask"}
        /\ held' \in BOOLEAN /\ (held' => pc' = "wait")
        /\ UNCHANGED <<round, answers, ret, endpoint, selected, gone,
                       configured, info, headers, status, sent, body, err,
                       open, deferred>>
        BY <1>2 DEF Starts
  <2>2. TypeOK'
        BY <2>1 DEF Inv, TypeOK
  <2>3. Answered' /\ Released'
        BY <2>1 DEF Inv, Answered, Released, Bare, Fresh
  <2>4. Errors'
        BY <2>1, GoesOn DEF Inv, TypeOK
  <2> QED BY <2>2, <2>3, <2>4 DEF Inv
<1>3. CASE DoFirstCalled \/ DoFirstReturns
  <2>1. /\ pc \in {"ask", "asked"} /\ pc' \in {"asked", "got"}
        /\ UNCHANGED <<round, answers, endpoint, selected, gone, configured,
                       info, headers, status, sent, body, err, open, deferred,
                       held>>
        BY <1>3 DEF DoFirstCalled, DoFirstReturns, To, Ask!Return
  <2>2. ret' \in 0 .. N
    <3>1. CASE DoFirstCalled
          BY <3>1 DEF DoFirstCalled, Inv, TypeOK
    <3>2. CASE DoFirstReturns
      <4>1. PICK i \in DOMAIN answers : ret' = answers[i].url
            BY <3>2 DEF DoFirstReturns, Ask!Return, Ask!ReturnFirst,
                        Ask!ReturnAny
      <4>2. answers[i] \in Ask!Answer
            BY <4>1 DEF Inv, TypeOK
      <4> QED BY <4>1, <4>2, ResponseAssumption DEF Ask!Answer
    <3> QED BY <1>3, <3>1, <3>2
  <2>3. TypeOK'
        BY <2>1, <2>2 DEF Inv, TypeOK
  <2>4. Answered' /\ Released'
        BY <2>1 DEF Inv, Answered, Released, Bare, Fresh
  <2>5. Errors'
        BY <2>1, GoesOn DEF Inv, TypeOK
  <2> QED BY <2>3, <2>4, <2>5 DEF Inv
<1> QED BY <1>1, <1>2, <1>3

(* A piece of the body is copied, by any of the three that copy one.       *)
LEMMA CopiesPiece ==
  ASSUME Inv, pc \in {"copy", "serve", "relay"}, Len(body) < MaxChunks,
         Writes({}, "data"), To(pc), UNCHANGED <<mirrors, open, deferred>>
  PROVE  Inv'
<1> USE ResponseAssumption DEF environment, mirrors
<1>1. /\ TypeOK /\ Clean /\ status # "error" /\ pc' = pc
      /\ SendsStatus("ok", {}) /\ body' = Append(body, "data")
      /\ UNCHANGED <<round, answers, ret, endpoint, selected, gone,
                     configured, info, err, held, open, deferred>>
      BY DEF Inv, Errors, To, Writes
<1>2. /\ headers' \subseteq {"Cache-Control", "Content-Type"}
      /\ status' \in {"ok", "theirs"} /\ sent' \subseteq headers'
  <2>1. status \in {"none", "ok", "theirs"}
        BY <1>1 DEF TypeOK
  <2> QED BY <1>1, <2>1, StatusSent
<1>3. /\ body' \in Seq({"data", "json", "error"})
      /\ Len(body') = Len(body) + 1 /\ Clean'
      BY <1>1, Written
<1>4. Len(body') <= MaxChunks /\ Len(body') <= MaxChunks + 1
      BY <1>1, <1>3 DEF TypeOK
<1>5. TypeOK'
      BY <1>1, <1>2, <1>3, <1>4 DEF TypeOK
<1>6. Answered' /\ Released'
      BY <1>1, <1>2 DEF Inv, Answered, Released
<1>7. Errors'
      BY <1>1, <1>2, <1>3, <1>4 DEF Errors, Clean, ErrorsStandAlone,
         ErrorStandsAlone, StatusIsNotCached
<1> QED BY <1>5, <1>6, <1>7 DEF Inv

(* A handler that ends well, having sent a status that is not an error's.  *)
LEMMA ReturnsSent ==
  ASSUME Inv, pc \notin {"wrap", "done", "panicked"}, Returns("none"),
         headers' \subseteq {"Cache-Control", "Content-Type"},
         status' \in {"ok", "theirs"}, sent' \subseteq headers',
         body' \in Seq({"data", "json", "error"}), Clean',
         Len(body') <= MaxChunks + 1
  PROVE  Inv'
<1>1. TypeOK' /\ Released' /\ UNCHANGED <<endpoint, selected, gone>>
      BY ReturnTyped
<1>2. pc' = "done"
      BY DEF Returns
<1>3. Answered'
      BY <1>2 DEF Answered
<1>4. Errors'
      BY <1>2 DEF Errors, Clean, ErrorsStandAlone, ErrorStandsAlone,
                  StatusIsNotCached
<1> QED BY <1>1, <1>3, <1>4 DEF Inv

LEMMA MetadataNext ==
  ASSUME Inv, \/ MetadataFails \/ MetadataFound \/ MetadataRefused
              \/ MetadataCopies \/ MetadataCopied
  PROVE  Inv'
<1> USE ResponseAssumption DEF response, environment, mirrors, At
<1>0. /\ TypeOK
      /\ pc \in {"got", "copy"} => Clean /\ status # "error"
                                         /\ Len(body) <= MaxChunks
      BY DEF Inv, Errors
<1>1. CASE MetadataFails
  <2>1. CASE Returns("error")
        BY <1>1, <2>1, FailsFresh
           DEF MetadataFails, Inv, TypeOK, Answered, Bare
  <2>2. CASE gone /\ Returns("none")
    <3>1. /\ TypeOK' /\ Released' /\ UNCHANGED <<endpoint, selected, gone>>
          /\ pc = "got" /\ pc' = "done" /\ gone
          /\ UNCHANGED <<headers, status, sent, body>>
          BY <1>1, <2>2, ReturnTyped
             DEF MetadataFails, Inv, TypeOK, Errors, Returns
    <3>2. Answered'
          BY <3>1 DEF Answered
    <3>3. Errors'
          BY <3>1 DEF Inv, Errors, Clean, ErrorsStandAlone,
                      ErrorStandsAlone, StatusIsNotCached
    <3> QED BY <3>1, <3>2, <3>3 DEF Inv
  <2> QED BY <1>1, <2>1, <2>2 DEF MetadataFails
<1>2. CASE MetadataFound
  <2>1. /\ pc = "got" /\ pc' = "copy" /\ SendsStatus("ok", {"Cache-Control"})
        /\ UNCHANGED <<round, answers, ret, endpoint, selected, gone,
                       configured, info, body, err, held>>
        /\ open' = open \cup {1} /\ deferred' = deferred \cup {1}
        /\ endpoint = "metadata"
        BY <1>2 DEF MetadataFound, To, Opens, Defers
  <2>2. status = "none"
        BY <2>1 DEF Inv, Answered, Bare, Fresh
  <2>3. /\ headers' \subseteq {"Cache-Control", "Content-Type"}
        /\ status' = "ok" /\ sent' \subseteq headers'
        BY <1>0, <2>1, <2>2, StatusSent
  <2>4. TypeOK'
        BY <1>0, <2>1, <2>3 DEF TypeOK
  <2>5. Answered' /\ Released'
        BY <2>1, <2>3 DEF Inv, Answered, Released
  <2>6. Errors'
        BY <1>0, <2>1, <2>3 DEF Errors, Clean, ErrorsStandAlone,
           StatusIsNotCached
  <2> QED BY <2>4, <2>5, <2>6 DEF Inv
<1>3. CASE MetadataRefused
  <2>1. PICK hs \in {{}, {"Cache-Control"}} : SendsStatus("theirs", hs)
        BY <1>3 DEF MetadataRefused
  <2>2. /\ pc = "got" /\ UNCHANGED body /\ endpoint = "metadata"
        /\ Returns("none") \/ Returns("error")
        BY <1>3 DEF MetadataRefused
  <2>3. status = "none"
        BY <2>2 DEF Inv, Answered, Bare, Fresh
  <2>4. /\ headers' \subseteq {"Cache-Control", "Content-Type"}
        /\ status' = "theirs" /\ sent' \subseteq headers'
        BY <1>0, <2>1, <2>3, StatusSent
  <2>5. /\ TypeOK' /\ Released' /\ UNCHANGED <<endpoint, selected, gone>>
        BY <1>0, <2>2, <2>4, ReturnTyped DEF TypeOK
  <2>6. pc' = "done" \/ (pc' = "wrap" /\ err' = "error")
        BY <2>2 DEF Returns
  <2>7. Answered'
        BY <2>2, <2>4, <2>5, <2>6 DEF Answered
  <2>8. Errors'
        BY <1>0, <2>2, <2>4, <2>5 DEF Errors, Clean, ErrorsStandAlone,
           StatusIsNotCached
  <2> QED BY <2>5, <2>7, <2>8 DEF Inv
<1>4. CASE MetadataCopies
      BY <1>4, CopiesPiece DEF MetadataCopies
<1>5. CASE MetadataCopied
  <2>1. /\ pc = "copy" /\ endpoint = "metadata"
        /\ Returns("none") \/ Returns("error")
        /\ UNCHANGED <<headers, status, sent, body>>
        BY <1>5 DEF MetadataCopied
  <2>2. status \in {"ok", "theirs"}
        BY <2>1 DEF Inv, Answered
  <2>3. /\ TypeOK' /\ Released' /\ UNCHANGED <<endpoint, selected, gone>>
        BY <1>0, <2>1, ReturnTyped DEF TypeOK
  <2>4. pc' = "done" \/ (pc' = "wrap" /\ err' = "error")
        BY <2>1 DEF Returns
  <2>5. Answered'
        BY <2>1, <2>2, <2>3, <2>4 DEF Answered
  <2>6. Errors'
        BY <1>0, <2>1, <2>2, <2>3 DEF Errors, Clean, ErrorsStandAlone,
           StatusIsNotCached
  <2> QED BY <2>3, <2>5, <2>6 DEF Inv
<1> QED BY <1>1, <1>2, <1>3, <1>4, <1>5

LEMMA ObjectInfoNext ==
  ASSUME Inv, GotTorrent \/ LoadsTorrent \/ GotMetadata \/ RespondsInfo
  PROVE  Inv'
<1> USE ResponseAssumption DEF response, environment, mirrors, At
<1>0. /\ TypeOK
      /\ pc \in {"got", "load", "respond"} =>
           Fresh /\ Clean /\ status # "error" /\ Len(body) <= MaxChunks
      BY DEF Inv, Errors, Answered, Bare
<1>1. CASE (GotTorrent \/ LoadsTorrent) /\ Returns("error")
  <2>1. /\ pc \in {"got", "load"} /\ UNCHANGED <<headers, status, sent, body>>
        BY <1>1 DEF GotTorrent, LoadsTorrent
  <2>2. headers = {}
        BY <2>1 DEF Inv, Answered, Bare
  <2> QED BY <1>0, <1>1, <2>1, <2>2, FailsFresh
<1>2. CASE GotTorrent /\ ~Returns("error")
  <2>1. /\ pc = "got" /\ pc' = "load"
        /\ UNCHANGED <<headers, status, sent, body, round, answers, ret,
                       endpoint, selected, gone, configured, info, err, held>>
        /\ open' = open \cup {1} /\ deferred' = deferred \cup {1}
        BY <1>2 DEF GotTorrent, To, Opens, Defers
  <2>2. TypeOK'
        BY <1>0, <2>1 DEF TypeOK
  <2>3. Answered' /\ Released'
        BY <2>1 DEF Inv, Answered, Released, Bare, Fresh
  <2>4. Errors'
        BY <1>0, <2>1, GoesOn DEF TypeOK
  <2> QED BY <2>2, <2>3, <2>4 DEF Inv
<1>3. CASE LoadsTorrent /\ ~Returns("error")
  <2>1. /\ pc = "load" /\ pc' = "ask"
        /\ UNCHANGED <<headers, status, sent, body, endpoint, selected, gone,
                       configured, info, err, held, open, deferred>>
        /\ round' = 2 /\ answers' = <<>> /\ ret' = 0
        BY <1>3 DEF LoadsTorrent, To
  <2>2. TypeOK'
        BY <1>0, <2>1 DEF TypeOK
  <2>3. Answered' /\ Released'
        BY <2>1 DEF Inv, Answered, Released, Bare, Fresh
  <2>4. Errors'
        BY <1>0, <2>1, GoesOn DEF TypeOK
  <2> QED BY <2>2, <2>3, <2>4 DEF Inv
<1>4. CASE GotMetadata
  <2>1. /\ pc = "got" /\ headers' = headers \cup {"Cache-Control"}
        /\ UNCHANGED <<status, sent, body>>
        /\ headers' \subseteq {"Cache-Control", "Content-Type"}
        /\ sent \subseteq headers'
        BY <1>0, <1>4 DEF GotMetadata, TypeOK
  <2>2. CASE gone /\ Returns("error")
        BY <1>0, <2>1, <2>2, FailsFresh
  <2>3. CASE To("respond")
    <3>1. /\ pc' = "respond"
          /\ UNCHANGED <<round, answers, ret, endpoint, selected, gone,
                         configured, info, err, held>>
          /\ \/ open' = open /\ deferred' = deferred
             \/ open' = open \cup {2} /\ deferred' = deferred \cup {2}
          BY <1>4, <2>1, <2>3 DEF GotMetadata, To, Opens, Defers, Returns
    <3>2. TypeOK'
          BY <1>0, <2>1, <3>1 DEF TypeOK
    <3>3. Answered' /\ Released'
          BY <1>0, <2>1, <3>1 DEF Inv, Answered, Released, Fresh
    <3>4. Errors'
          BY <2>1, <3>1, GoesOn
    <3> QED BY <3>2, <3>3, <3>4 DEF Inv
  <2> QED BY <1>4, <2>2, <2>3 DEF GotMetadata
<1>5. CASE RespondsInfo
  <2>1. pc = "respond" /\ endpoint = "objectInfo"
        BY <1>5 DEF RespondsInfo
  <2>2. SendsStatus("ok", {"Content-Type"})
        BY <1>5 DEF RespondsInfo, Writes, WriteFails
  <2>3. /\ headers' \subseteq {"Cache-Control", "Content-Type"}
        /\ status' = "ok" /\ sent' \subseteq headers'
        BY <1>0, <2>1, <2>2, StatusSent DEF Fresh
  <2>4. CASE body' = Append(body, "json") /\ Returns("none")
    <3>1. /\ body' \in Seq({"data", "json", "error"}) /\ Clean'
          /\ Len(body') = Len(body) + 1
          BY <1>0, <2>1, <2>4, Written
    <3>2. Len(body') <= MaxChunks + 1
          BY <1>0, <2>1, <3>1 DEF TypeOK
    <3> QED BY <2>1, <2>3, <2>4, <3>1, <3>2, ReturnsSent
  <2>5. CASE UNCHANGED body /\ Returns("encoderWriter")
    <3>1. TypeOK' /\ Released' /\ UNCHANGED <<endpoint, selected, gone>>
          BY <1>0, <2>3, <2>5, ReturnTyped DEF TypeOK
    <3>2. pc' = "wrap" /\ err' = "encoderWriter"
          BY <2>5 DEF Returns
    <3>3. Answered'
          BY <2>3, <3>2 DEF Answered
    <3>4. Errors'
          BY <1>0, <2>1, <2>3, <2>5, <3>2 DEF Errors, Clean, ErrorsStandAlone,
             ErrorStandsAlone, StatusIsNotCached
    <3> QED BY <3>1, <3>3, <3>4 DEF Inv
  <2> QED BY <1>5, <2>4, <2>5 DEF RespondsInfo, Writes, WriteFails
<1> QED BY <1>1, <1>2, <1>3, <1>4, <1>5

(* A panic of a handler that has sent something, or of a view whose file   *)
(* index the torrent does not have.                                        *)
LEMMA PanicNext ==
  ASSUME Inv, pc \in {"wait", "relay"}, Panics,
         status # "none" \/ (endpoint = "view" /\ selected = "outside")
  PROVE  Inv'
<1> USE DEF response
<1>1. /\ open' = {} /\ deferred' = deferred /\ held' = FALSE
      /\ UNCHANGED <<round, answers, ret, endpoint, selected, gone,
                     configured, info>>
      /\ Released'
      BY EndReleases DEF Panics
<1>2. pc' = "panicked" /\ UNCHANGED <<headers, status, sent, body, err>>
      BY DEF Panics
<1>3. TypeOK'
      BY <1>1, <1>2 DEF Inv, TypeOK
<1>4. Answered'
      BY <1>1, <1>2 DEF Answered
<1>5. Errors'
      BY <1>1, <1>2 DEF Inv, Errors, Clean, ErrorsStandAlone,
         ErrorStandsAlone, StatusIsNotCached
<1> QED BY <1>1, <1>3, <1>4, <1>5 DEF Inv

LEMMA ViewNext ==
  ASSUME Inv, ViewAbandoned \/ ViewSelects \/ ViewServes
  PROVE  Inv'
<1> USE ResponseAssumption DEF response, environment, mirrors, At
<1>0. /\ TypeOK
      /\ pc = "wait" => Bare
      /\ pc \in {"wait", "serve"} =>
           Clean /\ status # "error" /\ Len(body) <= MaxChunks
      BY DEF Inv, Errors, Answered
<1>1. CASE ViewAbandoned
      BY <1>0, <1>1, FailsFresh DEF ViewAbandoned, Bare, Fresh
<1>2. CASE ViewSelects /\ Panics
      BY <1>2, PanicNext DEF ViewSelects, Panics, To
<1>3. CASE ViewSelects /\ ~Panics
  <2>1. /\ pc = "wait" /\ pc' = "serve" /\ endpoint = "view"
        /\ headers' = headers \cup {"Cache-Control"}
        /\ UNCHANGED <<status, sent, body, round, answers, ret, endpoint,
                       selected, gone, configured, info, err, held, open,
                       deferred>>
        BY <1>3 DEF ViewSelects, To
  <2>2. /\ headers' \subseteq {"Cache-Control", "Content-Type"}
        /\ sent \subseteq headers'
        BY <1>0, <2>1 DEF TypeOK
  <2>3. TypeOK'
        BY <1>0, <2>1, <2>2 DEF TypeOK
  <2>4. Answered' /\ Released'
        BY <2>1 DEF Inv, Answered, Released
  <2>5. Errors'
        BY <2>1, <2>2, GoesOn
  <2> QED BY <2>3, <2>4, <2>5 DEF Inv
<1>4. CASE ViewServes
  <2>1. CASE Len(body) < MaxChunks /\ Writes({}, "data") /\ To("serve")
             /\ UNCHANGED <<mirrors, open, deferred>>
        BY <1>4, <2>1, CopiesPiece DEF ViewServes
  <2>2. CASE SendsStatus("theirs", {}) /\ Returns("none") /\ UNCHANGED body
    <3>1. pc = "serve" /\ status \in {"none", "ok", "theirs"}
          BY <1>0, <1>4 DEF ViewServes, TypeOK
    <3>2. /\ headers' \subseteq {"Cache-Control", "Content-Type"}
          /\ status' \in {"ok", "theirs"} /\ sent' \subseteq headers'
          BY <1>0, <2>2, <3>1, StatusSent
    <3>3. Clean' /\ body' \in Seq({"data", "json", "error"})
          /\ Len(body') <= MaxChunks + 1
          BY <1>0, <2>2, <3>1 DEF TypeOK, Clean
    <3> QED BY <2>2, <3>1, <3>2, <3>3, ReturnsSent
  <2> QED BY <1>4, <2>1, <2>2 DEF ViewServes
<1> QED BY <1>1, <1>2, <1>3, <1>4

LEMMA SearchNext ==
  ASSUME Inv, SearchProxied \/ SearchRelayed
  PROVE  Inv'
<1> USE ResponseAssumption DEF response, environment, mirrors, At
<1>0. /\ TypeOK
      /\ pc = "proxy" => Bare
      /\ pc = "relay" => status \in {"ok", "theirs"}
      /\ pc \in {"proxy", "relay"} =>
           Clean /\ status # "error" /\ Len(body) <= MaxChunks
      BY DEF Inv, Errors, Answered
<1>1. CASE SearchProxied /\ Writes({}, "data") /\ Returns("none")
  <2>1. pc = "proxy" /\ SendsStatus("ok", {}) /\ body' = Append(body, "data")
        BY <1>1 DEF SearchProxied, Writes
  <2>2. /\ headers' \subseteq {"Cache-Control", "Content-Type"}
        /\ status' = "ok" /\ sent' \subseteq headers'
        BY <1>0, <2>1, StatusSent DEF Bare, Fresh
  <2>3. /\ body' \in Seq({"data", "json", "error"}) /\ Clean'
        /\ Len(body') = Len(body) + 1
        BY <1>0, <2>1, Written
  <2>4. Len(body') <= MaxChunks + 1
        BY <1>0, <2>1, <2>3 DEF TypeOK
  <2> QED BY <1>1, <2>1, <2>2, <2>3, <2>4, ReturnsSent
<1>2. CASE SearchProxied /\ SendsStatus("error", {}) /\ Returns("none")
           /\ UNCHANGED body
  <2>1. pc = "proxy" /\ headers = {} /\ headers' = {} /\ sent' = {}
        /\ status' = "error"
        BY <1>0, <1>2 DEF SearchProxied, SendsStatus, Bare, Fresh
  <2>2. TypeOK' /\ Released' /\ UNCHANGED <<endpoint, selected, gone>>
        BY <1>0, <1>2, <2>1, ReturnTyped DEF TypeOK
  <2>3. pc' = "done"
        BY <1>2 DEF Returns
  <2>4. Answered'
        BY <2>1, <2>3 DEF Answered
  <2>5. Errors'
        BY <1>0, <1>2, <2>1, <2>3 DEF Errors, Clean, ErrorsStandAlone,
           ErrorStandsAlone, StatusIsNotCached
  <2> QED BY <2>2, <2>4, <2>5 DEF Inv
<1>3. CASE SearchProxied /\ SendsStatus("theirs", {}) /\ To("relay")
           /\ UNCHANGED <<body, mirrors, open, deferred>>
  <2>1. /\ pc = "proxy" /\ pc' = "relay"
        /\ UNCHANGED <<round, answers, ret, endpoint, selected, gone,
                       configured, info, body, err, held, open, deferred>>
        BY <1>3 DEF SearchProxied, To
  <2>2. /\ headers' \subseteq {"Cache-Control", "Content-Type"}
        /\ status' = "theirs" /\ sent' \subseteq headers'
        BY <1>0, <1>3, <2>1, StatusSent DEF Bare, Fresh
  <2>3. TypeOK'
        BY <1>0, <2>1, <2>2 DEF TypeOK
  <2>4. Answered' /\ Released'
        BY <2>1, <2>2 DEF Inv, Answered, Released
  <2>5. Errors'
        BY <1>0, <2>1, <2>2 DEF Errors, Clean, ErrorsStandAlone,
           ErrorStandsAlone, StatusIsNotCached
  <2> QED BY <2>3, <2>4, <2>5 DEF Inv
<1>4. CASE SearchRelayed /\ Len(body) < MaxChunks /\ Writes({}, "data")
           /\ To("relay") /\ UNCHANGED <<mirrors, open, deferred>>
      BY <1>4, CopiesPiece DEF SearchRelayed
<1>5. CASE SearchRelayed /\ Returns("none") /\ UNCHANGED response
  <2>1. pc = "relay"
        BY <1>5 DEF SearchRelayed
  <2>2. Clean' /\ Len(body') <= MaxChunks + 1
        BY <1>0, <1>5, <2>1 DEF TypeOK, Clean
  <2> QED BY <1>0, <1>5, <2>1, <2>2, ReturnsSent DEF TypeOK
<1>6. CASE SearchRelayed /\ Panics
      BY <1>0, <1>6, PanicNext DEF SearchRelayed
<1> QED BY <1>1, <1>2, <1>3, <1>4, <1>5, <1>6
        DEF SearchProxied, SearchRelayed

LEMMA WrapNext ==
  ASSUME Inv, WrapEnds \/ WrapAnswers
  PROVE  Inv'
<1> USE ResponseAssumption DEF response, environment, mirrors
<1>0. /\ TypeOK /\ pc = "wrap" /\ pc' = "done" /\ open = {}
      /\ Clean /\ status # "error" /\ Len(body) <= MaxChunks
      /\ UNCHANGED <<round, answers, ret, endpoint, selected, gone,
                     configured, info, err, held, open, deferred>>
      BY DEF Inv, Errors, Released, WrapEnds, WrapAnswers, To
<1>1. Released'
      BY <1>0 DEF Inv, Released
<1>2. CASE WrapEnds
  <2>1. UNCHANGED <<headers, status, sent, body>> /\ status # "none"
        BY <1>0, <1>2 DEF WrapEnds, Inv, Answered, IsEncoderWriterError
  <2>2. TypeOK'
        BY <1>0, <2>1 DEF TypeOK
  <2>3. Answered' /\ Errors'
        BY <1>0, <2>1 DEF Answered, Errors, Clean, ErrorsStandAlone,
           ErrorStandsAlone, StatusIsNotCached
  <2> QED BY <1>1, <2>2, <2>3 DEF Inv
<1>3. CASE WrapAnswers
  <2>1. SendsStatus("error", {"Content-Type"})
        BY <1>3 DEF WrapAnswers
  <2>2. /\ headers' \subseteq {"Cache-Control", "Content-Type"}
        /\ status' # "none" /\ sent' \subseteq headers'
        /\ status' \in {"none", "ok", "theirs", "error"}
        /\ status # "none" => status' = status
        /\ status = "none" => status' = "error" /\ sent' = headers'
        BY <1>0, <2>1, StatusSent
  <2>3. headers' = headers \cup {"Content-Type"}
        BY <2>1 DEF SendsStatus
  <2>4. \/ Fresh /\ ("Cache-Control" \in headers => gone)
        \/ endpoint = "metadata" /\ status # "none"
        BY <1>0, <1>3 DEF WrapAnswers, IsEncoderWriterError, Inv, Answered
  <2>5. /\ body' \in Seq({"data", "json", "error"})
        /\ Len(body') <= MaxChunks + 1
        /\ body = <<>> => \A i \in DOMAIN body' : i = 1
    <3>1. CASE body' = Append(body, "error")
      <4>1. /\ body' \in Seq({"data", "json", "error"})
            /\ Len(body') = Len(body) + 1
            /\ body = <<>> => \A i \in DOMAIN body' : i = 1
            BY <1>0, <3>1, Written
      <4> QED BY <1>0, <4>1 DEF TypeOK
    <3>2. CASE UNCHANGED body
          BY <1>0, <3>2 DEF TypeOK
    <3> QED BY <1>3, <3>1, <3>2 DEF WrapAnswers
  <2>6. TypeOK'
        BY <1>0, <2>2, <2>5 DEF TypeOK
  <2>7. Answered'
        BY <1>0, <2>2 DEF Answered
  <2>8. Errors'
        BY <1>0, <2>2, <2>3, <2>4, <2>5 DEF Errors, Fresh, ErrorsStandAlone,
           ErrorStandsAlone, StatusIsNotCached
  <2> QED BY <1>1, <2>6, <2>7, <2>8 DEF Inv
<1> QED BY <1>2, <1>3

LEMMA InvAlways == Spec => []Inv
<1>1. Inv /\ [Next]_vars => Inv'
      BY EnvironmentNext, MirrorsNext, StartNext, MetadataNext,
         ObjectInfoNext, ViewNext, SearchNext, WrapNext DEF Next, Handler
<1> QED BY <1>1, InvInit, PTL DEF Spec

-----------------------------------------------------------------------------
(* The types of the variables, for any number of mirrors and any bodies.   *)
THEOREM TypeCorrect == Spec => []TypeOK
<1>1. Inv => TypeOK
      BY DEF Inv
<1> QED BY <1>1, InvAlways, PTL

(* An error is the whole response, or there is none: wrapHandlerError is   *)
(* given no error after a write but that of the write, /thumbnail and      *)
(* /duration apart.                                                        *)
THEOREM ErrorsAlone == Spec => []ErrorsStandAlone
<1>1. Inv => ErrorsStandAlone
      BY DEF Inv, Errors
<1> QED BY <1>1, InvAlways, PTL

(* An error, as the status or as JSON in the body, is sent under the       *)
(* Cache-Control of an answer to no client that is still there, but where  *)
(* /thumbnail and /duration have sent the answer's status before they fail *)
(* (724-731, 738).                                                         *)
THEOREM ErrorsUncached == Spec => []ErrorsAreNotCached
<1>1. Inv => ErrorsAreNotCached
  <2> SUFFICES ASSUME Inv, Failed, "Cache-Control" \in sent, ~gone
               PROVE  endpoint = "metadata" /\ status # "error"
      BY DEF ErrorsAreNotCached
  <2>1. status # "error"
        BY DEF Inv, Errors, StatusIsNotCached
  <2>2. ~ErrorStandsAlone
        BY <2>1 DEF Failed, ErrorStandsAlone
  <2> QED BY <2>1, <2>2 DEF Inv, Errors, ErrorsStandAlone
<1> QED BY <1>1, InvAlways, PTL

(* Whichever way a handler ends, mirrors' bodies are closed and the torrent*)
(* is released.                                                            *)
THEOREM EverythingReleased == Spec => []EndsReleased
<1>1. Inv => EndsReleased
      BY DEF Inv, Released, EndsReleased, Ended
<1> QED BY <1>1, InvAlways, PTL

(* A handler that sends nothing was left, or has panicked at an index that *)
(* the torrent does not have.                                              *)
THEOREM SilenceExplained == Spec => []SilenceIsExplained
<1>1. Inv => SilenceIsExplained
      BY DEF Inv, Answered, SilenceIsExplained, Ended
<1> QED BY <1>1, InvAlways, PTL

-----------------------------------------------------------------------------
(* Which handler stands where, and in which of its calls of doFirst.       *)
Routed ==
    /\ endpoint \in {"metadata", "objectInfo", "view", "search"}
    /\ pc \in {"ask", "asked", "got"} =>
         endpoint \in {"metadata", "objectInfo"}
    /\ pc = "copy" => endpoint = "metadata"
    /\ pc \in {"load", "respond"} => endpoint = "objectInfo"
    /\ pc \in {"wait", "serve"} => endpoint = "view"
    /\ pc \in {"proxy", "relay"} => endpoint = "search"
    /\ pc \in {"start", "load"} => round = 1

(* The state of doFirst: a mirror answers once, and until its caller has   *)
(* a result nothing is returned. If there are good answers one is first.   *)
Good(i) == answers[i].outcome = "good"

Asked ==
    /\ \A i, j \in DOMAIN answers : answers[i].url = answers[j].url => i = j
    /\ pc \in {"start", "ask", "asked"} => ret = 0
    /\ (\E i \in DOMAIN answers : Good(i)) =>
         \E i \in DOMAIN answers : Good(i) /\ \A j \in 1 .. i - 1 : ~Good(j)

(* What a request may wait for, as long as its client does: an answer of a *)
(* mirror when there is no good one, and the info of a torrent.            *)
MayWait ==
    /\ ~gone
    /\ \/ pc = "wait" /\ ~info
       \/ /\ pc = "asked"
          /\ Len(answers) < N
          /\ \A i \in DOMAIN answers : ~Good(i)

Unanswered(u) == \A i \in DOMAIN answers : answers[i].url # u

(* The guards of Handler and of gone /\ MirrorAnswers.                     *)
CanGoOn ==
    \/ pc \in {"start", "ask", "wrap"}
    \/ /\ pc = "asked"
       /\ \/ /\ ret = 0
             /\ \/ \E i \in DOMAIN answers :
                     Good(i) /\ \A j \in 1 .. i - 1 : ~Good(j)
                \/ /\ Len(answers) = N /\ answers # <<>>
                   /\ \A i \in DOMAIN answers : ~Good(i)
          \/ gone /\ \E u \in 1 .. N : Unanswered(u)
    \/ pc = "got" /\ endpoint \in {"metadata", "objectInfo"}
    \/ pc = "copy" /\ endpoint = "metadata"
    \/ pc \in {"load", "respond"} /\ endpoint = "objectInfo"
    \/ pc = "wait" /\ endpoint = "view" /\ (gone \/ info)
    \/ pc = "serve" /\ endpoint = "view"
    \/ pc \in {"proxy", "relay"} /\ endpoint = "search"

(* A request that has not ended goes on, or waits for mirrors or an info   *)
(* with a client that is still there: a good answer or the client's        *)
(* leaving ends every wait (734-735, 750-820, 889-896).                    *)
NeverStuck == ~Ended /\ ~MayWait => CanGoOn

LEMMA RoutedNext == TypeOK /\ Routed /\ [Next]_vars => Routed'
<1> SUFFICES ASSUME TypeOK, Routed, [Next]_vars PROVE Routed'
    OBVIOUS
<1> USE DEF Routed, environment, mirrors, At, To, Ends
<1>1. CASE LinkIsBad \/ Starts \/ DoFirstCalled \/ DoFirstReturns
      BY <1>1 DEF LinkIsBad, Starts, DoFirstCalled, DoFirstReturns, Returns
<1>2. CASE MetadataFails \/ MetadataFound \/ MetadataRefused
           \/ MetadataCopies \/ MetadataCopied
      BY <1>2 DEF MetadataFails, MetadataFound, MetadataRefused,
                  MetadataCopies, MetadataCopied, Returns
<1>3. CASE GotTorrent \/ LoadsTorrent \/ GotMetadata \/ RespondsInfo
      BY <1>3 DEF GotTorrent, LoadsTorrent, GotMetadata, RespondsInfo, Returns
<1>4. CASE ViewAbandoned \/ ViewSelects \/ ViewServes
      BY <1>4 DEF ViewAbandoned, ViewSelects, ViewServes, Returns, Panics
<1>5. CASE SearchProxied \/ SearchRelayed
      BY <1>5 DEF SearchProxied, SearchRelayed, Returns, Panics
<1>6. CASE WrapEnds \/ WrapAnswers
      BY <1>6 DEF WrapEnds, WrapAnswers
<1>7. CASE MirrorAnswers \/ ClientLeaves \/ InfoArrives \/ ConfigChanges
           \/ UNCHANGED vars
      BY <1>7 DEF MirrorAnswers, ClientLeaves, InfoArrives, ConfigChanges, vars
<1> QED BY <1>1, <1>2, <1>3, <1>4, <1>5, <1>6, <1>7 DEF Next, Handler

(* doFirst moves only while it is asked, and starts anew for the metadata. *)
LEMMA AsksNext == [Next]_vars =>
    \/ MirrorAnswers
    \/ pc' = "got" /\ UNCHANGED answers
    \/ pc' = "ask" /\ answers' = <<>> /\ ret' = 0
    \/ /\ UNCHANGED <<answers, ret>>
       /\ pc' \in {"start", "ask", "asked"} => pc \in {"start", "ask", "asked"}
<1> DEFINE Goal == \/ MirrorAnswers
                   \/ pc' = "got" /\ UNCHANGED answers
                   \/ pc' = "ask" /\ answers' = <<>> /\ ret' = 0
                   \/ /\ UNCHANGED <<answers, ret>>
                      /\ pc' \in {"start", "ask", "asked"} =>
                           pc \in {"start", "ask", "asked"}
<1> SUFFICES ASSUME [Next]_vars PROVE Goal
    OBVIOUS
<1> USE DEF mirrors, At, To, Ends
<1>1. CASE LinkIsBad \/ Starts \/ DoFirstCalled \/ DoFirstReturns
      BY <1>1 DEF LinkIsBad, Starts, DoFirstCalled, DoFirstReturns, Returns,
                  Ask!Return
<1>2. CASE MetadataFails \/ MetadataFound \/ MetadataRefused
           \/ MetadataCopies \/ MetadataCopied
      BY <1>2 DEF MetadataFails, MetadataFound, MetadataRefused,
                  MetadataCopies, MetadataCopied, Returns
<1>3. CASE GotTorrent \/ LoadsTorrent \/ GotMetadata \/ RespondsInfo
      BY <1>3 DEF GotTorrent, LoadsTorrent, GotMetadata, RespondsInfo, Returns
<1>4. CASE ViewAbandoned \/ ViewSelects \/ ViewServes
      BY <1>4 DEF ViewAbandoned, ViewSelects, ViewServes, Returns, Panics
<1>5. CASE SearchProxied \/ SearchRelayed
      BY <1>5 DEF SearchProxied, SearchRelayed, Returns, Panics
<1>6. CASE WrapEnds \/ WrapAnswers
      BY <1>6 DEF WrapEnds, WrapAnswers
<1>7. CASE ClientLeaves \/ InfoArrives \/ ConfigChanges \/ UNCHANGED vars
      BY <1>7 DEF ClientLeaves, InfoArrives, ConfigChanges, vars
<1> QED BY <1>1, <1>2, <1>3, <1>4, <1>5, <1>6, <1>7 DEF Next, Handler

LEMMA AskedNext == TypeOK /\ Asked /\ [Next]_vars => Asked'
<1> SUFFICES ASSUME TypeOK, Asked, [Next]_vars PROVE Asked'
    OBVIOUS
<1>0. answers \in Seq(Ask!Answer)
      BY DEF TypeOK
<1>1. CASE MirrorAnswers
  <2>1. PICK a \in Ask!Answer :
          /\ \A i \in DOMAIN answers : answers[i].url # a.url
          /\ answers' = Append(answers, a)
          /\ ret' = ret /\ pc' = pc
        BY <1>1 DEF MirrorAnswers, Ask!Arrive
  <2> DEFINE n == Len(answers)
  <2>2. /\ n \in Nat /\ DOMAIN answers = 1 .. n /\ DOMAIN answers' = 1 .. n + 1
        /\ \A i \in 1 .. n : answers'[i] = answers[i]
        /\ answers'[n + 1] = a
        BY <1>0, <2>1
  <2>3. \A i, j \in DOMAIN answers' :
          answers'[i].url = answers'[j].url => i = j
        BY <2>1, <2>2 DEF Asked
  <2>4. ASSUME NEW k \in DOMAIN answers', Good(k)'
        PROVE  \E i \in DOMAIN answers' : /\ Good(i)'
                                          /\ \A j \in 1 .. i - 1 : ~Good(j)'
    <3>1. CASE \E i \in DOMAIN answers : Good(i)
      <4>1. PICK i \in 1 .. n : Good(i) /\ \A j \in 1 .. i - 1 : ~Good(j)
            BY <2>2, <3>1 DEF Asked
      <4>2. \A j \in 1 .. i : j \in 1 .. n /\ answers'[j] = answers[j]
            BY <2>2
      <4>3. /\ i \in DOMAIN answers' /\ Good(i)'
            /\ \A j \in 1 .. i - 1 : ~Good(j)'
            BY <2>2, <4>1, <4>2 DEF Good
      <4> QED BY <4>3
    <3>2. CASE \A i \in DOMAIN answers : ~Good(i)
      <4>1. k = n + 1
            BY <2>2, <2>4, <3>2 DEF Good
      <4>2. \A j \in 1 .. k - 1 : ~Good(j)'
            BY <2>2, <3>2, <4>1 DEF Good
      <4> QED BY <2>4, <4>2
    <3> QED BY <3>1, <3>2
  <2> QED BY <2>1, <2>3, <2>4 DEF Asked
<1>2. CASE pc' = "got" /\ UNCHANGED answers
      BY <1>2 DEF Asked, Good
<1>3. CASE pc' = "ask" /\ answers' = <<>> /\ ret' = 0
      BY <1>3 DEF Asked, Good
<1>4. CASE /\ UNCHANGED <<answers, ret>>
           /\ pc' \in {"start", "ask", "asked"} =>
                pc \in {"start", "ask", "asked"}
      BY <1>4 DEF Asked, Good
<1> QED BY <1>1, <1>2, <1>3, <1>4, AsksNext

LEMMA AsksAlways == Spec => [](TypeOK /\ Routed /\ Asked)
<1>1. Init => Routed /\ Asked
  <2> SUFFICES ASSUME Init PROVE Routed /\ Asked
      OBVIOUS
  <2>1. endpoint \in {"metadata", "objectInfo", "view", "search"}
        BY ResponseAssumption DEF Init
  <2> QED BY <2>1 DEF Init, Routed, Asked
<1> QED BY <1>1, RoutedNext, AskedNext, TypeCorrect, PTL DEF Spec

(* A mirror answers once: there are no more answers than mirrors, and as   *)
(* long as there are fewer one has not answered.                           *)
LEMMA AnswersCounted ==
    ASSUME TypeOK, Asked
    PROVE  /\ Len(answers) <= N
           /\ Len(answers) < N => \E u \in 1 .. N : Unanswered(u)
<1> DEFINE n == Len(answers)
           S == 1 .. n
           U == 1 .. N
           f == [i \in S |-> answers[i].url]
           T == {f[i] : i \in S}
<1>1. n \in Nat /\ N \in Nat /\ DOMAIN answers = 1 .. n
      BY ResponseAssumption DEF TypeOK
<1>2. \A i \in 1 .. n : answers[i].url \in 1 .. N
  <2> SUFFICES ASSUME NEW i \in 1 .. n PROVE answers[i].url \in 1 .. N
      OBVIOUS
  <2>1. answers[i] \in Ask!Answer
        BY <1>1, ElementOfSeq DEF TypeOK
  <2> QED BY <2>1 DEF Ask!Answer
<1>3. IsFiniteSet(S) /\ Cardinality(S) = n
  <2> HIDE DEF n
  <2>1. IsFiniteSet(S) /\ Cardinality(S) = IF 1 > n THEN 0 ELSE n - 1 + 1
        BY <1>1, FS_Interval
  <2> QED BY <1>1, <2>1
<1>4. IsFiniteSet(U) /\ Cardinality(U) = N
  <2>1. IsFiniteSet(U) /\ Cardinality(U) = IF 1 > N THEN 0 ELSE N - 1 + 1
        BY <1>1, FS_Interval
  <2> QED BY <1>1, <2>1
<1>5. /\ f \in [S -> U]
      /\ \A i, j \in S : f[i] = f[j] => i = j
      /\ f \in Surjection(S, T)
      /\ T \subseteq U
      BY <1>1, <1>2 DEF Asked, Surjection
<1>6. \A u \in U : u \notin T => Unanswered(u)
      BY <1>1 DEF Unanswered
<1> HIDE DEF n, S, U, f, T
<1>7. ~(Cardinality(U) < Cardinality(S))
      BY <1>3, <1>4, <1>5, FS_PigeonHole
<1>8. Cardinality(T) <= Cardinality(S)
      BY <1>3, <1>5, FS_Surjection
<1>9. n < N => T # U
      BY <1>1, <1>3, <1>4, <1>8
<1>10. n < N => \E u \in U : Unanswered(u)
      BY <1>5, <1>6, <1>9
<1>11. n <= N
      BY <1>1, <1>3, <1>4, <1>7
<1> QED BY <1>10, <1>11 DEF n, U

LEMMA NotStuck == TypeOK /\ Routed /\ Asked => NeverStuck
<1> SUFFICES ASSUME TypeOK, Routed, Asked, ~Ended, ~MayWait PROVE CanGoOn
    BY DEF NeverStuck
<1>1. CASE pc = "asked"
  <2>1. ret = 0
        BY <1>1 DEF Asked
  <2>2. CASE \E i \in DOMAIN answers : Good(i)
        BY <1>1, <2>1, <2>2 DEF Asked, CanGoOn
  <2>3. CASE (\A i \in DOMAIN answers : ~Good(i)) /\ Len(answers) < N
    <3>1. gone
          BY <1>1, <2>3 DEF MayWait
    <3> QED BY <1>1, <2>3, <3>1, AnswersCounted DEF CanGoOn
  <2>4. CASE (\A i \in DOMAIN answers : ~Good(i)) /\ ~(Len(answers) < N)
    <3>1. Len(answers) <= N /\ Len(answers) \in Nat
          BY AnswersCounted DEF TypeOK
    <3>2. Len(answers) = N
          BY <2>4, <3>1, ResponseAssumption
    <3>3. answers # <<>>
          BY <3>2, ResponseAssumption
    <3> QED BY <1>1, <2>1, <2>4, <3>2, <3>3 DEF CanGoOn
  <2> QED BY <2>2, <2>3, <2>4
<1>2. CASE pc = "wait"
      BY <1>2 DEF Routed, MayWait, CanGoOn
<1>3. CASE pc \notin {"asked", "wait"}
      BY <1>3 DEF Ended, TypeOK, Routed, CanGoOn
<1> QED BY <1>1, <1>2, <1>3

(* A request never stops before it has ended but to wait for something     *)
(* with its client: the safety half of LeavingEnds.                        *)
THEOREM RequestGoesOn == Spec => []NeverStuck
BY NotStuck, AsksAlways, PTL

(* How many steps a request, its mirrors and its client have left at most: *)
(* an objectInfo may ask twice; bodies have MaxChunks pieces and an error. *)
Rank == [start |-> 8, ask |-> 7, asked |-> 6, got |-> 5, load |-> 4,
         wait |-> 4, proxy |-> 4, copy |-> 3, respond |-> 3, serve |-> 3,
         relay |-> 3, wrap |-> 1, done |-> 0, panicked |-> 0]
Open(b) == IF b THEN 0 ELSE 1

StageLeft == (IF round = 1 THEN N + 4 ELSE 0) + Rank[pc] + (N - Len(answers))
BodyLeft == MaxChunks + 1 - Len(body)
EventsLeft == Open(gone) + Open(info)
StepsLeft == StageLeft + BodyLeft + EventsLeft

(* There are never more than 2 * N + MaxChunks + 15 steps left.            *)
StepsBounded == StepsLeft \in 0 .. 2 * N + MaxChunks + 15

(* Every step of a request, its mirrors, its torrent or its client uses up *)
(* one of those that are left; a change of the options, which may come at  *)
(* any time, adds none.                                                    *)
StepsRunOut == [][\/ StepsLeft' < StepsLeft
                  \/ ConfigChanges /\ StepsLeft' = StepsLeft]_vars

Parts == StageLeft \in Nat /\ BodyLeft \in Nat /\ EventsLeft \in Nat

LEMMA PartsTyped == TypeOK /\ Asked => Parts
<1> SUFFICES ASSUME TypeOK, Asked PROVE Parts
    OBVIOUS
<1>1. Len(answers) \in Nat /\ Len(answers) <= N /\ N \in Nat
      BY AnswersCounted, ResponseAssumption DEF TypeOK
<1>2. Rank[pc] \in Nat
      BY DEF TypeOK, Rank
<1>3. StageLeft \in Nat
      BY <1>1, <1>2 DEF StageLeft
<1>4. BodyLeft \in Nat
  <2>1. Len(body) \in Nat /\ Len(body) <= MaxChunks + 1
        BY DEF TypeOK
  <2> QED BY <2>1, ResponseAssumption DEF BodyLeft
<1>5. EventsLeft \in Nat
      BY DEF EventsLeft, Open
<1> QED BY <1>3, <1>4, <1>5 DEF Parts

(* A step of the handler: on to a later stage, another piece of the body   *)
(* at the same stage, or the second doFirst.                               *)
Wrote == \/ body' = body
           \/ \E piece \in {"data", "json", "error"} :
                body' = Append(body, piece)
Advances == UNCHANGED <<round, answers>> /\ Rank[pc'] < Rank[pc] /\ Wrote
Copies == /\ UNCHANGED <<round, answers, pc>>
          /\ body' = Append(body, "data")
AsksAgain == /\ pc = "load" /\ pc' = "ask" /\ round' = 2
             /\ answers' = <<>> /\ body' = body

LEMMA HandlerSteps == Handler =>
    UNCHANGED <<gone, info>> /\ (Advances \/ Copies \/ AsksAgain)
<1> SUFFICES ASSUME Handler
             PROVE  /\ UNCHANGED <<gone, info>>
                    /\ Advances \/ Copies \/ AsksAgain
    OBVIOUS
<1> USE DEF environment, mirrors, response, At, To, Ends, Advances, Copies,
            AsksAgain, Wrote, Rank
<1>1. CASE LinkIsBad \/ Starts \/ DoFirstCalled \/ DoFirstReturns
      BY <1>1 DEF LinkIsBad, Starts, DoFirstCalled, DoFirstReturns, Returns,
                  Ask!Return
<1>2. CASE MetadataFails \/ MetadataFound \/ MetadataRefused
           \/ MetadataCopies \/ MetadataCopied
      BY <1>2 DEF MetadataFails, MetadataFound, MetadataRefused,
                  MetadataCopies, MetadataCopied, Returns, Writes
<1>3. CASE GotTorrent \/ LoadsTorrent \/ GotMetadata \/ RespondsInfo
      BY <1>3 DEF GotTorrent, LoadsTorrent, GotMetadata, RespondsInfo,
                  Returns, Writes, WriteFails
<1>4. CASE ViewAbandoned \/ ViewSelects \/ ViewServes
      BY <1>4 DEF ViewAbandoned, ViewSelects, ViewServes, Returns, Panics,
                  Writes
<1>5. CASE SearchProxied \/ SearchRelayed
      BY <1>5 DEF SearchProxied, SearchRelayed, Returns, Panics, Writes
<1>6. CASE WrapEnds \/ WrapAnswers
      BY <1>6 DEF WrapEnds, WrapAnswers
<1> QED BY <1>1, <1>2, <1>3, <1>4, <1>5, <1>6 DEF Handler

(* No step but a change of the options adds to a part, and it takes from   *)
(* one.                                                                    *)
LEMMA PartsDecrease ==
    ASSUME TypeOK, TypeOK', Routed, Asked, Asked', Parts, Parts', Next
    PROVE  \/ ConfigChanges /\ UNCHANGED <<StageLeft, BodyLeft, EventsLeft>>
           \/ /\ StageLeft' <= StageLeft /\ BodyLeft' <= BodyLeft
              /\ EventsLeft' <= EventsLeft
              /\ \/ StageLeft' < StageLeft \/ BodyLeft' < BodyLeft
                 \/ EventsLeft' < EventsLeft
<1>1. /\ StageLeft \in Nat /\ BodyLeft \in Nat /\ EventsLeft \in Nat
      /\ StageLeft' \in Nat /\ BodyLeft' \in Nat /\ EventsLeft' \in Nat
      BY DEF Parts
<1>2. /\ N \in Nat /\ MaxChunks \in Nat
      /\ Len(answers) \in Nat /\ Len(answers') \in Nat
      /\ Len(body) \in Nat /\ Len(body') \in Nat
      BY ResponseAssumption DEF TypeOK
<1>3. /\ Rank[pc] \in Nat /\ Rank[pc'] \in Nat
      BY DEF TypeOK, Rank
<1>4. /\ Open(gone) \in Nat /\ Open(info) \in Nat
      /\ Open(gone') \in Nat /\ Open(info') \in Nat
      BY DEF Open
<1>5. /\ UNCHANGED <<round, pc, answers>> => StageLeft' <= StageLeft
      /\ UNCHANGED body => BodyLeft' <= BodyLeft
      /\ UNCHANGED <<gone, info>> => EventsLeft' <= EventsLeft
      BY <1>1 DEF StageLeft, BodyLeft, EventsLeft
<1>6. CASE Handler
  <2>1. EventsLeft' <= EventsLeft
        BY <1>5, <1>6, HandlerSteps
  <2>2. CASE Advances
    <3>1. StageLeft' < StageLeft
          BY <1>2, <1>3, <2>2 DEF Advances, StageLeft
    <3>2. Len(body') >= Len(body)
      <4>1. \A piece : Len(Append(body, piece)) = Len(body) + 1
            BY DEF TypeOK
      <4> QED BY <1>2, <2>2, <4>1 DEF Advances, Wrote
    <3>3. BodyLeft' <= BodyLeft
          BY <1>2, <3>2 DEF BodyLeft
    <3> QED BY <1>1, <2>1, <3>1, <3>3
  <2>3. CASE Copies
    <3>1. StageLeft' <= StageLeft
          BY <1>5, <2>3 DEF Copies
    <3>2. Len(body') = Len(body) + 1
          BY <2>3 DEF Copies, TypeOK
    <3>3. BodyLeft' < BodyLeft
          BY <1>2, <3>2 DEF BodyLeft
    <3> QED BY <1>1, <2>1, <3>1, <3>3
  <2>4. CASE AsksAgain
    <3>1. round = 1 /\ round' = 2 /\ Len(answers') = 0
          BY <2>4 DEF AsksAgain, Routed
    <3>2. Rank[pc] = 4 /\ Rank[pc'] = 7
          BY <2>4 DEF AsksAgain, Rank
    <3>3. Len(answers) <= N
          BY AnswersCounted
    <3>4. StageLeft' < StageLeft
          BY <1>2, <3>1, <3>2, <3>3 DEF StageLeft
    <3>5. BodyLeft' <= BodyLeft
          BY <1>5, <2>4 DEF AsksAgain
    <3> QED BY <1>1, <2>1, <3>4, <3>5
  <2> QED BY <1>6, <2>2, <2>3, <2>4, HandlerSteps
<1>7. CASE MirrorAnswers
  <2>1. Len(answers') = Len(answers) + 1
    <3>1. PICK a \in Ask!Answer : answers' = Append(answers, a)
          BY <1>7 DEF MirrorAnswers, Ask!Arrive
    <3> QED BY <3>1 DEF TypeOK
  <2>2. UNCHANGED <<round, pc, body, gone, info>>
        BY <1>7 DEF MirrorAnswers, environment, response
  <2>3. StageLeft' < StageLeft
        BY <1>2, <1>3, <2>1, <2>2 DEF StageLeft
  <2>4. BodyLeft' <= BodyLeft /\ EventsLeft' <= EventsLeft
        BY <1>5, <2>2
  <2> QED BY <1>1, <2>3, <2>4
<1>8. CASE ClientLeaves \/ InfoArrives
  <2>1. UNCHANGED <<round, pc, answers, body>>
        BY <1>8 DEF ClientLeaves, InfoArrives, mirrors, response
  <2>2. \/ Open(gone') < Open(gone) /\ info' = info
        \/ Open(info') < Open(info) /\ gone' = gone
        BY <1>8 DEF ClientLeaves, InfoArrives, Open
  <2>3. EventsLeft' < EventsLeft
        BY <1>4, <2>2 DEF EventsLeft
  <2>4. StageLeft' <= StageLeft /\ BodyLeft' <= BodyLeft
        BY <1>5, <2>1
  <2> QED BY <1>1, <2>3, <2>4
<1>9. CASE ConfigChanges
      BY <1>9 DEF ConfigChanges, mirrors, response, StageLeft, BodyLeft,
                  EventsLeft
<1> QED BY <1>6, <1>7, <1>8, <1>9 DEF Next

LEMMA SumDecreases ==
    \A a, b, c, x, y, z \in Nat :
      x <= a /\ y <= b /\ z <= c /\ (x < a \/ y < b \/ z < c)
        => x + y + z < a + b + c
OBVIOUS

LEMMA StepsDecrease ==
    TypeOK /\ TypeOK' /\ Routed /\ Asked /\ Asked' /\ Parts /\ Parts'
      /\ [Next]_vars
      => [\/ StepsLeft' < StepsLeft
          \/ ConfigChanges /\ StepsLeft' = StepsLeft]_vars
<1> SUFFICES ASSUME TypeOK, TypeOK', Routed, Asked, Asked', Parts, Parts', Next
             PROVE  \/ StepsLeft' < StepsLeft
                    \/ ConfigChanges /\ StepsLeft' = StepsLeft
    OBVIOUS
<1>1. /\ StageLeft \in Nat /\ BodyLeft \in Nat /\ EventsLeft \in Nat
      /\ StageLeft' \in Nat /\ BodyLeft' \in Nat /\ EventsLeft' \in Nat
      BY DEF Parts
<1>2. \/ ConfigChanges /\ UNCHANGED <<StageLeft, BodyLeft, EventsLeft>>
      \/ /\ StageLeft' <= StageLeft /\ BodyLeft' <= BodyLeft
         /\ EventsLeft' <= EventsLeft
         /\ \/ StageLeft' < StageLeft \/ BodyLeft' < BodyLeft
            \/ EventsLeft' < EventsLeft
      BY PartsDecrease
<1>3. StepsLeft' = StageLeft' + BodyLeft' + EventsLeft'
      BY DEF StepsLeft
<1> QED BY <1>1, <1>2, <1>3, SumDecreases DEF StepsLeft

(* A request ends or waits after at most 2 * N + MaxChunks + 15 steps. With*)
(* NeverStuck this is why LeavingEnds, which TLC checks, holds.            *)
THEOREM RequestRunsOut == Spec => []StepsBounded /\ StepsRunOut
<1>1. Init => StepsLeft <= 2 * N + MaxChunks + 15
  <2> SUFFICES ASSUME Init PROVE StepsLeft <= 2 * N + MaxChunks + 15
      OBVIOUS
  <2>1. /\ Len(answers) = 0 /\ Len(body) = 0 /\ round = 1 /\ Rank[pc] = 8
        /\ Open(gone) \in 0 .. 1 /\ Open(info) \in 0 .. 1
        BY DEF Init, Open, Rank
  <2>2. StageLeft = 2 * N + 12 /\ BodyLeft = MaxChunks + 1
        BY <2>1, ResponseAssumption DEF StageLeft, BodyLeft
  <2>3. EventsLeft \in 0 .. 2
        BY <2>1 DEF EventsLeft
  <2> QED BY <2>2, <2>3, ResponseAssumption DEF StepsLeft
<1>2. Parts => StepsLeft \in Nat
      BY DEF Parts, StepsLeft
<1>3. StepsLeft \in Nat /\ (StepsLeft \in Nat)'
        /\ StepsLeft <= 2 * N + MaxChunks + 15
        /\ [\/ StepsLeft' < StepsLeft
            \/ ConfigChanges /\ StepsLeft' = StepsLeft]_vars
      => (StepsLeft <= 2 * N + MaxChunks + 15)'
  <2> SUFFICES ASSUME StepsLeft \in Nat, (StepsLeft \in Nat)',
                      StepsLeft <= 2 * N + MaxChunks + 15,
                      [\/ StepsLeft' < StepsLeft
                       \/ ConfigChanges /\ StepsLeft' = StepsLeft]_vars
               PROVE  (StepsLeft <= 2 * N + MaxChunks + 15)'
      OBVIOUS
  <2>1. CASE UNCHANGED vars
    <3>1. StepsLeft' = StepsLeft
          BY <2>1 DEF vars, mirrors, environment, response, StepsLeft,
                      StageLeft, BodyLeft, EventsLeft
    <3> QED BY <3>1
  <2>2. CASE StepsLeft' < StepsLeft
        BY <2>2, ResponseAssumption
  <2>3. CASE StepsLeft' = StepsLeft
        BY <2>3
  <2> QED BY <2>1, <2>2, <2>3
<1>4. StepsLeft \in Nat /\ StepsLeft <= 2 * N + MaxChunks + 15
        => StepsBounded
      BY ResponseAssumption DEF StepsBounded
<1>5. TypeOK /\ Asked => StepsLeft \in Nat
      BY <1>2, PartsTyped
<1> QED BY <1>1, <1>3, <1>4, <1>5, PartsTyped, StepsDecrease, AsksAlways, PTL
        DEF Spec, StepsRunOut
=============================================================================
