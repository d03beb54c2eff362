------------------------------ MODULE Response ------------------------------
(***************************************************************************)
(* One request to an endpoint of the handler that answers with what others *)
(* hold: a mirror's metadata (/thumbnail, /duration), the info of an       *)
(* object, a file of a torrent (/view, /download), or a search. From the   *)
(* link to the last write, with wrapHandlerError and the deferred calls.   *)
(* doFirst is what FirstResponse says of it. net/http: the first           *)
(* WriteHeader or Write sends the status and the headers set so far, later *)
(* ones change neither, and writes fail only when the client is gone.      *)
(***************************************************************************)
EXTENDS Naturals, Sequences

CONSTANTS
    N,           \* how many mirrors the options name
    Endpoints,   \* the endpoints asked
    MaxChunks    \* bound: pieces in which a body is copied

ASSUME ResponseAssumption ==
    /\ N \in Nat \ {0}
    /\ Endpoints \subseteq {"metadata", "objectInfo", "view", "search"}
    /\ MaxChunks \in Nat

VARIABLES
    endpoint,    \* the endpoint of this request
    selected,    \* whether the link's file index is one of the torrent's
    pc,          \* where the request stands
    round,       \* which doFirst of the handler it is
    answers,     \* its state: see FirstResponse
    ret,
    gone,        \* the client is: the request's context is done
    configured,  \* GlobalConfig has options, and not the fallback ones
    info,        \* the torrent has its info
    headers,     \* headers set on the response
    status,      \* the status sent, "none" before; "theirs" is a mirror's,
                 \* or that of the library which serves the file
    sent,        \* the headers sent with it
    body,        \* what was written after them
    err,         \* what the handler returned
    open,        \* response bodies of mirrors that are open
    deferred,    \* those a deferred call will close
    held         \* the reference to the torrent

mirrors == <<round, answers, ret>>
environment == <<endpoint, selected, gone, configured, info>>
response == <<headers, status, sent, body>>
resources == <<open, deferred, held>>
vars == <<pc, mirrors, environment, response, err, resources>>

Ask == INSTANCE FirstResponse

(* The types of the variables.                                             *)
TypeOK ==
    /\ endpoint \in Endpoints
    /\ selected \in {"inside", "outside"}
    /\ pc \in {"start", "ask", "asked", "got", "load", "copy", "respond",
               "wait", "serve", "proxy", "relay", "wrap", "done", "panicked"}
    /\ round \in {1, 2}
    /\ answers \in Seq(Ask!Answer)
    /\ ret \in 0 .. N
    /\ gone \in BOOLEAN /\ configured \in BOOLEAN /\ info \in BOOLEAN
    /\ headers \subseteq {"Cache-Control", "Content-Type"}
    /\ status \in {"none", "ok", "theirs", "error"}
    /\ sent \subseteq headers
    /\ body \in Seq({"data", "json", "error"})
    /\ Len(body) <= MaxChunks + 1
    /\ err \in {"none", "error", "encoderWriter"}
    /\ open \subseteq {1, 2} /\ deferred \subseteq {1, 2}
    /\ held \in BOOLEAN

Init ==
    /\ endpoint \in Endpoints
    /\ selected \in {"inside", "outside"}
    /\ pc = "start"
    /\ round = 1 /\ answers = <<>> /\ ret = 0
    /\ gone = FALSE /\ configured \in BOOLEAN /\ info \in BOOLEAN
    /\ headers = {} /\ status = "none" /\ sent = {} /\ body = <<>>
    /\ err = "none"
    /\ open = {} /\ deferred = {} /\ held = FALSE

-----------------------------------------------------------------------------
(* The response writer.                                                    *)

SendsStatus(s, hs) ==
    /\ headers' = headers \cup hs
    /\ status' = IF status = "none" THEN s ELSE status
    /\ sent' = IF status = "none" THEN headers' ELSE sent

Writes(hs, piece) == SendsStatus("ok", hs) /\ body' = Append(body, piece)

(* A write to a client that is gone fails after the status, or passes.     *)
WriteFails(hs) == gone /\ SendsStatus("ok", hs) /\ UNCHANGED body

(* The handler ends; its deferred calls close bodies and release.          *)
Ends == /\ open' = open \ deferred
        /\ held' = FALSE
        /\ UNCHANGED <<mirrors, environment, deferred>>

Returns(e) == /\ Ends
              /\ err' = e
              /\ pc' = IF e = "none" THEN "done" ELSE "wrap"

(* net/http recovers the panic of a handler and drops the connection.      *)
Panics == Ends /\ pc' = "panicked" /\ UNCHANGED <<response, err>>

To(step) == pc' = step /\ UNCHANGED <<environment, err, held>>

At(e, step) == endpoint = e /\ pc = step

-----------------------------------------------------------------------------
(* The link is parsed; a view gets its torrent.                            *)
LinkIsBad ==
    /\ pc = "start"
    /\ endpoint # "search"
    /\ Returns("error")
    /\ UNCHANGED response

Starts ==
    /\ pc = "start"
    /\ pc' = CASE endpoint = "view" -> "wait"
               [] endpoint = "search" -> "proxy"
               [] OTHER -> "ask"
    /\ held' = (endpoint = "view")
    /\ UNCHANGED <<mirrors, environment, response, err, open, deferred>>

(* doFirst: the urls come from the options of the moment, and without any  *)
(* it fails at once.                                                       *)
DoFirstCalled ==
    /\ pc = "ask"
    /\ To(IF configured THEN "asked" ELSE "got")
    /\ UNCHANGED <<mirrors, response, open, deferred>>

MirrorAnswers ==
    /\ pc = "asked"
    /\ Ask!Arrive
    /\ UNCHANGED <<pc, round, environment, response, err, resources>>

DoFirstReturns ==
    /\ pc = "asked"
    /\ Ask!Return
    /\ To("got")
    /\ UNCHANGED <<round, response, open, deferred>>

Outcome == IF \E i \in DOMAIN answers : answers[i].url = ret
           THEN answers[CHOOSE i \in DOMAIN answers :
                          answers[i].url = ret].outcome
           ELSE "error"

Opens(r) == open' = open \cup {r}

(* Mutant of Defers: the deferred call closes what the variable holds.     *)
DefersLast(r) == deferred' = {r}

Defers(r) == deferred' = deferred \cup {r}

-----------------------------------------------------------------------------
(* handleMetadata.                                                         *)

(* Mutant of MetadataFails: any error is taken for the client's leaving.   *)
MetadataFailsSilently ==
    /\ At("metadata", "got") /\ Outcome = "error"
    /\ Returns("none")
    /\ UNCHANGED response

(* An error of the client's leaving ends without a response; which of the  *)
(* errors of doFirst it is, once it left, is open.                         *)
MetadataFails ==
    /\ At("metadata", "got") /\ Outcome = "error"
    /\ Returns("error") \/ (gone /\ Returns("none"))
    /\ UNCHANGED response

(* 200 and 206: the headers are sent, to be cached, and the body copied.   *)
MetadataFound ==
    /\ At("metadata", "got") /\ Outcome = "good"
    /\ Opens(1) /\ Defers(1)
    /\ SendsStatus("ok", {"Cache-Control"})
    /\ To("copy")
    /\ UNCHANGED <<mirrors, body>>

(* Any other status is passed on, 403 and 404 to be cached; so is an error *)
(* of closing the body.                                                    *)
MetadataRefused ==
    /\ At("metadata", "got") /\ Outcome # "error"
    /\ \E hs \in {{}, {"Cache-Control"}} : SendsStatus("theirs", hs)
    /\ Returns("none") \/ Returns("error")
    /\ UNCHANGED body

MetadataCopies ==
    /\ At("metadata", "copy")
    /\ Len(body) < MaxChunks
    /\ Writes({}, "data")
    /\ To("copy")
    /\ UNCHANGED <<mirrors, open, deferred>>

(* The body ends, or it or a write fails.                                  *)
MetadataCopied ==
    /\ At("metadata", "copy")
    /\ Returns("none") \/ Returns("error")
    /\ UNCHANGED response

-----------------------------------------------------------------------------
(* handleObjectInfo.                                                       *)

GotTorrent ==
    /\ At("objectInfo", "got") /\ round = 1
    /\ \/ /\ Outcome = "error"
          /\ Returns("error")
       \/ /\ Outcome # "error"
          /\ Opens(1) /\ Defers(1)
          /\ To("load")
          /\ UNCHANGED mirrors
    /\ UNCHANGED response

(* The metainfo is loaded, and the metadata of the object asked for.       *)
LoadsTorrent ==
    /\ At("objectInfo", "load")
    /\ \/ Returns("error")
       \/ /\ To("ask")
          /\ round' = 2 /\ answers' = <<>> /\ ret' = 0
          /\ UNCHANGED <<open, deferred>>
    /\ UNCHANGED response

(* Mutant of GotMetadata: its failure is the failure of the request.       *)
GotMetadataOrFails ==
    /\ At("objectInfo", "got") /\ round = 2
    /\ headers' = headers \cup {"Cache-Control"}
    /\ \/ /\ Outcome = "error"
          /\ Returns("error")
       \/ /\ Outcome # "error"
          /\ Opens(2) /\ Defers(2)
          /\ To("respond")
          /\ UNCHANGED mirrors
    /\ UNCHANGED <<status, sent, body>>

(* "Whatever the response, we don't want the front-end to try again for a  *)
(* while." What fails from here on, but the client's leaving, is logged.   *)
GotMetadata ==
    /\ At("objectInfo", "got") /\ round = 2
    /\ headers' = headers \cup {"Cache-Control"}
    /\ \/ /\ Outcome = "error" /\ gone
          /\ Returns("error")
       \/ /\ Outcome = "error" /\ ~gone
          /\ To("respond")
          /\ UNCHANGED <<mirrors, open, deferred>>
       \/ /\ Outcome # "error"
          /\ Opens(2) /\ Defers(2)
          /\ To("respond")
          /\ UNCHANGED mirrors
    /\ UNCHANGED <<status, sent, body>>

(* encodeJsonResponse.                                                     *)
RespondsInfo ==
    /\ At("objectInfo", "respond")
    /\ \/ Writes({"Content-Type"}, "json") /\ Returns("none")
       \/ WriteFails({"Content-Type"}) /\ Returns("encoderWriter")

-----------------------------------------------------------------------------
(* handleViewWith.                                                         *)

(* Mutant of ViewAbandoned: the view waits for the info alone.             *)
ViewNeverAbandoned ==
    /\ At("view", "wait") /\ gone /\ info
    /\ Returns("error")
    /\ UNCHANGED response

ViewAbandoned ==
    /\ At("view", "wait") /\ gone
    /\ Returns("error")
    /\ UNCHANGED response

(* Files()[selectOnly]                                                     *)
ViewSelects ==
    /\ At("view", "wait") /\ info
    /\ \/ selected = "outside" /\ Panics
       \/ /\ selected = "inside"
          /\ headers' = headers \cup {"Cache-Control"}
          /\ To("serve")
          /\ UNCHANGED <<status, sent, body, mirrors, open, deferred>>

(* confluence.ServeTorrentReader: errors end it, and are not returned.     *)
ViewServes ==
    /\ At("view", "serve")
    /\ \/ /\ Len(body) < MaxChunks
          /\ Writes({}, "data")
          /\ To("serve")
          /\ UNCHANGED <<mirrors, open, deferred>>
       \/ /\ SendsStatus("theirs", {})
          /\ Returns("none")
          /\ UNCHANGED body

-----------------------------------------------------------------------------
(* handleSearch.                                                           *)

(* OPTIONS is answered here; a request that fails is answered by the       *)
(* ReverseProxy with a status of its own.                                  *)
SearchProxied ==
    /\ At("search", "proxy")
    /\ \/ Writes({}, "data") /\ Returns("none")
       \/ SendsStatus("error", {}) /\ Returns("none") /\ UNCHANGED body
       \/ /\ SendsStatus("theirs", {}) /\ To("relay")
          /\ UNCHANGED <<body, mirrors, open, deferred>>

(* The ReverseProxy panics when the copy fails.                            *)
SearchRelayed ==
    /\ At("search", "relay")
    /\ \/ /\ Len(body) < MaxChunks
          /\ Writes({}, "data")
          /\ To("relay")
          /\ UNCHANGED <<mirrors, open, deferred>>
       \/ Returns("none") /\ UNCHANGED response
       \/ Panics

-----------------------------------------------------------------------------
(* wrapHandlerError.                                                       *)

(* Mutant of IsEncoderWriterError: the assertion on its type never holds.  *)
IsNone == FALSE

IsEncoderWriterError == err = "encoderWriter"

WrapEnds ==
    /\ pc = "wrap" /\ IsEncoderWriterError
    /\ To("done")
    /\ UNCHANGED <<mirrors, response, open, deferred>>

(* encodeJsonErrorResponse                                                 *)
WrapAnswers ==
    /\ pc = "wrap" /\ ~IsEncoderWriterError
    /\ SendsStatus("error", {"Content-Type"})
    /\ body' = Append(body, "error") \/ (gone /\ UNCHANGED body)
    /\ To("done")
    /\ UNCHANGED <<mirrors, open, deferred>>

-----------------------------------------------------------------------------
Handler ==
    \/ LinkIsBad \/ Starts \/ DoFirstCalled \/ DoFirstReturns
    \/ MetadataFails \/ MetadataFound \/ MetadataRefused
    \/ MetadataCopies \/ MetadataCopied
    \/ GotTorrent \/ LoadsTorrent \/ GotMetadata \/ RespondsInfo
    \/ ViewAbandoned \/ ViewSelects \/ ViewServes
    \/ SearchProxied \/ SearchRelayed
    \/ WrapEnds \/ WrapAnswers

ClientLeaves ==
    /\ ~gone
    /\ gone' = TRUE
    /\ UNCHANGED <<pc, mirrors, endpoint, selected, configured, info, response,
                   err, resources>>

InfoArrives ==
    /\ ~info
    /\ info' = TRUE
    /\ UNCHANGED <<pc, mirrors, endpoint, selected, gone, configured, response,
                   err, resources>>

ConfigChanges ==
    /\ configured' = ~configured
    /\ UNCHANGED <<pc, mirrors, endpoint, selected, gone, info, response, err,
                   resources>>

Next == \/ Handler \/ MirrorAnswers
        \/ ClientLeaves \/ InfoArrives \/ ConfigChanges

(* Handlers run, copies end (MaxChunks), and a request to a mirror returns *)
(* when its client has left. Nothing makes mirrors, peers or clients act.  *)
Fairness == WF_vars(Handler) /\ WF_vars(gone /\ MirrorAnswers)

Spec == Init /\ [][Next]_vars
FairSpec == Spec /\ Fairness

-----------------------------------------------------------------------------
Ended == pc \in {"done", "panicked"}

ErrorStandsAlone ==
    \A i \in DOMAIN body : body[i] = "error" => i = 1 /\ status = "error"

(* The JSON of an error is the whole response and comes with its status,   *)
(* never behind what a handler has written: "if it's an error during       *)
(* encoding+writing, don't attempt to write new headers and body"          *)
(* (376-381), whatever fails and whenever the client leaves.               *)
ErrorsStandAlone == endpoint # "metadata" => ErrorStandsAlone

(* The same of /thumbnail and /duration, whose copy of a mirror's body may *)
(* fail half-way (728-731).                                                *)
MetadataErrorsStandAlone == endpoint = "metadata" => ErrorStandsAlone

(* What the client gets is an error of this code, by the status or because *)
(* the JSON of one was appended.                                           *)
Failed == status = "error" \/ \E i \in DOMAIN body : body[i] = "error"

(* A client that is still there is not told to cache an error, though      *)
(* handlers set Cache-Control before they know how they end (929, 1002),   *)
(* save where /thumbnail and /duration have sent a mirror's status before  *)
(* the copy, or the Close, fails (724-731, 738): there the JSON goes out   *)
(* under the headers of the answer, see MetadataErrorsStandAlone. A 403 or *)
(* 404 of a mirror is cached on purpose (732-735) and is no error here.    *)
ErrorsAreNotCached ==
    Failed /\ "Cache-Control" \in sent /\ ~gone
      => endpoint = "metadata" /\ status # "error"

(* However a handler ends, by an error or a panic too, no mirror's body    *)
(* stays open, of one doFirst or of two in a row (721, 969, 1004), and the *)
(* torrent of a view is released (871).                                    *)
EndsReleased == Ended => open = {} /\ ~held

(* A handler that ends without a response was left by its client, or was   *)
(* given a file index that the torrent does not have (714-716, 926).       *)
SilenceIsExplained ==
    Ended /\ status = "none" =>
      gone \/ (endpoint = "view" /\ selected = "outside")

(* No handler outlives its client: not one that asks mirrors which do not  *)
(* answer, nor a view whose info never comes, which has no other limit     *)
(* (889-896).                                                              *)
LeavingEnds == gone ~> Ended
=============================================================================
