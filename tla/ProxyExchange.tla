--------------------------- MODULE ProxyExchange ---------------------------
(***************************************************************************)
(* One request through Handler.ServeHTTP (internal/proxy/handler.go): the  *)
(* exchange state, the two capture buffers, the response recorder, the     *)
(* ModifyResponse and ErrorHandler callbacks, the panic recovery and       *)
(* finalize.  httputil.ReverseProxy, the transport below it and the HTTP   *)
(* server above it are external: what they may do is taken from how the    *)
(* handler uses them.  The transport reads the request body in a goroutine *)
(* of its own, which may outlive the exchange.                             *)
(*                                                                         *)
(* Bodies are numbers of bytes, read in chunks.                            *)
(***************************************************************************)
EXTENDS Integers

CONSTANTS
    Limit,        \* maxCaptureBytes
    MaxBody,      \* bound on the length of a body
    Statuses,     \* final statuses the backend answers with
    ErrorText     \* bytes of the text http.Error writes

ASSUME ExchangeAssumption ==
    /\ Limit \in Nat \ {0}
    /\ MaxBody \in Nat
    /\ Statuses \subseteq (200 .. 599)
    /\ ErrorText \in Nat \ {0}

VARIABLES
    health,       \* the path is one of the health paths
    upgrade,      \* the request asks for a protocol upgrade
    phase,        \* "transport", "copy", "panicked", "unwind", "finalize", "emit" or "done"
    reqUnread,    \* request bytes the transport has not read
    reqInFlight,  \* bytes a Read returned that teeReadCloser has not captured yet
    reqClosed,    \* ReverseProxy closed the request body
    reqCapture,   \* state.requestCapture
    resCapture,   \* state.responseCapture
    captured,     \* state.responseCapture is not nil
    status,       \* state.responseStatus
    recorder,     \* the responseRecorder
    upstream,     \* the backend's final response: status, 0 before it, and length
    resUnread,    \* response bytes not read from the backend
    client,       \* what the client received: status, upstream bytes, error text
    entry         \* the log entries emitted

reqVars == <<reqUnread, reqInFlight, reqClosed, reqCapture>>
resVars == <<resCapture, captured, status, recorder, upstream, resUnread, client>>
vars    == <<health, upgrade, phase, reqVars, resVars, entry>>

newCaptureBuffer == [kept |-> 0, total |-> 0, truncated |-> FALSE]

\* Mutants of Write: no limit, a full capture taken for a truncated one, and a
\* total that misses what does not fit.
WriteAll(c, n) ==
    [kept |-> c.kept + n, total |-> c.total + n, truncated |-> c.truncated]

WriteMarksFull(c, n) ==
    LET remaining == Limit - c.kept
    IN  [kept      |-> c.kept + (IF n > remaining THEN remaining ELSE n),
         total     |-> c.total + n,
         truncated |-> c.truncated \/ n >= remaining]

WriteTotalsKept(c, n) ==
    LET remaining == Limit - c.kept
    IN  [kept      |-> c.kept + (IF n > remaining THEN remaining ELSE n),
         total     |-> IF n > remaining THEN c.total ELSE c.total + n,
         truncated |-> c.truncated \/ n > remaining]

\* captureBuffer.Write of n bytes.
Write(c, n) ==
    LET remaining == Limit - c.kept
    IN  [kept      |-> c.kept + (IF n > remaining THEN remaining ELSE n),
         total     |-> c.total + n,
         truncated |-> c.truncated \/ n > remaining]

Init ==
    /\ health \in BOOLEAN
    /\ upgrade \in BOOLEAN
    /\ phase = "transport"
    /\ reqUnread \in 0 .. MaxBody
    /\ reqInFlight = 0
    /\ reqClosed = FALSE
    /\ reqCapture = newCaptureBuffer
    /\ resCapture = newCaptureBuffer
    /\ captured = FALSE
    /\ status = 0
    /\ recorder = [status |-> 0, bytes |-> 0]
    /\ upstream = [status |-> 0, length |-> 0]
    /\ resUnread = 0
    /\ client = [status |-> 0, bytes |-> 0, text |-> FALSE]
    /\ entry = {}

----------------------------------------------------------------------------
(* The transport's goroutine that sends the request body. *)

ReadRequest(n) ==
    /\ ~reqClosed
    /\ reqInFlight = 0
    /\ n =< reqUnread
    /\ reqUnread' = reqUnread - n
    /\ reqInFlight' = n
    /\ UNCHANGED <<health, upgrade, phase, reqClosed, reqCapture, resVars, entry>>

\* teeReadCloser.Read writes what it read to the capture.
CaptureRequest ==
    /\ reqInFlight > 0
    /\ reqCapture' = Write(reqCapture, reqInFlight)
    /\ reqInFlight' = 0
    /\ UNCHANGED <<health, upgrade, phase, reqUnread, reqClosed, resVars, entry>>

----------------------------------------------------------------------------
(* The recorder in front of the server's response writer. *)

\* WriteHeader records the first status it sees, an informational one included;
\* the server sends informational headers at once and keeps the first final status.
RecordHeader(s) == IF recorder.status = 0 THEN s ELSE recorder.status
SentHeader(s)   == IF client.status = 0 THEN s ELSE client.status

\* http.Error through the recorder.
WriteError(s) ==
    /\ recorder' = [status |-> RecordHeader(s), bytes |-> recorder.bytes + ErrorText]
    /\ client' = [client EXCEPT !.status = SentHeader(s), !.text = TRUE]

\* ReverseProxy passes on a 103 answer.
Informational ==
    /\ phase = "transport"
    /\ recorder.status = 0
    /\ recorder' = [recorder EXCEPT !.status = 103]
    /\ UNCHANGED <<health, upgrade, phase, reqVars, resCapture, captured, status, upstream,
                   resUnread, client, entry>>

----------------------------------------------------------------------------
(* ReverseProxy.ServeHTTP and the callbacks. *)

ErrorHandler ==
    /\ WriteError(502)
    /\ status' = 502
    /\ phase' = "unwind"

\* The transport gave no response.
TransportFails ==
    /\ phase = "transport"
    /\ ErrorHandler
    /\ UNCHANGED <<health, upgrade, reqVars, resCapture, captured, upstream, resUnread, entry>>

TransportPanics ==
    /\ phase = "transport"
    /\ phase' = "panicked"
    /\ UNCHANGED <<health, upgrade, reqVars, resVars, entry>>

\* A final response: ModifyResponse notes its status and wraps its body, then
\* the header goes to the client.
Respond(s, length) ==
    /\ phase = "transport"
    /\ upstream' = [status |-> s, length |-> length]
    /\ resUnread' = length
    /\ status' = s
    /\ captured' = TRUE
    /\ resCapture' = newCaptureBuffer
    /\ recorder' = [recorder EXCEPT !.status = RecordHeader(s)]
    /\ client' = [client EXCEPT !.status = SentHeader(s)]
    /\ phase' = "copy"
    /\ UNCHANGED <<health, upgrade, reqVars, entry>>

\* 101 Switching Protocols: the body that ModifyResponse wrapped cannot be
\* written to any more, and ReverseProxy gives up on the upgrade.
SwitchProtocols ==
    /\ phase = "transport"
    /\ upgrade
    /\ upstream' = [status |-> 101, length |-> 0]
    /\ captured' = TRUE
    /\ resCapture' = newCaptureBuffer
    /\ ErrorHandler
    /\ UNCHANGED <<health, upgrade, reqVars, resUnread, entry>>

\* A chunk of the response is read and captured, and written to the client.
CopyChunk(n) ==
    /\ phase = "copy"
    /\ n =< resUnread
    /\ resUnread' = resUnread - n
    /\ resCapture' = Write(resCapture, n)
    /\ recorder' = [recorder EXCEPT !.bytes = @ + n]
    /\ client' = [client EXCEPT !.bytes = @ + n]
    /\ UNCHANGED <<health, upgrade, phase, reqVars, captured, status, upstream, entry>>

CopyDone ==
    /\ phase = "copy"
    /\ resUnread = 0
    /\ phase' = "unwind"
    /\ UNCHANGED <<health, upgrade, reqVars, resVars, entry>>

\* The copy fails, reading from the backend or, after the capture, writing to
\* the client: ReverseProxy panics with http.ErrAbortHandler.
CopyFails(n) ==
    /\ phase = "copy"
    /\ resUnread > 0
    /\ n =< resUnread
    /\ resCapture' = Write(resCapture, n)
    /\ resUnread' = resUnread - n
    /\ phase' = "panicked"
    /\ UNCHANGED <<health, upgrade, reqVars, captured, status, recorder, upstream, client, entry>>

\* Mutants of Recover: finalize is skipped, and the status stays the backend's.
RecoverOnly ==
    /\ phase = "panicked"
    /\ status' = 500
    /\ WriteError(500)
    /\ phase' = "done"
    /\ UNCHANGED <<health, upgrade, reqVars, resCapture, captured, upstream, resUnread, entry>>

RecoverQuietly ==
    /\ phase = "panicked"
    /\ WriteError(500)
    /\ phase' = "unwind"
    /\ UNCHANGED <<health, upgrade, reqVars, resCapture, captured, status, upstream, resUnread, entry>>

\* ServeHTTP recovers from every panic.
Recover ==
    /\ phase = "panicked"
    /\ status' = 500
    /\ WriteError(500)
    /\ phase' = "unwind"
    /\ UNCHANGED <<health, upgrade, reqVars, resCapture, captured, upstream, resUnread, entry>>

\* ReverseProxy closes the request body when it returns or panics; a Read that
\* has already returned may still be on its way to the capture.
CloseRequestBody ==
    /\ phase = "unwind"
    /\ reqClosed' = TRUE
    /\ phase' = "finalize"
    /\ UNCHANGED <<health, upgrade, reqUnread, reqInFlight, reqCapture, resVars, entry>>

----------------------------------------------------------------------------
(* finalize, in the two steps in which it looks at the request capture. *)

LoggedStatus == IF status = 0 THEN (IF recorder.status = 0 THEN 200 ELSE recorder.status)
                              ELSE status

\* What finalize may see of the request capture.  It takes no lock: while a
\* chunk is on its way into the capture, each field is seen before or after.
Race == reqInFlight > 0
Seen(field) == {reqCapture[field]} \cup
               (IF Race THEN {Write(reqCapture, reqInFlight)[field]} ELSE {})

\* Requests for a health path leave no trace.
Snapshot ==
    /\ phase = "finalize"
    /\ \/ health /\ phase' = "done" /\ UNCHANGED entry
       \/ /\ ~health
          /\ phase' = "emit"
          /\ \E kept \in Seen("kept"), truncated \in Seen("truncated") :
                entry' = {[status    |-> LoggedStatus,
                           reqBody   |-> kept,
                           truncated |-> truncated,
                           reqBytes  |-> kept,
                           resBytes  |-> IF captured THEN resCapture.total ELSE recorder.bytes,
                           raced     |-> Race,
                           sent      |-> FALSE]}
    /\ UNCHANGED <<health, upgrade, reqVars, resVars>>

\* The total is read later, for the metrics; then the entry goes to the sinks.
Emit ==
    /\ phase = "emit"
    /\ phase' = "done"
    /\ \E total \in Seen("total") :
        entry' = {[e EXCEPT !.reqBytes = total, !.raced = @ \/ Race, !.sent = TRUE] : e \in entry}
    /\ UNCHANGED <<health, upgrade, reqVars, resVars>>

Done == phase = "done" /\ UNCHANGED vars

Chunk == 1 .. MaxBody

Next ==
    \/ \E n \in Chunk : ReadRequest(n) \/ CopyChunk(n)
    \/ \E n \in {0} \cup Chunk : CopyFails(n)
    \/ CaptureRequest
    \/ Informational
    \/ TransportFails
    \/ TransportPanics
    \/ \E s \in Statuses, length \in 0 .. MaxBody : Respond(s, length)
    \/ SwitchProtocols
    \/ CopyDone
    \/ Recover
    \/ CloseRequestBody
    \/ Snapshot
    \/ Emit
    \/ Done

Spec == Init /\ [][Next]_vars

----------------------------------------------------------------------------
(* Properties. *)

Capture == [kept : 0 .. Limit, total : Nat, truncated : BOOLEAN]

\* The type invariant: neither capture ever keeps more than its limit
\* ("Truncates captured bodies instead of allowing unbounded memory growth").
TypeOK ==
    /\ health \in BOOLEAN /\ upgrade \in BOOLEAN /\ captured \in BOOLEAN /\ reqClosed \in BOOLEAN
    /\ phase \in {"transport", "copy", "panicked", "unwind", "finalize", "emit", "done"}
    /\ reqUnread \in 0 .. MaxBody /\ reqInFlight \in 0 .. MaxBody /\ resUnread \in 0 .. MaxBody
    /\ reqCapture \in Capture /\ resCapture \in Capture
    /\ status \in {0, 500, 502} \cup Statuses
    /\ recorder \in [status : {0, 103, 500, 502} \cup Statuses, bytes : Nat]
    /\ upstream \in [status : {0, 101} \cup Statuses, length : 0 .. MaxBody]
    /\ client \in [status : {0, 500, 502} \cup Statuses, bytes : 0 .. MaxBody, text : BOOLEAN]
    /\ entry \subseteq [status : {500, 502} \cup Statuses, reqBody : 0 .. Limit, truncated : BOOLEAN,
                        reqBytes : Nat, resBytes : Nat, raced : BOOLEAN, sent : BOOLEAN]

\* A capture never keeps more than its limit, is marked as truncated exactly when
\* it lacks bytes that passed by, and lacks none as long as it is not full.
TruncationIsMarked ==
    /\ TypeOK
    /\ \A c \in {reqCapture, resCapture} :
           /\ c.truncated <=> c.kept < c.total
           /\ c.truncated => c.kept = Limit

\* Every exchange ends with exactly one emitted entry, whatever failed or
\* panicked on the way, and an exchange on a health path with none.
OneEntryPerExchange ==
    phase = "done" => IF health THEN entry = {} ELSE \E e \in entry : entry = {e} /\ e.sent

\* The telemetry never shows the backend's status for an answer the client did
\* not get: an entry with a status other than the 500 and 502 of the handler
\* itself means that the client got that status and every byte of the body.
SuccessIsComplete ==
    \A e \in entry : e.status \notin {500, 502} =>
        /\ e.status = upstream.status
        /\ client = [status |-> e.status, bytes |-> upstream.length, text |-> FALSE]
        /\ e.resBytes = upstream.length

\* The client got an answer by the time the entry is emitted, of no more bytes
\* than the entry tells; and the entry is one picture of the request, its body
\* truncated exactly when it is shorter than the logged size.  The latter is not so if
\* a chunk was just on its way to the capture, which finalize reads without a lock.
EntryIsConsistent ==
    \A e \in entry : e.sent =>
        /\ client.status # 0
        /\ client.bytes =< e.resBytes
        /\ e.raced \/ (e.truncated <=> e.reqBody < e.reqBytes)

\* SPEC.md: "only the final upstream result is logged and metered".  When the
\* backend answered, the entry carries the backend's status.
LoggedResultIsUpstream ==
    \A e \in entry : upstream.status # 0 => e.status = upstream.status
=============================================================================
