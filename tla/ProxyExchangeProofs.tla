------------------------ MODULE ProxyExchangeProofs ------------------------
(***************************************************************************)
(* Proofs about ProxyExchange for bodies of every length, every capture    *)
(* limit and every set of statuses that ExchangeAssumption allows.         *)
(***************************************************************************)
EXTENDS ProxyExchange, TLAPS

\* What captureBuffer.Write keeps true of a capture.
CaptureOK(c) ==
    /\ c \in Capture
    /\ c.kept =< c.total
    /\ c.truncated <=> c.kept < c.total
    /\ c.truncated => c.kept = Limit

CapturesInv == CaptureOK(reqCapture) /\ CaptureOK(resCapture)

\* TypeOK without the captures and the entry, whose types need the parts below.
ExchangeTypes ==
    /\ health \in BOOLEAN /\ upgrade \in BOOLEAN /\ captured \in BOOLEAN /\ reqClosed \in BOOLEAN
    /\ phase \in {"transport", "copy", "panicked", "unwind", "finalize", "emit", "done"}
    /\ reqUnread \in 0 .. MaxBody /\ reqInFlight \in 0 .. MaxBody /\ resUnread \in 0 .. MaxBody
    /\ status \in {0, 500, 502} \cup Statuses
    /\ recorder \in [status : {0, 103, 500, 502} \cup Statuses, bytes : Nat]
    /\ upstream \in [status : {0, 101} \cup Statuses, length : 0 .. MaxBody]
    /\ client \in [status : {0, 500, 502} \cup Statuses, bytes : 0 .. MaxBody, text : BOOLEAN]

\* Nothing went to the client before the transport answered.
TransportInv ==
    phase = "transport" =>
        /\ status = 0 /\ ~captured
        /\ client.status = 0 /\ client.bytes = 0 /\ ~client.text

\* While the body is copied, the client, the capture and the backend's length
\* agree.
CopyInv ==
    phase = "copy" =>
        /\ captured
        /\ status \in Statuses /\ upstream.status = status /\ client.status = status
        /\ ~client.text
        /\ client.bytes + resUnread = upstream.length
        /\ resCapture.total = client.bytes

\* The client has no more bytes than the response capture has seen, and none if
\* there is no capture.
BytesInv == client.bytes =< (IF captured THEN resCapture.total ELSE 0)

\* ServeHTTP is behind the copy and behind the recovery: the client was
\* answered, by the handler itself or with the whole response.
AnsweredInv ==
    phase \in {"unwind", "finalize", "emit", "done"} =>
        /\ status # 0 /\ client.status # 0
        /\ status \in {500, 502} \/
              /\ captured
              /\ upstream.status = status /\ client.status = status
              /\ ~client.text
              /\ client.bytes = upstream.length
              /\ resCapture.total = upstream.length

\* The request body is closed before finalize looks at its capture.
ClosedInv == phase \in {"finalize", "emit", "done"} => reqClosed

Entry == [status : {500, 502} \cup Statuses, reqBody : 0 .. Limit, truncated : BOOLEAN,
          reqBytes : Nat, resBytes : Nat, raced : BOOLEAN, sent : BOOLEAN]

\* What an entry has from the state.  Unless a chunk was on its way when finalize
\* looked, nothing can reach the request capture any more.
EntryOf(e) ==
    /\ e \in Entry
    /\ e.status = status
    /\ e.resBytes = IF captured THEN resCapture.total ELSE recorder.bytes
    /\ e.raced \/ /\ reqInFlight = 0
                  /\ e.reqBody = reqCapture.kept
                  /\ e.truncated = reqCapture.truncated
                  /\ e.sent => e.reqBytes = reqCapture.total

EntryInv ==
    /\ phase \notin {"emit", "done"} => entry = {}
    /\ health => entry = {}
    /\ ~health /\ phase = "emit" => \E e \in entry : entry = {e}
    /\ ~health /\ phase = "done" => \E e \in entry : entry = {e} /\ e.sent
    /\ \A e \in entry : EntryOf(e)

IndInv ==
    /\ ExchangeTypes
    /\ CapturesInv
    /\ TransportInv
    /\ CopyInv
    /\ BytesInv
    /\ AnsweredInv
    /\ ClosedInv
    /\ EntryInv

----------------------------------------------------------------------------
(* The captures. *)

\* captureBuffer.Write never keeps more than the limit, and marks what it cuts.
LEMMA WriteOK ==
    ASSUME NEW c, CaptureOK(c), NEW n \in Nat
    PROVE  CaptureOK(Write(c, n)) /\ Write(c, n).total = c.total + n
<1> USE ExchangeAssumption DEF CaptureOK, Capture
<1>1. CASE n > Limit - c.kept
  <2>1. Write(c, n) = [kept |-> Limit, total |-> c.total + n, truncated |-> TRUE]
    <3>1. c.kept + (Limit - c.kept) = Limit
      OBVIOUS
    <3>2. (c.truncated \/ n > Limit - c.kept) = TRUE
      BY <1>1
    <3> QED
      BY <1>1, <3>1, <3>2 DEF Write
  <2>2. Limit < c.total + n
    BY <1>1
  <2> QED
    BY <2>1, <2>2
<1>2. CASE ~(n > Limit - c.kept)
  <2>1. Write(c, n) = [kept |-> c.kept + n, total |-> c.total + n, truncated |-> c.truncated]
    BY <1>2 DEF Write
  <2>2. c.truncated => n = 0
    BY <1>2
  <2> QED
    BY <1>2, <2>1, <2>2
<1> QED
  BY <1>1, <1>2

LEMMA NewCaptureOK == CaptureOK(newCaptureBuffer) /\ newCaptureBuffer.total = 0
BY ExchangeAssumption DEF CaptureOK, Capture, newCaptureBuffer

\* The data that pass through an exchange are split here by the three actions
\* that write to a capture; every other one leaves both alone or starts anew.
LEMMA NextCaptures == ExchangeTypes /\ CapturesInv /\ [Next]_vars => CapturesInv'
<1> SUFFICES ASSUME ExchangeTypes, CapturesInv, [Next]_vars PROVE CapturesInv'
  OBVIOUS
<1> USE DEF CapturesInv
<1>1. CASE CaptureRequest
  <2>1. reqInFlight \in Nat
    BY ExchangeAssumption DEF ExchangeTypes
  <2> QED
    BY <1>1, <2>1, WriteOK DEF CaptureRequest, resVars
<1>2. ASSUME NEW n \in {0} \cup Chunk, CopyChunk(n) \/ CopyFails(n) PROVE CapturesInv'
  <2>1. n \in Nat
    BY ExchangeAssumption DEF Chunk
  <2>2. CaptureOK(Write(resCapture, n))
    BY <2>1, WriteOK
  <2> QED
    BY <1>2, <2>2 DEF CopyChunk, CopyFails, reqVars
<1>3. ASSUME NEW s, NEW length, Respond(s, length) PROVE CapturesInv'
  BY <1>3, NewCaptureOK DEF Respond, reqVars
<1>4. CASE SwitchProtocols
  BY <1>4, NewCaptureOK DEF SwitchProtocols, reqVars
<1>5. ASSUME NEW n \in Chunk, ReadRequest(n) PROVE CapturesInv'
  BY <1>5 DEF ReadRequest, resVars
<1>6. CASE Informational \/ TransportFails \/ TransportPanics \/ CopyDone \/ Recover \/ CloseRequestBody
           \/ Snapshot \/ Emit \/ UNCHANGED vars
  BY <1>6 DEF Informational, TransportFails, TransportPanics, CopyDone, Recover, CloseRequestBody,
              Snapshot, Emit, vars, reqVars, resVars
<1> QED
  BY <1>1, <1>2, <1>3, <1>4, <1>5, <1>6 DEF Next, Done

----------------------------------------------------------------------------
(* The exchange up to finalize. *)

\* The parts of the invariant that do not look at the request or the entry.
ResponseInv == ExchangeTypes /\ TransportInv /\ CopyInv /\ BytesInv /\ AnsweredInv

\* http.Error is the first that the client gets to see.
LEMMA ErrorWritten ==
    ASSUME ExchangeTypes, TransportInv, phase = "transport", WriteError(502)
    PROVE  /\ recorder' \in [status : {0, 103, 500, 502} \cup Statuses, bytes : Nat]
           /\ client' = [status |-> 502, bytes |-> 0, text |-> TRUE]
<1>1. recorder' \in [status : {0, 103, 500, 502} \cup Statuses, bytes : Nat]
  <2>1. recorder' = [status |-> RecordHeader(502), bytes |-> recorder.bytes + ErrorText]
    BY DEF WriteError
  <2>2. RecordHeader(502) \in {0, 103, 500, 502} \cup Statuses
    BY DEF ExchangeTypes, RecordHeader
  <2>3. recorder.bytes + ErrorText \in Nat
    BY ExchangeAssumption DEF ExchangeTypes
  <2> QED
    BY <2>1, <2>2, <2>3
<1>2. client.status = 0 /\ client.bytes = 0
  BY DEF TransportInv
<1>3. client' = [client EXCEPT !.status = 502, !.text = TRUE]
  BY <1>2 DEF WriteError, SentHeader
<1>4. client \in [status : {0, 500, 502} \cup Statuses, bytes : 0 .. MaxBody, text : BOOLEAN]
  BY DEF ExchangeTypes
<1> QED
  BY <1>1, <1>2, <1>3, <1>4

LEMMA NextResponse == CapturesInv /\ ResponseInv /\ [Next]_vars => ResponseInv'
<1> SUFFICES ASSUME CapturesInv, ResponseInv, [Next]_vars PROVE ResponseInv'
  OBVIOUS
<1> USE ExchangeAssumption
    DEF ResponseInv, ExchangeTypes, TransportInv, CopyInv, BytesInv, AnsweredInv
<1>1. ASSUME NEW n \in Chunk, ReadRequest(n) PROVE ResponseInv'
  BY <1>1 DEF ReadRequest, Chunk, resVars
<1>2. CASE CaptureRequest
  BY <1>2 DEF CaptureRequest, resVars
<1>3. CASE Informational
  BY <1>3 DEF Informational, reqVars
<1>4. CASE TransportFails
  <2>1. phase = "transport" /\ WriteError(502)
    BY <1>4 DEF TransportFails, ErrorHandler
  <2>2. /\ recorder' \in [status : {0, 103, 500, 502} \cup Statuses, bytes : Nat]
        /\ client' = [status |-> 502, bytes |-> 0, text |-> TRUE]
    BY <2>1, ErrorWritten
  <2> QED
    BY <1>4, <2>1, <2>2 DEF TransportFails, ErrorHandler, reqVars
<1>5. CASE TransportPanics
  BY <1>5 DEF TransportPanics, reqVars, resVars
<1>6. ASSUME NEW s \in Statuses, NEW length \in 0 .. MaxBody, Respond(s, length) PROVE ResponseInv'
  BY <1>6, NewCaptureOK DEF Respond, RecordHeader, SentHeader, reqVars
<1>7. CASE SwitchProtocols
  <2>1. phase = "transport" /\ WriteError(502)
    BY <1>7 DEF SwitchProtocols, ErrorHandler
  <2>2. /\ recorder' \in [status : {0, 103, 500, 502} \cup Statuses, bytes : Nat]
        /\ client' = [status |-> 502, bytes |-> 0, text |-> TRUE]
    BY <2>1, ErrorWritten
  <2> QED
    BY <1>7, <2>1, <2>2, NewCaptureOK DEF SwitchProtocols, ErrorHandler, reqVars
<1>8. ASSUME NEW n \in Chunk, CopyChunk(n) PROVE ResponseInv'
  <2>1. n \in Nat /\ Write(resCapture, n).total = resCapture.total + n
    BY WriteOK DEF CapturesInv, Chunk
  <2> QED
    BY <1>8, <2>1 DEF CopyChunk, reqVars
<1>9. CASE CopyDone
  BY <1>9 DEF CopyDone, reqVars, resVars
<1>10. ASSUME NEW n \in {0} \cup Chunk, CopyFails(n) PROVE ResponseInv'
  <2>1. n \in Nat
    BY DEF Chunk
  <2>2. Write(resCapture, n).total = resCapture.total + n
    BY <2>1, WriteOK DEF CapturesInv
  <2>3. resCapture.total \in Nat
    BY DEF CapturesInv, CaptureOK, Capture
  <2> QED
    BY <1>10, <2>1, <2>2, <2>3 DEF CopyFails, reqVars
<1>11. CASE Recover
  <2>1. recorder' \in [status : {0, 103, 500, 502} \cup Statuses, bytes : Nat]
    BY <1>11 DEF Recover, WriteError, RecordHeader
  <2>2. SentHeader(500) \in {500, 502} \cup Statuses /\ SentHeader(500) # 0
    BY DEF SentHeader
  <2>3. client' = [status |-> SentHeader(500), bytes |-> client.bytes, text |-> TRUE]
    BY <1>11 DEF Recover, WriteError
  <2> QED
    BY <1>11, <2>1, <2>2, <2>3 DEF Recover, reqVars
<1>12. CASE CloseRequestBody
  BY <1>12 DEF CloseRequestBody, resVars
<1>13. CASE Snapshot \/ Emit
  <2>1. /\ phase \in {"finalize", "emit"} /\ phase' \in {"emit", "done"}
        /\ UNCHANGED <<health, upgrade, reqVars, resVars>>
    <3>1. CASE Snapshot
      BY <3>1, Zenon DEF Snapshot
    <3>2. CASE Emit
      BY <3>2, Zenon DEF Emit
    <3> QED
      BY <1>13, <3>1, <3>2
  <2> QED
    BY <2>1 DEF reqVars, resVars
<1>14. CASE UNCHANGED vars
  BY <1>14 DEF vars, reqVars, resVars
<1> QED
  BY <1>1, <1>2, <1>3, <1>4, <1>5, <1>6, <1>7, <1>8, <1>9, <1>10, <1>11, <1>12, <1>13, <1>14 DEF Next, Done

----------------------------------------------------------------------------
(* finalize. *)

LEMMA NextClosed == ClosedInv /\ [Next]_vars => ClosedInv'
<1> SUFFICES ASSUME ClosedInv, [Next]_vars PROVE ClosedInv'
  OBVIOUS
<1> USE DEF ClosedInv
<1>1. ASSUME NEW n, ReadRequest(n) \/ CopyChunk(n) \/ CopyFails(n) PROVE ClosedInv'
  BY <1>1 DEF ReadRequest, CopyChunk, CopyFails, reqVars
<1>2. ASSUME NEW s, NEW length, Respond(s, length) PROVE ClosedInv'
  BY <1>2 DEF Respond, reqVars
<1>3. CASE CaptureRequest \/ Informational \/ TransportFails \/ TransportPanics \/ SwitchProtocols
  BY <1>3 DEF CaptureRequest, Informational, TransportFails, TransportPanics, SwitchProtocols,
              ErrorHandler, reqVars
<1>4. CASE CopyDone \/ Recover \/ CloseRequestBody
  BY <1>4 DEF CopyDone, Recover, CloseRequestBody, reqVars
<1>5. CASE Snapshot
  BY <1>5, Zenon DEF Snapshot, reqVars
<1>6. CASE Emit
  BY <1>6, Zenon DEF Emit, reqVars
<1>7. CASE UNCHANGED vars
  BY <1>7 DEF vars, reqVars
<1> QED
  BY <1>1, <1>2, <1>3, <1>4, <1>5, <1>6, <1>7 DEF Next, Done

\* Whatever finalize sees of the request capture has the type of the field, and
\* without a race it is the field itself.
LEMMA SeenTypes ==
    ASSUME CapturesInv, reqInFlight \in Nat
    PROVE  /\ Seen("kept") \subseteq 0 .. Limit
           /\ Seen("total") \subseteq Nat
           /\ Seen("truncated") \subseteq BOOLEAN
           /\ ~Race => /\ Seen("kept") = {reqCapture.kept}
                       /\ Seen("total") = {reqCapture.total}
                       /\ Seen("truncated") = {reqCapture.truncated}
<1>1. reqCapture \in Capture /\ Write(reqCapture, reqInFlight) \in Capture
  BY WriteOK DEF CapturesInv, CaptureOK
<1> QED
  BY <1>1 DEF Capture, Seen

\* The status that finalize logs is the one the exchange ended with.
LEMMA LoggedIsStatus ==
    ASSUME ResponseInv, phase = "finalize"
    PROVE  LoggedStatus = status /\ status \in {500, 502} \cup Statuses
BY DEF ResponseInv, ExchangeTypes, AnsweredInv, LoggedStatus

\* The bytes of the response that finalize logs are a natural number.
LEMMA LoggedBytes ==
    ASSUME ResponseInv, CapturesInv
    PROVE  (IF captured THEN resCapture.total ELSE recorder.bytes) \in Nat
<1>1. resCapture.total \in Nat
  BY DEF CapturesInv, CaptureOK, Capture
<1>2. recorder.bytes \in Nat
  BY DEF ResponseInv, ExchangeTypes
<1> QED
  BY <1>1, <1>2

\* The entry that finalize builds.
LEMMA SnapshotEntry ==
    ASSUME CapturesInv, ResponseInv, reqInFlight \in Nat, phase = "finalize",
           NEW kept \in Seen("kept"), NEW truncated \in Seen("truncated")
    PROVE  EntryOf([status    |-> LoggedStatus,
                    reqBody   |-> kept,
                    truncated |-> truncated,
                    reqBytes  |-> kept,
                    resBytes  |-> IF captured THEN resCapture.total ELSE recorder.bytes,
                    raced     |-> Race,
                    sent      |-> FALSE])
<1> DEFINE e == [status    |-> LoggedStatus,
                 reqBody   |-> kept,
                 truncated |-> truncated,
                 reqBytes  |-> kept,
                 resBytes  |-> IF captured THEN resCapture.total ELSE recorder.bytes,
                 raced     |-> Race,
                 sent      |-> FALSE]
<1>1. e \in Entry
  <2>1. Race \in BOOLEAN
    BY DEF Race
  <2> QED
    BY <2>1, ExchangeAssumption, SeenTypes, LoggedIsStatus, LoggedBytes DEF Entry
<1>2. Race \/ (reqInFlight = 0 /\ kept = reqCapture.kept /\ truncated = reqCapture.truncated)
  <2>1. Race \/ reqInFlight = 0
    BY DEF Race
  <2>2. ASSUME ~Race PROVE kept = reqCapture.kept /\ truncated = reqCapture.truncated
    BY <2>2, SeenTypes
  <2> QED
    BY <2>1, <2>2
<1>3. e.raced = Race /\ e.reqBody = kept /\ e.truncated = truncated /\ e.sent = FALSE
  OBVIOUS
<1> QED
  BY <1>1, <1>2, <1>3, LoggedIsStatus DEF EntryOf

\* The entry that is emitted: the total is added.
LEMMA EmittedEntry ==
    ASSUME CapturesInv, reqInFlight \in Nat, NEW total \in Seen("total"), NEW e, EntryOf(e)
    PROVE  LET f == [e EXCEPT !.reqBytes = total, !.raced = @ \/ Race, !.sent = TRUE]
           IN  EntryOf(f) /\ f.sent
<1> DEFINE f == [e EXCEPT !.reqBytes = total, !.raced = @ \/ Race, !.sent = TRUE]
<1>1. e \in Entry /\ total \in Nat /\ (e.raced \/ Race) \in BOOLEAN
  BY SeenTypes DEF EntryOf
<1>2. f \in Entry
  <2>1. ASSUME NEW b \in BOOLEAN
        PROVE  [e EXCEPT !.reqBytes = total, !.raced = b, !.sent = TRUE] \in Entry
    BY <1>1 DEF Entry
  <2> QED
    BY <1>1, <2>1
<1>3. /\ f.status = e.status /\ f.resBytes = e.resBytes /\ f.reqBody = e.reqBody
      /\ f.truncated = e.truncated /\ f.reqBytes = total /\ f.sent = TRUE
      /\ f.raced = (e.raced \/ Race)
  BY <1>1 DEF Entry
<1>4. Race \/ total = reqCapture.total
  BY SeenTypes
<1> QED
  BY <1>2, <1>3, <1>4 DEF EntryOf

LEMMA NextEntry ==
    CapturesInv /\ ResponseInv /\ ClosedInv /\ EntryInv /\ [Next]_vars => EntryInv'
<1> SUFFICES ASSUME CapturesInv, ResponseInv, ClosedInv, EntryInv, [Next]_vars PROVE EntryInv'
  OBVIOUS
<1>1. health \in BOOLEAN /\ reqInFlight \in Nat
  BY ExchangeAssumption DEF ResponseInv, ExchangeTypes
\* Before finalize there is no entry.
<1>2. ASSUME phase \notin {"emit", "done"}, phase' \notin {"emit", "done"}, entry' = entry
      PROVE  EntryInv'
  BY <1>2 DEF EntryInv
<1>3. ASSUME NEW n, ReadRequest(n) PROVE EntryInv'
  BY <1>2, <1>3 DEF ReadRequest, ClosedInv
<1>4. ASSUME NEW n, CopyChunk(n) \/ CopyFails(n) PROVE EntryInv'
  BY <1>2, <1>4 DEF CopyChunk, CopyFails
<1>5. ASSUME NEW s, NEW length, Respond(s, length) PROVE EntryInv'
  BY <1>2, <1>5 DEF Respond
<1>6. CASE Informational \/ TransportFails \/ TransportPanics \/ SwitchProtocols
  BY <1>2, <1>6 DEF Informational, TransportFails, TransportPanics, SwitchProtocols, ErrorHandler
<1>7. CASE CopyDone \/ Recover \/ CloseRequestBody
  BY <1>2, <1>7 DEF CopyDone, Recover, CloseRequestBody
<1>8. CASE CaptureRequest
  <2>1. ASSUME NEW e \in entry PROVE EntryOf(e)'
    BY <1>8 DEF CaptureRequest, EntryInv, EntryOf, resVars
  <2> QED
    BY <1>8, <2>1 DEF CaptureRequest, EntryInv
<1>9. CASE Snapshot
  <2>1. CASE health
    BY <1>9, <2>1 DEF Snapshot, EntryInv
  <2>2. CASE ~health
    <3>1. phase = "finalize" /\ phase' = "emit" /\ UNCHANGED <<health, upgrade, reqVars, resVars>>
      BY <1>9, <2>2 DEF Snapshot
    <3>2. PICK e : entry' = {e} /\ EntryOf(e)
      BY <1>1, <1>9, <2>2, <3>1, SnapshotEntry DEF Snapshot
    <3>3. EntryOf(e)'
      BY <3>1, <3>2 DEF EntryOf, reqVars, resVars
    <3> QED
      BY <2>2, <3>1, <3>2, <3>3 DEF EntryInv
  <2> QED
    BY <1>1, <2>1, <2>2
<1>10. CASE Emit
  <2>1. phase = "emit" /\ phase' = "done" /\ UNCHANGED <<health, upgrade, reqVars, resVars>>
    BY <1>10 DEF Emit
  <2>2. PICK total \in Seen("total") :
           entry' = {[e EXCEPT !.reqBytes = total, !.raced = @ \/ Race, !.sent = TRUE] : e \in entry}
    BY <1>10 DEF Emit
  <2>3. CASE health
    BY <2>1, <2>2, <2>3 DEF EntryInv
  <2>4. CASE ~health
    <3>1. PICK e : entry = {e} /\ EntryOf(e)
      BY <2>1, <2>4 DEF EntryInv
    <3>2. PICK f : entry' = {f} /\ EntryOf(f) /\ f.sent
      <4>1. entry' = {[e EXCEPT !.reqBytes = total, !.raced = @ \/ Race, !.sent = TRUE]}
        BY <2>2, <3>1
      <4> QED
        BY <1>1, <3>1, <4>1, EmittedEntry
    <3>3. EntryOf(f)'
      BY <2>1, <3>2 DEF EntryOf, reqVars, resVars
    <3> QED
      BY <2>1, <2>4, <3>2, <3>3 DEF EntryInv
  <2> QED
    BY <1>1, <2>3, <2>4
<1>11. CASE UNCHANGED vars
  BY <1>11 DEF vars, reqVars, resVars, EntryInv, EntryOf
<1> QED
  BY <1>3, <1>4, <1>5, <1>6, <1>7, <1>8, <1>9, <1>10, <1>11 DEF Next, Done

----------------------------------------------------------------------------
(* The theorems. *)

LEMMA InitInv == Init => IndInv
<1> SUFFICES ASSUME Init PROVE IndInv
  OBVIOUS
<1>1. CapturesInv
  BY NewCaptureOK DEF Init, CapturesInv
<1>2. ExchangeTypes
  <2>1. health \in BOOLEAN /\ upgrade \in BOOLEAN /\ captured \in BOOLEAN /\ reqClosed \in BOOLEAN
    BY Zenon DEF Init
  <2>2. recorder \in [status : {0, 103, 500, 502} \cup Statuses, bytes : Nat]
    BY DEF Init
  <2>3. upstream \in [status : {0, 101} \cup Statuses, length : 0 .. MaxBody]
    BY ExchangeAssumption DEF Init
  <2>4. client \in [status : {0, 500, 502} \cup Statuses, bytes : 0 .. MaxBody, text : BOOLEAN]
    BY ExchangeAssumption DEF Init
  <2> QED
    BY <2>1, <2>2, <2>3, <2>4, ExchangeAssumption DEF Init, ExchangeTypes
<1>3. TransportInv /\ CopyInv /\ AnsweredInv
  BY DEF Init, TransportInv, CopyInv, AnsweredInv
<1>4. BytesInv
  BY DEF Init, BytesInv
<1>5. ClosedInv /\ EntryInv
  BY DEF Init, ClosedInv, EntryInv
<1> QED
  BY <1>1, <1>2, <1>3, <1>4, <1>5 DEF IndInv

LEMMA Inductive == Spec => []IndInv
<1>1. IndInv /\ [Next]_vars => IndInv'
  BY NextCaptures, NextResponse, NextClosed, NextEntry DEF IndInv, ResponseInv
<1> QED
  BY InitInv, <1>1, PTL DEF Spec

\* The captures are bounded and honest about what they lack, whatever chunks
\* arrive, and all other state keeps its type (captureBuffer.Write).
THEOREM Truncation == Spec => []TruncationIsMarked
<1>1. IndInv => TypeOK
  BY DEF IndInv, TypeOK, ExchangeTypes, CapturesInv, CaptureOK, EntryInv, EntryOf, Entry
<1>2. IndInv => TruncationIsMarked
  BY <1>1 DEF IndInv, TruncationIsMarked, CapturesInv, CaptureOK
<1> QED
  BY Inductive, <1>2, PTL

\* ServeHTTP logs each exchange once, in every order of answer, failure, panic
\* and late request chunks; health paths are never logged.
THEOREM OneEntry == Spec => []OneEntryPerExchange
<1>1. IndInv => OneEntryPerExchange
  BY DEF IndInv, OneEntryPerExchange, EntryInv, ExchangeTypes
<1> QED
  BY Inductive, <1>1, PTL

\* A logged status that is not the handler's own is what the client received,
\* with every byte of the body.
THEOREM SuccessComplete == Spec => []SuccessIsComplete
<1>1. IndInv => SuccessIsComplete
  <2> SUFFICES ASSUME IndInv, NEW e \in entry, e.status \notin {500, 502}
               PROVE  /\ e.status = upstream.status
                      /\ client = [status |-> e.status, bytes |-> upstream.length, text |-> FALSE]
                      /\ e.resBytes = upstream.length
    BY DEF SuccessIsComplete
  <2>1. EntryOf(e) /\ phase \in {"emit", "done"}
    BY DEF IndInv, EntryInv
  <2>2. /\ captured
        /\ upstream.status = e.status /\ client.status = e.status
        /\ ~client.text
        /\ client.bytes = upstream.length
        /\ resCapture.total = upstream.length
    BY <2>1 DEF IndInv, EntryOf, AnsweredInv
  <2>3. client.text = FALSE
    BY <2>2 DEF IndInv, ExchangeTypes
  <2>4. client = [status |-> client.status, bytes |-> client.bytes, text |-> client.text]
    BY DEF IndInv, ExchangeTypes
  <2> QED
    BY <2>1, <2>2, <2>3, <2>4 DEF EntryOf
<1> QED
  BY Inductive, <1>1, PTL

\* An emitted entry fits what the client got and is one picture of the request,
\* but for the race with the transport's read of the body.
THEOREM EntryConsistent == Spec => []EntryIsConsistent
<1>1. IndInv => EntryIsConsistent
  <2> SUFFICES ASSUME IndInv, NEW e \in entry, e.sent
               PROVE  /\ client.status # 0
                      /\ client.bytes =< e.resBytes
                      /\ e.raced \/ (e.truncated <=> e.reqBody < e.reqBytes)
    BY DEF EntryIsConsistent
  <2>1. EntryOf(e) /\ phase \in {"emit", "done"}
    BY DEF IndInv, EntryInv
  <2>2. client.status # 0
    BY <2>1 DEF IndInv, AnsweredInv
  <2>3. client.bytes =< e.resBytes
    <3>1. CASE captured
      BY <2>1, <3>1 DEF IndInv, EntryOf, BytesInv
    <3>2. CASE ~captured
      BY <2>1, <3>2, ExchangeAssumption DEF IndInv, ExchangeTypes, EntryOf, BytesInv
    <3> QED
      BY <3>1, <3>2
  <2>4. e.raced \/ (e.truncated <=> e.reqBody < e.reqBytes)
    BY <2>1 DEF IndInv, EntryOf, CapturesInv, CaptureOK
  <2> QED
    BY <2>2, <2>3, <2>4
<1> QED
  BY Inductive, <1>1, PTL
=============================================================================
