--------------------------- MODULE RetryTransport ---------------------------
(***************************************************************************)
(* retryTransport.RoundTrip (internal/proxy/retry.go) for one request: the *)
(* buffering that makes a body replayable, the attempts against the next   *)
(* transport, the waits between them, and the cancellation of the request  *)
(* context at any moment.  Requests share nothing but the policy, which    *)
(* never changes, so one request at a time is the whole behaviour.         *)
(*                                                                         *)
(* A body is the sequence of its byte positions.  Time is abstracted: a    *)
(* positive delay ends when its timer fires, at any moment.                *)
(***************************************************************************)
EXTENDS Integers, Sequences, FiniteSets

CONSTANTS
    Policies,  \* retry policies as configured, before normalize
    Requests   \* requests, see Request

\* method and connect (CONNECT or an upgrade) decide whether a request is
\* retried at all.  body is "none", "getBody" (the request can produce its
\* body again) or "stream"; length is its real and declared its announced
\* length, -1 for a chunked body.  ReverseProxy leaves out a body of length 0.
Request == [method : STRING, connect : BOOLEAN, body : {"none", "getBody", "stream"},
            length : Nat, declared : Int]

Policy == [MaxAttempts : Int, InitialBackoff : Int, MaxBackoff : Int, Methods : SUBSET STRING,
           StatusCodes : SUBSET Int, RetryOnTransportErrors : BOOLEAN, BodyBufferBytes : Int]

ASSUME TransportAssumption ==
    /\ \A p \in Policies : p \in Policy
    /\ \A r \in Requests :
        /\ r \in Request
        /\ r.declared \in {-1, r.length}
        /\ r.body = "none" => r.length = 0
        /\ r.body = "stream" => r.declared # 0

VARIABLES
    policy,     \* the normalized policy
    request,
    phase,      \* "start", "prepare", "ready", "try", "wait", "returned", "panic", and for
                \* requests outside the loop "direct", "directTry"
    attempt,
    replayable,
    unread,     \* what is left of the original body stream
    saved,      \* what prepareRetryableRequestBody read from it
    bodies,     \* bodies[i]: the body that the i-th call of next.RoundTrip offers
    last,       \* the outcome of the latest call: a response, a transport or a context error
    open,       \* the attempts whose response body is not closed
    result,     \* what RoundTrip returned: "none", "error" or "response"
    cancelled,  \* the request context is done
    late        \* the attempts begun after that

vars == <<policy, request, phase, attempt, replayable, unread, saved, bodies, last, open,
          result, cancelled, late>>

----------------------------------------------------------------------------
(* The policy. *)

AtLeast(low, n) == IF n < low THEN low ELSE n

\* The methods and status codes are kept as sets: their order and repetitions
\* never matter, and the methods are given trimmed and in upper case.
normalizeMethods(methods) == methods \ {""}
normalizeStatusCodes(codes) == {s \in codes : 100 =< s /\ s =< 599}

\* (The multiplier is applied by retryBackoff,
\* of which only the sign of the delay matters here.)
normalize(p) ==
    [p EXCEPT !.MaxAttempts = AtLeast(1, @),
              !.InitialBackoff = AtLeast(0, @),
              !.MaxBackoff = AtLeast(AtLeast(0, p.InitialBackoff), @),
              !.BodyBufferBytes = AtLeast(0, @),
              !.Methods = normalizeMethods(@),
              !.StatusCodes = normalizeStatusCodes(@)]

enabled(p) ==
    /\ p.MaxAttempts > 1
    /\ p.Methods # {}
    /\ p.StatusCodes # {} \/ p.RetryOnTransportErrors

\* Mutant of shouldRetryRequest: upgrades are repeated.
RetriesUpgrades == request.method \in policy.Methods

shouldRetryRequest == ~request.connect /\ request.method \in policy.Methods

\* Mutant of isRetryableTransportError: context errors are retried.
RetriesEveryError(e) == TRUE

isRetryableTransportError(e) == e.kind # "context"

\* retryBackoff is positive from the first retry on, or always zero.
HasDelay == policy.InitialBackoff > 0

----------------------------------------------------------------------------

Body == [i \in 1 .. request.length |-> i]

Init ==
    /\ policy \in {normalize(p) : p \in Policies}
    /\ request \in Requests
    /\ phase = "start"
    /\ attempt = 1
    /\ replayable = FALSE
    /\ unread = Body
    /\ saved = <<>>
    /\ bodies = <<>>
    /\ last = [kind |-> "none"]
    /\ open = {}
    /\ result = "none"
    /\ cancelled = FALSE
    /\ late = 0

\* newRetryTransport leaves the plain transport in place when the policy allows
\* no retry, and RoundTrip bypasses the loop for requests it must not repeat.
Start ==
    /\ phase = "start"
    /\ phase' = IF enabled(policy) /\ shouldRetryRequest THEN "prepare" ELSE "direct"
    /\ UNCHANGED <<policy, request, attempt, replayable, unread, saved, bodies, last, open,
                   result, cancelled, late>>

ReturnError ==
    /\ phase' = "returned"
    /\ result' = "error"

\* prepareRetryableRequestBody.  Reading the client's body may fail.
BufferBody ==
    LET limit   == policy.BodyBufferBytes
        payload == SubSeq(unread, 1, IF limit + 1 < Len(unread) THEN limit + 1 ELSE Len(unread))
    IN  \/ ReturnError /\ UNCHANGED <<replayable, saved, unread>>
        \/ /\ saved' = payload
           /\ unread' = SubSeq(unread, Len(payload) + 1, Len(unread))
           /\ replayable' = (Len(payload) =< limit)
           /\ phase' = "ready"
           /\ UNCHANGED result

TooLong == policy.BodyBufferBytes =< 0 \/ request.declared > policy.BodyBufferBytes

Prepare ==
    /\ phase = "prepare"
    /\ \/ /\ request.body # "stream" \/ TooLong
          /\ replayable' = (request.body # "stream")
          /\ phase' = "ready"
          /\ UNCHANGED <<saved, unread, result>>
       \/ request.body = "stream" /\ ~TooLong /\ BufferBody
    /\ UNCHANGED <<policy, request, attempt, bodies, last, open, cancelled, late>>

\* Mutant of AttemptBody: what was read ahead is not put in front again.
UnreadBody ==
    CASE request.body = "none"    -> <<>>
      [] request.body = "getBody" -> Body
      [] request.body = "stream"  -> IF replayable THEN saved ELSE unread

\* The body that an attempt offers.  A replayable request carries the saved
\* bytes, or gets its body anew; otherwise the saved bytes are put in front of
\* what is left of the stream.
AttemptBody ==
    CASE request.body = "none"    -> <<>>
      [] request.body = "getBody" -> Body
      [] request.body = "stream"  -> IF replayable THEN saved ELSE saved \o unread

\* next.RoundTrip is called with the request, or with a clone of it; the clone
\* fails when the request cannot produce its body again.
BeginAttempt ==
    /\ phase \in {"direct", "ready"}
    /\ \/ /\ attempt > 1 /\ request.body = "getBody"
          /\ ReturnError
          /\ UNCHANGED <<unread, bodies, late>>
       \/ /\ phase' = IF phase = "direct" THEN "directTry" ELSE "try"
          /\ bodies' = Append(bodies, AttemptBody)
          /\ unread' = <<>>
          /\ late' = IF cancelled THEN late + 1 ELSE late
          /\ UNCHANGED result
    /\ UNCHANGED <<policy, request, attempt, replayable, saved, last, open, cancelled>>

\* What the next transport may answer.  It gives a context error at once when
\* the context was done before the call.
Outcomes ==
    LET failure == [kind : {"transport", "context"}]
        answer  == [kind : {"response"}, status : policy.StatusCodes \cup {200}]
    IN  IF late > 0 THEN {[kind |-> "context"]} ELSE failure \cup answer

IsError(o) == o.kind # "response"

shouldRetryStatus(s) == s \in policy.StatusCodes

\* Mutant of MayRetry: no limit of attempts.
AlwaysRetries(o) ==
    /\ replayable
    /\ IF IsError(o) THEN policy.RetryOnTransportErrors /\ isRetryableTransportError(o)
                     ELSE shouldRetryStatus(o.status)

MayRetry(o) ==
    /\ replayable
    /\ attempt # policy.MaxAttempts
    /\ IF IsError(o) THEN policy.RetryOnTransportErrors /\ isRetryableTransportError(o)
                     ELSE shouldRetryStatus(o.status)

EndAttempt ==
    /\ phase \in {"directTry", "try"}
    /\ \E o \in Outcomes :
        /\ last' = o
        /\ open' = IF IsError(o) THEN open ELSE open \cup {attempt}
        /\ \/ /\ phase = "try" /\ MayRetry(o)
              /\ phase' = "wait"
              /\ UNCHANGED result
           \/ /\ phase = "directTry" \/ ~MayRetry(o)
              /\ phase' = "returned"
              /\ result' = IF IsError(o) THEN "error" ELSE "response"
    /\ UNCHANGED <<policy, request, attempt, replayable, unread, saved, bodies, cancelled, late>>

\* Mutant of closeResponseBody: the response of the attempt is not released.
LeaksResponseBody(i) == open

closeResponseBody(i) == open \ {i}

\* waitForRetry returns nil: without a delay only if the context is alive, with
\* a delay whenever the timer may win the select.
WaitEnds ==
    /\ phase = "wait"
    /\ HasDelay \/ ~cancelled
    /\ open' = closeResponseBody(attempt)
    /\ attempt' = attempt + 1
    /\ phase' = IF attempt' =< policy.MaxAttempts THEN "ready" ELSE "panic"
    /\ UNCHANGED <<policy, request, replayable, unread, saved, bodies, last, result, cancelled, late>>

\* Mutant of WaitCancelled: the wait goes on.
WaitsOn == phase = "wait" /\ cancelled /\ UNCHANGED vars

\* waitForRetry returns the context's error: a response in hand is returned.
WaitCancelled ==
    /\ phase = "wait"
    /\ cancelled
    /\ phase' = "returned"
    /\ result' = IF IsError(last) THEN "error" ELSE "response"
    /\ UNCHANGED <<policy, request, attempt, replayable, unread, saved, bodies, last, open,
                   cancelled, late>>

\* The client goes away, or the server is closed.
Cancel ==
    /\ ~cancelled
    /\ phase # "returned"
    /\ cancelled' = TRUE
    /\ UNCHANGED <<policy, request, phase, attempt, replayable, unread, saved, bodies, last,
                   open, result, late>>

Returned == phase = "returned" /\ UNCHANGED vars

Step == Start \/ Prepare \/ BeginAttempt \/ EndAttempt \/ WaitEnds \/ WaitCancelled

Next == Step \/ Cancel \/ Returned

Spec == Init /\ [][Next]_vars

\* After a cancellation every blocking call of RoundTrip returns: reading the
\* client's body fails, the next transport watches the context, and so does
\* the wait.
FairSpec == Spec /\ WF_vars(Step /\ cancelled)

----------------------------------------------------------------------------
(* Properties. *)

\* The type invariant.
TypeOK ==
    /\ policy \in {normalize(p) : p \in Policies}
    /\ request \in Requests
    /\ phase \in {"start", "direct", "prepare", "ready", "try", "directTry", "wait", "returned"}
    /\ attempt \in 1 .. policy.MaxAttempts
    /\ replayable \in BOOLEAN
    /\ saved \o unread \in {Body, saved}
    /\ Len(bodies) \in {attempt - 1, attempt}
    /\ open \subseteq 1 .. attempt
    /\ result \in {"none", "error", "response"}
    /\ cancelled \in BOOLEAN
    /\ late \in Nat

\* Every call of the next transport is offered the client's whole body from its
\* first byte, whatever was buffered or read by an earlier attempt.
WholeBodyEveryAttempt == \A i \in DOMAIN bodies : bodies[i] = Body

\* "upgrade and CONNECT requests are never retried", nor are other methods than
\* the configured ones, nor bodies beyond BACKEND_RETRY_BODY_BUFFER_BYTES: such
\* a request reaches the backend at most once.
NeverRepeated ==
    \/ request.connect
    \/ request.method \notin policy.Methods
    \/ request.body = "stream" /\ request.length > policy.BodyBufferBytes
    => Len(bodies) =< 1

\* No response leaks and none is returned closed: at most one response body is
\* open, the latest one, and at the end exactly when RoundTrip returns it.
ResponsesReleased ==
    /\ open \subseteq {attempt}
    /\ phase = "returned" => (open # {} <=> result = "response")

\* The attempts are bounded: by MaxAttempts while the client waits, hence the panic
\* behind the loop is unreachable, and once the client is gone at most one
\* further call reaches the transport.
AttemptsBounded == TypeOK /\ late =< 1

\* A request whose context is done does not stay in the retry loop.
CancelledReturns == cancelled ~> (phase = "returned")
=============================================================================
