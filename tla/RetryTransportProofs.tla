------------------------ MODULE RetryTransportProofs ------------------------
(***************************************************************************)
(* Proofs about RetryTransport for every set of policies and requests that *)
(* TransportAssumption allows: any number of attempts, any body, any       *)
(* buffer limit.                                                           *)
(***************************************************************************)
EXTENDS RetryTransport, SequenceTheorems, TLAPS

Bytes == Seq(Nat)

LoopTypes ==
    /\ policy \in {normalize(p) : p \in Policies}
    /\ request \in Requests
    /\ phase \in {"start", "direct", "prepare", "ready", "try", "directTry", "wait", "returned"}
    /\ attempt \in 1 .. policy.MaxAttempts
    /\ replayable \in BOOLEAN
    /\ unread \in Bytes /\ saved \in Bytes /\ bodies \in Seq(Bytes)
    /\ result \in {"none", "error", "response"}
    /\ cancelled \in BOOLEAN

\* The body is not touched before prepareRetryableRequestBody or the only attempt;
\* the loop is repeated only with a replayable body and while attempts are left.
LoopInv ==
    /\ phase \in {"start", "prepare", "direct", "directTry"} => attempt = 1 /\ ~replayable
    /\ phase \in {"start", "prepare", "direct"} => saved = <<>> /\ unread = Body
    /\ attempt > 1 => replayable
    /\ phase = "wait" => replayable /\ attempt < policy.MaxAttempts

\* A buffered body is complete when it is replayable; otherwise what was read
\* ahead and what is left make up the body until the only attempt takes both.
BodyInv ==
    /\ request.body = "stream" /\ replayable => saved = Body
    /\ phase = "ready" /\ ~replayable => request.body = "stream" /\ saved \o unread = Body
    /\ unread = <<>> \/ saved \o unread = Body

\* The calls of the next transport follow the counter of the loop.
CountInv ==
    /\ phase \in {"start", "prepare", "direct", "ready"} => Len(bodies) = attempt - 1
    /\ phase \in {"try", "directTry", "wait"} => Len(bodies) = attempt
    /\ Len(bodies) \in {attempt - 1, attempt}

\* A request that must not be repeated stays out of the loop, or is not
\* replayable in it.
RepeatInv ==
    /\ request.connect \/ request.method \notin policy.Methods =>
           phase \notin {"prepare", "ready", "try", "wait"} /\ attempt = 1
    /\ request.body = "stream" /\ request.length > policy.BodyBufferBytes => ~replayable

\* Only the latest response is open, and only where somebody will close it.
OpenInv ==
    /\ phase \notin {"wait", "returned"} => open = {}
    /\ phase = "wait" => open = IF IsError(last) THEN {} ELSE {attempt}
    /\ phase = "returned" => open \subseteq {attempt} /\ (open # {} <=> result = "response")

\* An attempt begun after the cancellation is the last one.
LateInv ==
    /\ late \in {0, 1}
    /\ phase \notin {"try", "directTry", "returned"} => late = 0

IndInv ==
    /\ LoopTypes
    /\ LoopInv
    /\ BodyInv
    /\ WholeBodyEveryAttempt
    /\ CountInv
    /\ RepeatInv
    /\ OpenInv
    /\ LateInv

----------------------------------------------------------------------------
(* Facts about the constants. *)

\* normalize leaves at least one attempt and a buffer limit that is not negative.
LEMMA PolicyFacts ==
    ASSUME LoopTypes
    PROVE  policy.MaxAttempts \in Nat \ {0} /\ policy.BodyBufferBytes \in Nat
<1>1. PICK p \in Policies : policy = normalize(p)
  BY DEF LoopTypes
<1>2. p \in Policy
  BY TransportAssumption
<1>3. /\ policy.MaxAttempts = AtLeast(1, p.MaxAttempts)
      /\ policy.BodyBufferBytes = AtLeast(0, p.BodyBufferBytes)
  BY <1>1, <1>2 DEF normalize, Policy
<1>4. p.MaxAttempts \in Int /\ p.BodyBufferBytes \in Int
  BY <1>2 DEF Policy
<1> QED
  BY <1>3, <1>4 DEF AtLeast

\* The body of a request is a sequence of the announced length.
LEMMA BodyFacts ==
    ASSUME request \in Requests
    PROVE  /\ Body \in Bytes
           /\ request.length \in Nat /\ Len(Body) = request.length
           /\ request.body = "none" => Body = <<>>
           /\ request.body \in {"none", "getBody", "stream"}
<1>1. request.length \in Nat /\ request.body \in {"none", "getBody", "stream"}
  BY TransportAssumption DEF Request
<1>2. request.body = "none" => request.length = 0
  BY TransportAssumption
<1>3. Body \in Bytes /\ Len(Body) = request.length
  BY <1>1 DEF Body, Bytes
<1>4. request.length = 0 => Body = <<>>
  BY <1>3, EmptySeq DEF Bytes
<1> QED
  BY <1>1, <1>2, <1>3, <1>4

\* Reading some bytes ahead loses none.
LEMMA ReadAhead ==
    ASSUME NEW s \in Bytes, NEW k \in 0 .. Len(s)
    PROVE  /\ SubSeq(s, 1, k) \in Bytes /\ Len(SubSeq(s, 1, k)) = k
           /\ SubSeq(s, k + 1, Len(s)) \in Bytes
           /\ SubSeq(s, 1, k) \o SubSeq(s, k + 1, Len(s)) = s
           /\ k = Len(s) => SubSeq(s, 1, k) = s /\ SubSeq(s, k + 1, Len(s)) = <<>>
<1>1. Len(s) \in Nat /\ \A i \in 1 .. Len(s) : s[i] \in Nat
  BY LenProperties, ElementOfSeq DEF Bytes
<1>2. SubSeq(s, 1, k) \in Bytes /\ Len(SubSeq(s, 1, k)) = k
  BY <1>1, SubSeqProperties DEF Bytes
<1>3. SubSeq(s, k + 1, Len(s)) \in Bytes
  BY <1>1, SubSeqProperties DEF Bytes
<1>4. SubSeq(s, 1, k) \o SubSeq(s, k + 1, Len(s)) = SubSeq(s, 1, Len(s))
  <2>1. 1 \in 1 .. Len(s) + 1 /\ k \in 1 - 1 .. Len(s) /\ Len(s) \in k .. Len(s)
    BY <1>1
  <2> QED
    BY <2>1, ConcatAdjacentSubSeq DEF Bytes
<1>5. SubSeq(s, 1, Len(s)) = s
  BY SubSeqFull DEF Bytes
<1>6. SubSeq(s, Len(s) + 1, Len(s)) = <<>>
  <2>1. Len(s) + 1 \in Int /\ Len(s) \in Int /\ Len(s) < Len(s) + 1
    BY <1>1
  <2> QED
    BY <2>1, SubSeqEmpty
<1> QED
  BY <1>2, <1>3, <1>4, <1>5, <1>6

----------------------------------------------------------------------------
(* Every step keeps the invariant. *)

LEMMA InitInv == Init => IndInv
<1> SUFFICES ASSUME Init PROVE IndInv
  OBVIOUS
<1>1. Body \in Bytes
  BY BodyFacts DEF Init
<1>2. LoopTypes
  <2>1. policy \in {normalize(p) : p \in Policies} /\ request \in Requests
    BY DEF Init
  <2>2. 1 \in 1 .. policy.MaxAttempts
    <3>1. PICK p \in Policies : policy = normalize(p)
      BY <2>1
    <3>2. policy.MaxAttempts = AtLeast(1, p.MaxAttempts) /\ p.MaxAttempts \in Int
      BY <3>1, TransportAssumption DEF normalize, Policy
    <3> QED
      BY <3>2 DEF AtLeast
  <2>3. <<>> \in Bytes /\ <<>> \in Seq(Bytes)
    BY DEF Bytes
  <2> QED
    BY <1>1, <2>1, <2>2, <2>3 DEF Init, LoopTypes
<1>3. LoopInv /\ RepeatInv /\ OpenInv /\ LateInv
  BY DEF Init, LoopInv, RepeatInv, OpenInv, LateInv
<1>4. BodyInv
  BY <1>1, ConcatEmptySeq DEF Init, BodyInv, Bytes
<1>5. WholeBodyEveryAttempt /\ CountInv
  BY DEF Init, WholeBodyEveryAttempt, CountInv
<1> QED
  BY <1>2, <1>3, <1>4, <1>5 DEF IndInv

LEMMA StartInv == IndInv /\ Start => IndInv'
<1> SUFFICES ASSUME IndInv, Start PROVE IndInv'
  OBVIOUS
<1> USE DEF IndInv, Start
<1>1. LoopTypes'
  BY DEF LoopTypes
<1>2. LoopInv' /\ BodyInv'
  BY DEF LoopInv, BodyInv, Body
<1>3. WholeBodyEveryAttempt' /\ CountInv'
  BY DEF WholeBodyEveryAttempt, CountInv, Body
<1>4. RepeatInv'
  BY DEF RepeatInv, shouldRetryRequest
<1>5. OpenInv' /\ LateInv'
  BY DEF OpenInv, LateInv
<1> QED
  BY <1>1, <1>2, <1>3, <1>4, <1>5

\* prepareRetryableRequestBody.
LEMMA PrepareInv == IndInv /\ Prepare => IndInv'
<1> SUFFICES ASSUME IndInv, Prepare PROVE IndInv'
  OBVIOUS
<1> USE DEF IndInv
<1>1. /\ phase = "prepare" /\ phase' \in {"ready", "returned"}
      /\ UNCHANGED <<policy, request, attempt, bodies, last, open, cancelled, late>>
      /\ phase' = "returned" => result' = "error" /\ UNCHANGED replayable
      /\ phase' = "ready" => UNCHANGED result
  BY DEF Prepare, BufferBody, ReturnError
<1>2. /\ LoopTypes /\ attempt = 1 /\ ~replayable /\ saved = <<>> /\ unread = Body
      /\ Body \in Bytes /\ Len(Body) = request.length
      /\ policy.BodyBufferBytes \in Nat
  BY <1>1, BodyFacts, PolicyFacts DEF LoopTypes, LoopInv
<1>3. /\ saved' \in Bytes /\ unread' \in Bytes /\ saved' \o unread' = Body
      /\ replayable' \in BOOLEAN
      /\ replayable' /\ request.body = "stream" => saved' = Body
      /\ ~replayable' /\ phase' = "ready" => request.body = "stream"
      /\ request.body = "stream" /\ request.length > policy.BodyBufferBytes => ~replayable'
  <2>1. CASE UNCHANGED <<saved, unread>> /\ replayable' = (request.body # "stream")
    BY <1>2, <2>1, ConcatEmptySeq DEF LoopTypes, Bytes
  <2>2. CASE UNCHANGED <<saved, unread, replayable>> /\ phase' = "returned"
    BY <1>2, <2>2, ConcatEmptySeq DEF LoopTypes, Bytes
  <2>3. CASE request.body = "stream" /\ BufferBody /\ phase' = "ready"
    <3> DEFINE limit == policy.BodyBufferBytes
               k == IF limit + 1 < Len(unread) THEN limit + 1 ELSE Len(unread)
    <3>1. unread \in Bytes /\ Len(unread) \in Nat /\ limit \in Nat
      BY <1>2, LenProperties DEF Bytes
    <3>2. k \in 0 .. Len(unread) /\ (k =< limit => k = Len(unread))
      BY <3>1
    <3>3. Len(SubSeq(unread, 1, k)) = k
      BY <3>1, <3>2, ReadAhead
    <3> HIDE DEF limit, k
    <3>4. /\ saved' = SubSeq(unread, 1, k)
          /\ unread' = SubSeq(unread, k + 1, Len(unread))
          /\ replayable' = (k =< limit)
      BY <2>3, <3>3 DEF BufferBody, ReturnError, limit, k
    <3>5. saved' \in Bytes /\ unread' \in Bytes /\ saved' \o unread' = Body
      BY <1>2, <3>1, <3>2, <3>4, ReadAhead
    <3>6. replayable' => saved' = Body
      BY <1>2, <3>1, <3>2, <3>4, ReadAhead
    <3>7. request.length > limit => ~replayable'
      <4>1. request.length > limit => ~(k =< limit)
        BY <1>2, <3>1, <3>2
      <4> QED
        BY <3>4, <4>1, Zenon
    <3>8. replayable' \in BOOLEAN
      BY <3>4
    <3> QED
      BY <2>3, <3>5, <3>6, <3>7, <3>8, Zenon DEF limit
  <2> QED
    BY <1>1, <2>1, <2>2, <2>3 DEF Prepare, BufferBody, ReturnError
<1>4. LoopTypes'
  BY <1>1, <1>3 DEF LoopTypes
<1>5. LoopInv'
  BY <1>1, <1>2 DEF LoopInv
<1>6. BodyInv'
  BY <1>1, <1>3 DEF BodyInv, Body
<1>7. WholeBodyEveryAttempt' /\ CountInv'
  BY <1>1, <1>2 DEF WholeBodyEveryAttempt, CountInv, Body
<1>8. RepeatInv'
  BY <1>1, <1>2, <1>3 DEF RepeatInv
<1>9. OpenInv' /\ LateInv'
  BY <1>1 DEF OpenInv, LateInv
<1> QED
  BY <1>4, <1>5, <1>6, <1>7, <1>8, <1>9

\* A call of the next transport is offered the whole body.
LEMMA AttemptBodyWhole ==
    ASSUME IndInv, phase \in {"direct", "ready"}
    PROVE  AttemptBody = Body
<1>1. /\ request.body \in {"none", "getBody", "stream"}
      /\ request.body = "none" => Body = <<>>
      /\ Body \in Bytes
  BY BodyFacts DEF IndInv, LoopTypes
<1>2. ASSUME request.body = "stream"
      PROVE  (IF replayable THEN saved ELSE saved \o unread) = Body
  <2>1. CASE replayable
    BY <1>2, <2>1 DEF IndInv, BodyInv
  <2>2. CASE ~replayable /\ phase = "ready"
    BY <2>2 DEF IndInv, BodyInv
  <2>3. CASE phase = "direct"
    BY <1>1, <2>3, ConcatEmptySeq DEF IndInv, LoopInv, Bytes
  <2> QED
    BY <2>1, <2>2, <2>3
<1> QED
  BY <1>1, <1>2 DEF AttemptBody

LEMMA BeginAttemptInv == IndInv /\ BeginAttempt => IndInv'
<1> SUFFICES ASSUME IndInv, BeginAttempt PROVE IndInv'
  OBVIOUS
<1> USE DEF IndInv
<1>1. /\ phase \in {"direct", "ready"}
      /\ UNCHANGED <<policy, request, attempt, replayable, saved, last, open, cancelled>>
  BY DEF BeginAttempt
<1>2. attempt \in Nat /\ open = {} /\ late = 0 /\ Len(bodies) = attempt - 1
  BY <1>1 DEF LoopTypes, OpenInv, LateInv, CountInv
<1>3. CASE phase' = "returned" /\ result' = "error" /\ UNCHANGED <<unread, bodies, late>>
  <2>1. LoopTypes'
    BY <1>1, <1>3 DEF LoopTypes
  <2>2. LoopInv' /\ BodyInv'
    BY <1>1, <1>3 DEF LoopInv, BodyInv, Body
  <2>3. WholeBodyEveryAttempt' /\ CountInv'
    BY <1>1, <1>3 DEF WholeBodyEveryAttempt, CountInv, Body
  <2>4. RepeatInv'
    BY <1>1, <1>3 DEF RepeatInv
  <2>5. OpenInv' /\ LateInv'
    BY <1>1, <1>2, <1>3 DEF OpenInv, LateInv
  <2> QED
    BY <2>1, <2>2, <2>3, <2>4, <2>5
<1>4. CASE /\ phase' = IF phase = "direct" THEN "directTry" ELSE "try"
           /\ bodies' = Append(bodies, AttemptBody)
           /\ unread' = <<>>
           /\ late' = IF cancelled THEN late + 1 ELSE late
           /\ UNCHANGED result
  <2>1. bodies' = Append(bodies, Body) /\ Body \in Bytes /\ bodies \in Seq(Bytes)
    BY <1>1, <1>4, AttemptBodyWhole, BodyFacts DEF LoopTypes
  <2>2. /\ bodies' \in Seq(Bytes) /\ Len(bodies') = attempt
        /\ \A i \in DOMAIN bodies' : bodies'[i] = Body
    BY <1>2, <2>1, AppendProperties, LenProperties DEF WholeBodyEveryAttempt
  <2>3. LoopTypes'
    BY <1>1, <1>4, <2>2 DEF LoopTypes, Bytes
  <2>4. LoopInv' /\ BodyInv'
    BY <1>1, <1>4 DEF LoopInv, BodyInv, Body
  <2>5. WholeBodyEveryAttempt'
    BY <1>1, <2>2 DEF WholeBodyEveryAttempt, Body
  <2>6. CountInv'
    BY <1>1, <1>2, <1>4, <2>2 DEF CountInv
  <2>7. RepeatInv'
    BY <1>1, <1>4 DEF RepeatInv
  <2>8. OpenInv' /\ LateInv'
    BY <1>1, <1>2, <1>4 DEF OpenInv, LateInv
  <2> QED
    BY <2>3, <2>4, <2>5, <2>6, <2>7, <2>8
<1> QED
  BY <1>3, <1>4 DEF BeginAttempt, ReturnError

LEMMA EndAttemptInv == IndInv /\ EndAttempt => IndInv'
<1> SUFFICES ASSUME IndInv, EndAttempt PROVE IndInv'
  OBVIOUS
<1> USE DEF IndInv
<1>1. /\ phase \in {"directTry", "try"}
      /\ UNCHANGED <<policy, request, attempt, replayable, unread, saved, bodies, cancelled, late>>
  BY DEF EndAttempt
<1>2. PICK o \in Outcomes :
        /\ last' = o
        /\ open' = IF IsError(o) THEN open ELSE open \cup {attempt}
        /\ \/ /\ phase = "try" /\ MayRetry(o)
              /\ phase' = "wait"
              /\ UNCHANGED result
           \/ /\ phase = "directTry" \/ ~MayRetry(o)
              /\ phase' = "returned"
              /\ result' = IF IsError(o) THEN "error" ELSE "response"
  BY DEF EndAttempt
<1>3. phase' \in {"wait", "returned"} /\ open' = IF IsError(o) THEN {} ELSE {attempt}
  BY <1>1, <1>2 DEF OpenInv
<1>4. attempt \in 1 .. policy.MaxAttempts /\ policy.MaxAttempts \in Nat \ {0}
  BY PolicyFacts DEF LoopTypes
<1>5. phase' = "wait" => /\ phase = "try" /\ replayable /\ attempt # policy.MaxAttempts
                         /\ late = 0
  <2> SUFFICES ASSUME phase' = "wait" PROVE phase = "try" /\ MayRetry(o) /\ late = 0
    BY DEF MayRetry
  <2>1. phase = "try" /\ MayRetry(o)
    BY <1>2
  <2>2. late > 0 => o.kind = "context"
    BY DEF Outcomes
  <2>3. o.kind # "context"
    BY <2>1 DEF MayRetry, IsError, isRetryableTransportError
  <2> QED
    BY <2>1, <2>2, <2>3 DEF LateInv
<1>6. LoopTypes'
  BY <1>1, <1>2 DEF LoopTypes
<1>7. LoopInv'
  BY <1>1, <1>3, <1>4, <1>5 DEF LoopInv
<1>8. BodyInv'
  BY <1>1, <1>3 DEF BodyInv, Body
<1>9. WholeBodyEveryAttempt' /\ CountInv'
  BY <1>1, <1>3 DEF WholeBodyEveryAttempt, CountInv, Body
<1>10. RepeatInv'
  BY <1>1, <1>3, <1>5 DEF RepeatInv
<1>11. OpenInv'
  BY <1>1, <1>2, <1>3 DEF OpenInv, IsError
<1>12. LateInv'
  BY <1>1, <1>3, <1>5 DEF LateInv
<1> QED
  BY <1>6, <1>7, <1>8, <1>9, <1>10, <1>11, <1>12

\* waitForRetry.
LEMMA WaitInv == IndInv /\ (WaitEnds \/ WaitCancelled) => IndInv'
<1> SUFFICES ASSUME IndInv, WaitEnds \/ WaitCancelled PROVE IndInv'
  OBVIOUS
<1> USE DEF IndInv
<1>1. CASE WaitEnds
  <2>1. /\ replayable /\ attempt < policy.MaxAttempts
        /\ attempt \in Nat /\ policy.MaxAttempts \in Nat
    BY <1>1, PolicyFacts DEF WaitEnds, LoopInv, LoopTypes
  <2>2. /\ phase = "wait" /\ phase' = "ready" /\ attempt' = attempt + 1 /\ open' = open \ {attempt}
        /\ UNCHANGED <<policy, request, replayable, unread, saved, bodies, last, result, cancelled, late>>
    BY <1>1, <2>1 DEF WaitEnds, closeResponseBody
  <2>3. LoopTypes' /\ LoopInv'
    BY <2>1, <2>2 DEF LoopTypes, LoopInv
  <2>4. BodyInv'
    BY <2>1, <2>2 DEF BodyInv, Body
  <2>5. WholeBodyEveryAttempt' /\ CountInv'
    BY <2>1, <2>2 DEF WholeBodyEveryAttempt, CountInv, Body
  <2>6. RepeatInv'
    BY <2>2 DEF RepeatInv
  <2>7. OpenInv' /\ LateInv'
    BY <2>2 DEF OpenInv, LateInv
  <2> QED
    BY <2>3, <2>4, <2>5, <2>6, <2>7
<1>2. CASE WaitCancelled
  <2> USE <1>2 DEF WaitCancelled
  <2>1. LoopTypes' /\ LoopInv'
    BY DEF LoopTypes, LoopInv
  <2>2. BodyInv' /\ WholeBodyEveryAttempt' /\ CountInv'
    BY DEF BodyInv, WholeBodyEveryAttempt, CountInv, Body
  <2>3. RepeatInv' /\ OpenInv' /\ LateInv'
    BY DEF RepeatInv, OpenInv, LateInv
  <2> QED
    BY <2>1, <2>2, <2>3
<1> QED
  BY <1>1, <1>2

LEMMA CancelInv == IndInv /\ (Cancel \/ UNCHANGED vars) => IndInv'
<1> SUFFICES ASSUME IndInv, Cancel \/ UNCHANGED vars PROVE IndInv'
  OBVIOUS
<1>0. /\ cancelled' \in BOOLEAN
      /\ UNCHANGED <<policy, request, phase, attempt, replayable, unread, saved, bodies, last,
                     open, result, late>>
  <2>1. CASE Cancel
    BY <2>1 DEF Cancel
  <2>2. CASE UNCHANGED vars
    BY <2>2 DEF vars, IndInv, LoopTypes
  <2> QED
    BY <2>1, <2>2
<1> USE <1>0 DEF IndInv
<1>1. LoopTypes' /\ LoopInv'
  BY DEF LoopTypes, LoopInv, Body
<1>2. BodyInv' /\ WholeBodyEveryAttempt' /\ CountInv'
  BY DEF BodyInv, WholeBodyEveryAttempt, CountInv, Body
<1>3. RepeatInv' /\ LateInv'
  BY DEF RepeatInv, LateInv
<1>4. OpenInv'
  BY DEF OpenInv, IsError
<1> QED
  BY <1>1, <1>2, <1>3, <1>4

LEMMA Inductive == Spec => []IndInv
<1>1. IndInv /\ [Next]_vars => IndInv'
  BY StartInv, PrepareInv, BeginAttemptInv, EndAttemptInv, WaitInv, CancelInv DEF Next, Step, Returned
<1> QED
  BY InitInv, <1>1, PTL DEF Spec

----------------------------------------------------------------------------
(* The theorems. *)

\* Whatever was buffered, replayed or read by an earlier attempt, the backend
\* is offered the client's whole body (prepareRetryableRequestBody).
THEOREM WholeBody == Spec => []WholeBodyEveryAttempt
BY Inductive, PTL DEF IndInv

\* Upgrades, other methods and bodies beyond the buffer reach the backend at
\* most once, under every policy.
THEOREM NoRepetition == Spec => []NeverRepeated
<1>1. IndInv => attempt \in Nat \ {0} /\ (attempt = 1 => Len(bodies) =< 1)
  BY PolicyFacts, LenProperties DEF IndInv, LoopTypes, CountInv
<1>2. IndInv => NeverRepeated
  <2> SUFFICES ASSUME IndInv,
                      \/ request.connect
                      \/ request.method \notin policy.Methods
                      \/ request.body = "stream" /\ request.length > policy.BodyBufferBytes
               PROVE  attempt = 1
    BY <1>1 DEF NeverRepeated
  <2>1. replayable => attempt = 1
    BY DEF IndInv, RepeatInv
  <2>2. ~replayable => attempt = 1
    BY <1>1 DEF IndInv, LoopInv
  <2> QED
    BY <2>1, <2>2
<1> QED
  BY Inductive, <1>2, PTL

\* RoundTrip leaves no response body open but the one it returns.
THEOREM NoResponseLeak == Spec => []ResponsesReleased
<1>1. IndInv => ResponsesReleased
  BY DEF IndInv, OpenInv, ResponsesReleased
<1> QED
  BY Inductive, <1>1, PTL

\* The loop ends within MaxAttempts, the panic behind it is unreachable, and a
\* client that is gone costs at most one more call.
THEOREM Bounded == Spec => []AttemptsBounded
<1>1. IndInv => AttemptsBounded
  <2> SUFFICES ASSUME IndInv PROVE TypeOK /\ late =< 1
    BY DEF AttemptsBounded
  <2>1. saved \o unread \in {Body, saved}
    BY ConcatEmptySeq DEF IndInv, BodyInv, LoopTypes, Bytes
  <2>2. attempt \in 1 .. policy.MaxAttempts /\ open \subseteq 1 .. attempt
    BY PolicyFacts DEF IndInv, LoopTypes, OpenInv
  <2>3. late \in Nat /\ late =< 1
    BY DEF IndInv, LateInv
  <2> QED
    BY <2>1, <2>2, <2>3 DEF IndInv, LoopTypes, CountInv, TypeOK
<1> QED
  BY Inductive, <1>1, PTL
=============================================================================
