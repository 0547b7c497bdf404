--------------------------- MODULE LogSinkProofs ---------------------------
(***************************************************************************)
(* Proofs about LogSink for every number of calls, closers and messages    *)
(* and every limit that SinkAssumption allows.                             *)
(***************************************************************************)
EXTENDS LogSink, SequenceTheorems, WellFoundedInduction, TLAPS

(***************************************************************************)
(* The inductive invariant.  Each named part is what the next one needs.   *)
(***************************************************************************)

\* Where a call is inside its list of messages, and what enqueueMessage has
\* already checked when it is about to send.
CallInv ==
    \A c \in Call :
        /\ pc[c] # "returned" => next[c] =< Messages[c]
        /\ pc[c] = "send" => ~Oversized(<<c, next[c]>>)

\* An accepted event has passed the size check and lies behind the position of
\* its call, so that no event is accepted twice.
AcceptedInv ==
    /\ \A i \in DOMAIN accepted :
        /\ ~Oversized(accepted[i])
        /\ accepted[i][2] < next[accepted[i][1]]
    /\ IsInjective(accepted)

\* held and resume are in use only during a flush, of a batch that is not empty.
FlushInv ==
    /\ worker # "put" => held = <<>> /\ resume = "select"
    /\ worker = "put" => batch # <<>>
    /\ worker = "put" /\ resume = "done" => held = <<>>

\* An empty batch has no bytes.
BytesInv == batch = <<>> => batchBytes = 0

\* The log stream holds settled events only, in the order of acceptance.
StoredInv ==
    /\ Range(stored) \subseteq Range(settled)
    /\ \A i, j \in DOMAIN stored : i < j => Precedes(accepted, stored[i], stored[j])

\* One closer at a time is between closed.Store and close(stop), and only
\* after that does the worker drain.
StopInv ==
    /\ \A k \in Closer : closer[k] = "once" => closed /\ ~stop
    /\ \A k, l \in Closer : closer[k] = "once" /\ closer[l] = "once" => k = l
    /\ stop => closed
    /\ worker \in {"drain", "done"} \/ resume \in {"drain", "done"} => stop

\* What was accepted before the stop is settled when the worker is done, and
\* settled or in the last batch when it makes its last flush.
MarkInv ==
    /\ worker = "done" => Len(settled) >= mark
    /\ worker = "put" /\ resume = "done" => Len(settled) + Len(batch) >= mark
    /\ mark =< Len(accepted)
    /\ \A k \in Closer : closer[k] = "nil" => worker = "done"

IndInv ==
    /\ TypeOK
    /\ NothingLostOrReordered
    /\ CallInv
    /\ AcceptedInv
    /\ FlushInv
    /\ BytesInv
    /\ BatchWithinLimits
    /\ StoredInv
    /\ StoredOrReported
    /\ StopInv
    /\ MarkInv

----------------------------------------------------------------------------
(* Facts about events and sequences. *)

\* <<c, i>> is an event when i numbers one of the messages of call c.
LEMMA EventIntro ==
    ASSUME NEW c \in Call, NEW i \in 1 .. Messages[c]
    PROVE  <<c, i>> \in Event
BY DEF Event

\* Every event is the i-th message of some call.
LEMMA EventElim ==
    ASSUME NEW e \in Event
    PROVE  /\ e = <<e[1], e[2]>>
           /\ e[1] \in Call
           /\ e[2] \in 1 .. Messages[e[1]]
BY DEF Event

\* The bytes appendEvent counts for an event are a natural number, and fit into
\* an empty batch when enqueueMessage let the event through.
LEMMA WeightFits ==
    ASSUME NEW e \in Event
    PROVE  /\ Weight(e) \in Nat
           /\ ~Oversized(e) => Weight(e) =< MaxBatchBytes
BY SinkAssumption DEF Weight, Oversized

\* held is a sequence.
LEMMA HeldSeq == WorkerTypes => held \in Seq(Event)
<1> SUFFICES ASSUME WorkerTypes PROVE held \in Seq(Event)
  OBVIOUS
<1>1. CASE held = <<>>
  BY <1>1, EmptySeq
<1>2. ASSUME NEW e \in Event, held = <<e>> PROVE held \in Seq(Event)
  BY <1>2
<1> QED
  BY <1>1, <1>2 DEF WorkerTypes

\* Associativity, applied to what stands ahead of a sequence that grows by u.
LEMMA AssocAhead ==
    ASSUME NEW S, NEW s \in Seq(S), NEW t \in Seq(S), NEW u \in Seq(S),
           NEW all, all = (s \o t) \o u,
           NEW last, last = t \o u
    PROVE  all = s \o last
BY ConcatAssociative

\* Moving the head of the second sequence to the end of the first.
LEMMA MoveHead ==
    ASSUME NEW S, NEW s \in Seq(S), NEW t \in Seq(S), t # <<>>
    PROVE  s \o t = (s \o <<Head(t)>>) \o Tail(t)
<1>1. Head(t) \in S /\ Tail(t) \in Seq(S) /\ <<Head(t)>> \in Seq(S)
  BY HeadTailProperties
<1>2. t = <<Head(t)>> \o Tail(t)
  <2>1. <<Head(t)>> \o Tail(t) \in Seq(S)
    BY <1>1, ConcatProperties
  <2>2. Len(<<Head(t)>> \o Tail(t)) = Len(t)
    BY <1>1, ConcatProperties, HeadTailProperties, LenProperties
  <2>3. \A i \in 1 .. Len(t) : (<<Head(t)>> \o Tail(t))[i] = t[i]
    BY <1>1, ConcatProperties, HeadTailProperties, LenProperties
  <2> QED
    BY <2>1, <2>2, <2>3, SeqEqual
<1> QED
  BY <1>1, <1>2, ConcatAssociative

----------------------------------------------------------------------------
(* Types. *)

\* Init has the types.
LEMMA InitTypes == Init => TypeOK /\ CallInv
<1> SUFFICES ASSUME Init PROVE TypeOK /\ CallInv
  OBVIOUS
<1> USE SinkAssumption DEF Init
<1>1. CallTypes
  <2>1. failed \in [Call -> BOOLEAN] /\ runCancelled \in BOOLEAN
    BY Zenon
  <2> QED
    BY <2>1 DEF CallTypes
<1>2. QueueTypes
  BY DEF QueueTypes
<1>3. CloseTypes
  BY DEF CloseTypes
<1>4. WorkerTypes
  BY DEF WorkerTypes
<1>5. CallInv
  BY DEF CallInv
<1> QED
  BY <1>1, <1>2, <1>3, <1>4, <1>5 DEF TypeOK

\* Advance, whatever the outcome, keeps the call within its messages.
LEMMA AdvanceTypes ==
    ASSUME CallTypes, CallInv,
           NEW c \in Call, NEW err \in BOOLEAN, Advance(c, err), pc[c] # "returned",
           dropped' \subseteq Event, runCancelled' = runCancelled
    PROVE  CallTypes' /\ CallInv'
<1>1. pc' \in [Call -> {"idle", "check", "send", "returned"}]
  BY DEF Advance, CallTypes
<1>2. next' \in [Call -> Nat \ {0}]
  BY DEF Advance, CallTypes
<1>3. failed' \in [Call -> BOOLEAN]
  <2>1. (failed[c] \/ err) \in BOOLEAN
    OBVIOUS
  <2> QED
    BY <2>1 DEF Advance, CallTypes
<1>4. CallInv'
  <2> SUFFICES ASSUME NEW d \in Call
               PROVE  /\ pc'[d] # "returned" => next'[d] =< Messages[d]
                      /\ pc'[d] = "send" => ~Oversized(<<d, next'[d]>>)
    BY DEF CallInv, Oversized
  <2>1. CASE d = c
    <3>1. next'[c] = next[c] + 1
          /\ pc'[c] = IF next[c] = Messages[c] THEN "returned" ELSE "check"
      BY DEF Advance, CallTypes
    <3>2. next[c] =< Messages[c] /\ next[c] \in Nat /\ Messages[c] \in Nat
      BY SinkAssumption DEF CallInv, CallTypes
    <3> QED
      BY <2>1, <3>1, <3>2
  <2>2. CASE d # c
    BY <2>2 DEF Advance, CallTypes, CallInv
  <2> QED
    BY <2>1, <2>2
<1> QED
  BY <1>1, <1>2, <1>3, <1>4 DEF CallTypes

\* Every step keeps the types, given where calls are in their messages.
LEMMA NextTypes == TypeOK /\ CallInv /\ [Next]_vars => TypeOK' /\ CallInv'
<1> SUFFICES ASSUME TypeOK, CallInv, [Next]_vars
             PROVE  TypeOK' /\ CallInv'
  OBVIOUS
<1> USE SinkAssumption
<1>a. /\ UNCHANGED callVars => CallTypes' /\ CallInv'
      /\ UNCHANGED closeVars => CloseTypes'
      /\ UNCHANGED workerVars => WorkerTypes'
      /\ UNCHANGED <<queue, accepted>> => QueueTypes'
  <2>1. UNCHANGED callVars => CallTypes' /\ CallInv'
    BY DEF TypeOK, callVars, CallTypes, CallInv, Oversized
  <2>2. UNCHANGED closeVars => CloseTypes'
    BY DEF TypeOK, closeVars, CloseTypes
  <2>3. UNCHANGED workerVars => WorkerTypes'
    BY DEF TypeOK, workerVars, WorkerTypes
  <2>4. UNCHANGED <<queue, accepted>> => QueueTypes'
    BY DEF TypeOK, QueueTypes
  <2> QED
    BY <2>1, <2>2, <2>3, <2>4
<1>1. ASSUME NEW c \in Call, Begin(c)
      PROVE  TypeOK' /\ CallInv'
  <2>1. Refused(c) \in BOOLEAN
    BY DEF Refused
  <2>2. CallTypes'
    BY <1>1, <2>1 DEF Begin, TypeOK, CallTypes
  <2>3. CallInv'
    BY <1>1 DEF Begin, TypeOK, CallTypes, CallInv, Oversized
  <2> QED
    BY <1>a, <1>1, <2>2, <2>3 DEF Begin, TypeOK
<1>2. ASSUME NEW c \in Call, Check(c)
      PROVE  TypeOK' /\ CallInv'
  <2>1. <<c, next[c]>> \in Event
    BY <1>2, EventIntro DEF Check, CallInv, TypeOK, CallTypes
  <2>2. CASE Advance(c, TRUE)
    <3>1. dropped' \subseteq Event
      BY <1>2, <2>1 DEF Check, TypeOK, CallTypes
    <3>2. CallTypes' /\ CallInv'
      BY <1>2, <2>2, <3>1, AdvanceTypes DEF Check, TypeOK
    <3> QED
      BY <1>a, <1>2, <3>2 DEF Check, TypeOK
  <2>3. CASE /\ ~Oversized(<<c, next[c]>>)
             /\ pc' = [pc EXCEPT ![c] = "send"]
             /\ UNCHANGED <<next, failed, dropped>>
    <3>1. CallTypes'
      BY <1>2, <2>3 DEF Check, TypeOK, CallTypes
    <3>2. CallInv'
      BY <1>2, <2>3 DEF Check, TypeOK, CallTypes, CallInv, Oversized
    <3> QED
      BY <1>a, <1>2, <3>1, <3>2 DEF Check, TypeOK
  <2> QED
    BY <1>2, <2>2, <2>3 DEF Check
<1>3. ASSUME NEW c \in Call, Send(c)
      PROVE  TypeOK' /\ CallInv'
  <2>1. <<c, next[c]>> \in Event
    BY <1>3, EventIntro DEF Send, CallInv, TypeOK, CallTypes
  <2>2. PICK err \in BOOLEAN : Advance(c, err)
    BY <1>3 DEF Send
  <2>3. dropped' \subseteq Event
    BY <1>3, <2>1 DEF Send, TypeOK, CallTypes
  <2>4. CallTypes' /\ CallInv'
    BY <1>3, <2>2, <2>3, AdvanceTypes DEF Send, TypeOK
  <2>5. QueueTypes'
    <3>1. CASE QueueHasRoom /\ queue' = Append(queue, <<c, next[c]>>)
               /\ accepted' = Append(accepted, <<c, next[c]>>)
      BY <2>1, <3>1, AppendProperties DEF TypeOK, QueueTypes, QueueHasRoom
    <3>2. CASE UNCHANGED <<queue, accepted>>
      BY <3>2 DEF TypeOK, QueueTypes
    <3> QED
      BY <1>3, <3>1, <3>2 DEF Send
  <2> QED
    BY <1>a, <1>3, <2>4, <2>5 DEF Send, TypeOK
<1>4. ASSUME NEW k \in Closer,
             CloseStore(k) \/ CloseStop(k) \/ CloseAgain(k) \/ CloseReturn(k)
      PROVE  TypeOK' /\ CallInv'
  <2>1. CloseTypes'
    <3>1. closed' \in BOOLEAN /\ stop' \in BOOLEAN
      BY <1>4 DEF CloseStore, CloseStop, CloseAgain, CloseReturn, TypeOK, CloseTypes
    <3>2. closer' \in [Closer -> {"idle", "once", "waiting", "nil", "deadline"}]
      BY <1>4 DEF CloseStore, CloseStop, CloseAgain, CloseReturn, TypeOK, CloseTypes
    <3>3. mark' \in Nat
      BY <1>4, LenProperties
         DEF CloseStore, CloseStop, CloseAgain, CloseReturn, TypeOK, CloseTypes, QueueTypes
    <3> QED
      BY <3>1, <3>2, <3>3 DEF CloseTypes
  <2> QED
    BY <1>a, <1>4, <2>1 DEF CloseStore, CloseStop, CloseAgain, CloseReturn, TypeOK
<1>5. CASE CancelRun
  <2>1. CallTypes'
    BY <1>5 DEF CancelRun, TypeOK, CallTypes
  <2>2. CallInv'
    BY <1>5 DEF CancelRun, CallInv, Oversized
  <2> QED
    BY <1>a, <1>5, <2>1, <2>2 DEF CancelRun, TypeOK
<1>6. CASE Receive
  <2>1. /\ Head(queue) \in Event
        /\ Tail(queue) \in Seq(Event)
        /\ Len(Tail(queue)) =< QueueSize
        /\ <<Head(queue)>> \in Seq(Event)
        /\ Append(batch, Head(queue)) \in Seq(Event)
    BY <1>6 DEF Receive, TypeOK, QueueTypes, WorkerTypes
  <2>2. Weight(Head(queue)) \in Nat
    BY <2>1, WeightFits
  <2>3. QueueTypes'
    BY <1>6, <2>1 DEF Receive, TypeOK, QueueTypes
  <2>4. WorkerTypes'
    <3>1. CASE Flush(worker, <<Head(queue)>>)
      <4>1. worker' = "put" /\ resume' \in {"select", "drain", "done"}
        BY <1>6, <3>1 DEF Receive, Flush
      <4>2. held' \in {<<>>} \cup {<<e>> : e \in Event}
        BY <2>1, <3>1 DEF Flush
      <4>3. attempt' \in 0 .. MaxFlushAttempts - 1
        BY <3>1, SinkAssumption DEF Flush
      <4>4. UNCHANGED <<batch, batchBytes, settled, stored, reported>>
        BY <3>1 DEF Flush
      <4> QED
        BY <4>1, <4>2, <4>3, <4>4 DEF TypeOK, WorkerTypes
    <3>2. CASE /\ batch' = Append(batch, Head(queue))
               /\ batchBytes' = batchBytes + Weight(Head(queue))
               /\ UNCHANGED <<worker, resume, held, attempt, settled, stored, reported>>
      BY <2>1, <2>2, <3>2 DEF TypeOK, WorkerTypes
    <3> QED
      BY <1>6, <3>1, <3>2 DEF Receive
  <2> QED
    BY <1>a, <1>6, <2>3, <2>4 DEF Receive, TypeOK
<1>7. CASE Tick \/ SeeStop \/ Drained
  <2>1. WorkerTypes'
    BY <1>7 DEF Tick, SeeStop, Drained, Flush, TypeOK, WorkerTypes
  <2> QED
    BY <1>a, <1>7, <2>1 DEF Tick, SeeStop, Drained, TypeOK
<1>8. CASE PutLogEvents
  <2>1. PICK a \in Answer :
          /\ stored' \in {stored, stored \o batch}
          /\ \/ /\ TriesAgain(a)
                /\ attempt' = attempt + 1
                /\ UNCHANGED <<worker, resume, batch, batchBytes, held, settled, reported>>
             \/ EndFlush(a)
    BY <1>8 DEF PutLogEvents
  <2>2. stored' \in Seq(Event)
    <3>1. stored \o batch \in Seq(Event)
      BY ConcatProperties DEF TypeOK, WorkerTypes
    <3> QED
      BY <2>1, <3>1 DEF TypeOK, WorkerTypes
  <2>3. CASE /\ TriesAgain(a)
             /\ attempt' = attempt + 1
             /\ UNCHANGED <<worker, resume, batch, batchBytes, held, settled, reported>>
    <3>1. WorkerTypes'
      BY <2>2, <2>3 DEF TriesAgain, TypeOK, WorkerTypes
    <3> QED
      BY <1>a, <1>8, <3>1 DEF PutLogEvents, TypeOK
  <2>4. CASE EndFlush(a)
    <3>1. held # <<>> => Weight(held[1]) \in Nat
      BY WeightFits DEF TypeOK, WorkerTypes
    <3>2. Range(batch) \subseteq Event
      BY DEF TypeOK, WorkerTypes, Range
    <3>3. settled' \in Seq(Event)
      <4>1. settled \o batch \in Seq(Event)
        BY ConcatProperties DEF TypeOK, WorkerTypes
      <4> QED
        BY <2>4, <4>1 DEF EndFlush, Reports, BytesAfterFlush
    <3>4. reported' \subseteq Event
      BY <2>4, <3>2 DEF EndFlush, Reports, BytesAfterFlush, TypeOK, WorkerTypes
    <3>5. batchBytes' \in Nat /\ batch' \in Seq(Event)
      <4>1. held \in Seq(Event)
        BY HeldSeq DEF TypeOK
      <4>2. batch' = held /\ batchBytes' = IF held = <<>> THEN 0 ELSE Weight(held[1])
        BY <2>4 DEF EndFlush, Reports, BytesAfterFlush
      <4> QED
        BY <3>1, <4>1, <4>2
    <3>6. WorkerTypes'
      BY <2>2, <2>4, <3>3, <3>4, <3>5 DEF EndFlush, Reports, BytesAfterFlush, TypeOK, WorkerTypes
    <3> QED
      BY <1>a, <1>8, <3>6 DEF PutLogEvents, TypeOK
  <2> QED
    BY <2>1, <2>3, <2>4
<1>9. CASE UNCHANGED vars
  BY <1>a, <1>9 DEF vars, TypeOK
<1> QED
  BY <1>1, <1>2, <1>3, <1>4, <1>5, <1>6, <1>7, <1>8, <1>9 DEF Next, Worker, Terminated

\* Every reachable state of the sink has its types: the channel within its
\* capacity, at most one event held back, at most maxFlushAttempts attempts.
THEOREM TypeCorrect == Spec => []TypeOK
<1>1. Spec => [](TypeOK /\ CallInv)
  BY InitTypes, NextTypes, PTL DEF Spec
<1> QED
  BY <1>1, PTL

----------------------------------------------------------------------------
(* First in, first out. *)

\* A step keeps held empty outside a flush and the flushed batch nonempty.
LEMMA NextFlush == TypeOK /\ FlushInv /\ [Next]_vars => FlushInv'
<1> SUFFICES ASSUME TypeOK, FlushInv, [Next]_vars
             PROVE  FlushInv'
  OBVIOUS
<1>1. CASE UNCHANGED workerVars
  BY <1>1 DEF workerVars, FlushInv
<1>2. CASE Receive
  <2>1. CASE Flush(worker, <<Head(queue)>>) /\ batch # <<>>
    BY <1>2, <2>1 DEF Receive, Flush, FlushInv, TypeOK, WorkerTypes
  <2>2. CASE UNCHANGED <<worker, resume, held>>
    BY <1>2, <2>2 DEF Receive, FlushInv
  <2> QED
    BY <1>2, <2>1, <2>2 DEF Receive
<1>3. CASE Tick \/ SeeStop \/ Drained
  BY <1>3 DEF Tick, SeeStop, Drained, Flush, FlushInv
<1>4. CASE PutLogEvents
  <2>1. CASE UNCHANGED <<worker, resume, batch, held>>
    BY <2>1 DEF FlushInv
  <2>2. ASSUME NEW a, EndFlush(a) PROVE FlushInv'
    BY <2>2 DEF EndFlush, Reports, BytesAfterFlush, FlushInv, TypeOK, WorkerTypes
  <2> QED
    BY <1>4, <2>1, <2>2 DEF PutLogEvents
<1> QED
  BY <1>1, <1>2, <1>3, <1>4
     DEF Next, Worker, Begin, Check, Send, CloseStore, CloseStop, CloseAgain, CloseReturn,
         CancelRun, Terminated, vars

\* A step keeps the order: it appends at the end of the queue, moves the head
\* of the queue to the batch or to held, or moves a whole batch to settled.
LEMMA NextFIFO ==
    TypeOK /\ CallInv /\ FlushInv /\ NothingLostOrReordered /\ [Next]_vars
        => NothingLostOrReordered'
<1> SUFFICES ASSUME TypeOK, CallInv, FlushInv, NothingLostOrReordered, [Next]_vars
             PROVE  NothingLostOrReordered'
  OBVIOUS
<1>1. /\ settled \in Seq(Event) /\ batch \in Seq(Event) /\ held \in Seq(Event)
      /\ queue \in Seq(Event) /\ accepted \in Seq(Event)
  BY HeldSeq DEF TypeOK, WorkerTypes, QueueTypes
<1>2. settled \o batch \in Seq(Event) /\ (settled \o batch) \o held \in Seq(Event)
  BY <1>1, ConcatProperties
<1>3. CASE UNCHANGED <<accepted, settled, batch, held, queue>>
  BY <1>3 DEF NothingLostOrReordered
<1>4. ASSUME NEW c \in Call, Send(c) PROVE NothingLostOrReordered'
  <2>1. <<c, next[c]>> \in Event
    BY <1>4, EventIntro, SinkAssumption DEF Send, CallInv, TypeOK, CallTypes
  <2>2. CASE /\ queue' = Append(queue, <<c, next[c]>>)
             /\ accepted' = Append(accepted, <<c, next[c]>>)
    <3>1. <<(<<c, next[c]>>)>> \in Seq(Event)
      BY <2>1
    <3>2. accepted' = accepted \o <<(<<c, next[c]>>)>>
      BY <1>1, <2>1, <2>2, AppendIsConcat
    <3>3. queue' = queue \o <<(<<c, next[c]>>)>>
      BY <1>1, <2>1, <2>2, AppendIsConcat
    <3>4. accepted' = ((settled \o batch) \o held) \o queue'
      BY <1>1, <1>2, <3>1, <3>2, <3>3, AssocAhead DEF NothingLostOrReordered
    <3>5. settled' = settled /\ batch' = batch /\ held' = held
      BY <1>4 DEF Send, workerVars
    <3> QED
      BY <3>4, <3>5 DEF NothingLostOrReordered
  <2>3. CASE UNCHANGED <<queue, accepted>>
    BY <1>3, <1>4, <2>3 DEF Send, workerVars
  <2> QED
    BY <1>4, <2>2, <2>3 DEF Send
<1>5. CASE Receive
  <2>1. held = <<>> /\ queue # <<>> /\ queue' = Tail(queue) /\ accepted' = accepted
    BY <1>5 DEF Receive, FlushInv
  <2>2. Head(queue) \in Event
    BY <1>1, <2>1, HeadTailProperties
  <2>3. accepted = (settled \o batch) \o queue
    BY <1>2, <2>1, ConcatEmptySeq DEF NothingLostOrReordered
  <2>4. CASE Flush(worker, <<Head(queue)>>)
    <3>1. accepted = ((settled \o batch) \o <<Head(queue)>>) \o Tail(queue)
      BY <1>1, <1>2, <2>1, <2>3, MoveHead
    <3> QED
      BY <2>1, <2>4, <3>1 DEF Flush, NothingLostOrReordered
  <2>5. CASE /\ batch' = Append(batch, Head(queue))
             /\ UNCHANGED <<held, settled>>
    <3>1. accepted = (settled \o batch') \o queue'
      <4>1. <<Head(queue)>> \in Seq(Event)
        BY <2>2
      <4>2. accepted = ((settled \o batch) \o <<Head(queue)>>) \o queue'
        BY <1>1, <1>2, <2>1, <2>3, MoveHead
      <4>3. batch' = batch \o <<Head(queue)>>
        BY <1>1, <2>2, <2>5, AppendIsConcat
      <4>4. settled \o batch' = (settled \o batch) \o <<Head(queue)>>
        BY <1>1, <4>1, <4>3, AssocAhead
      <4> QED
        BY <4>2, <4>4
    <3>2. settled \o batch' \in Seq(Event)
      BY <1>1, <2>2, <2>5, ConcatProperties, AppendProperties
    <3>3. (settled \o batch') \o held = settled \o batch'
      BY <2>1, <3>2, ConcatEmptySeq
    <3> QED
      BY <2>1, <2>5, <3>1, <3>3 DEF NothingLostOrReordered
  <2> QED
    BY <1>5, <2>4, <2>5 DEF Receive
<1>6. ASSUME NEW a, EndFlush(a), UNCHANGED <<queue, accepted>>
      PROVE  NothingLostOrReordered'
  BY <1>1, <1>2, <1>6, ConcatEmptySeq DEF EndFlush, Reports, BytesAfterFlush, NothingLostOrReordered
<1>7. CASE PutLogEvents
  BY <1>3, <1>6, <1>7 DEF PutLogEvents
<1>8. CASE Tick \/ SeeStop \/ Drained
  BY <1>3, <1>8 DEF Tick, SeeStop, Drained, Flush, FlushInv
<1>9. CASE UNCHANGED <<queue, accepted, workerVars>>
  BY <1>3, <1>9 DEF workerVars
<1> QED
  BY <1>4, <1>5, <1>7, <1>8, <1>9
     DEF Next, Worker, Begin, Check, CloseStore, CloseStop, CloseAgain, CloseReturn,
         CancelRun, Terminated, vars

----------------------------------------------------------------------------
(* No event is accepted twice, and none that is too long. *)

\* A step accepts only an event that is new, of its call's next number, and not
\* oversized: Send is reached through Check, and next grows with each message.
LEMMA NextAccepted ==
    TypeOK /\ CallInv /\ AcceptedInv /\ [Next]_vars => AcceptedInv'
<1> SUFFICES ASSUME TypeOK, CallInv, AcceptedInv, [Next]_vars
             PROVE  AcceptedInv'
  OBVIOUS
<1>1. accepted \in Seq(Event) /\ next \in [Call -> Nat \ {0}]
  BY DEF TypeOK, QueueTypes, CallTypes
<1>2. \A i \in DOMAIN accepted : accepted[i][1] \in Call /\ accepted[i][2] \in Nat
  BY <1>1, EventElim, ElementOfSeq, LenProperties, SinkAssumption
<1>3. ASSUME accepted' = accepted, \A d \in Call : next'[d] \in Nat /\ next[d] =< next'[d]
      PROVE  AcceptedInv'
  BY <1>1, <1>2, <1>3 DEF AcceptedInv, Oversized
<1>4. ASSUME NEW c \in Call, NEW err, Advance(c, err)
      PROVE  /\ next'[c] = next[c] + 1
             /\ \A d \in Call : next'[d] \in Nat /\ next[d] =< next'[d]
  BY <1>1, <1>4 DEF Advance
<1>5. ASSUME NEW c \in Call, Check(c) PROVE AcceptedInv'
  <2>1. accepted' = accepted
    BY <1>5 DEF Check
  <2>2. CASE Advance(c, TRUE)
    BY <1>3, <1>4, <2>1, <2>2
  <2>3. CASE next' = next
    BY <1>1, <1>3, <2>1, <2>3
  <2> QED
    BY <1>5, <2>2, <2>3 DEF Check
<1>6. ASSUME NEW c \in Call, Send(c) PROVE AcceptedInv'
  <2>1. PICK err : Advance(c, err)
    BY <1>6 DEF Send
  <2>2. /\ next'[c] = next[c] + 1
        /\ \A d \in Call : next'[d] \in Nat /\ next[d] =< next'[d]
    BY <1>4, <2>1
  <2>3. CASE accepted' = accepted
    BY <1>3, <2>2, <2>3
  <2>4. CASE accepted' = Append(accepted, <<c, next[c]>>)
    <3> DEFINE e == <<c, next[c]>>
    <3>1. e \in Event /\ ~Oversized(e) /\ e[1] = c /\ e[2] = next[c] /\ next[c] \in Nat
      BY <1>1, <1>6, EventIntro, SinkAssumption DEF Send, CallInv
    <3>2. \A i \in DOMAIN accepted : accepted[i] # e
      BY <1>1, <1>2, <3>1 DEF AcceptedInv
    <3> HIDE DEF e
    <3>3. /\ DOMAIN accepted' = 1 .. Len(accepted) + 1
          /\ DOMAIN accepted = 1 .. Len(accepted)
          /\ Len(accepted) \in Nat
          /\ \A i \in 1 .. Len(accepted) : accepted'[i] = accepted[i]
          /\ accepted'[Len(accepted) + 1] = e
      BY <1>1, <2>4, <3>1, AppendProperties, LenProperties DEF e
    <3>4. ASSUME NEW i \in DOMAIN accepted'
          PROVE  ~Oversized(accepted'[i]) /\ accepted'[i][2] < next'[accepted'[i][1]]
      <4>1. CASE i \in 1 .. Len(accepted)
        BY <1>1, <1>2, <2>2, <3>3, <4>1 DEF AcceptedInv, Oversized
      <4>2. CASE i = Len(accepted) + 1
        BY <1>1, <2>2, <3>1, <3>3, <4>2 DEF Oversized
      <4> QED
        BY <3>3, <4>1, <4>2
    <3>5. ASSUME NEW i \in DOMAIN accepted', NEW j \in DOMAIN accepted',
                 accepted'[i] = accepted'[j]
          PROVE  i = j
      BY <3>2, <3>3, <3>5 DEF AcceptedInv, IsInjective
    <3> QED
      BY <3>4, <3>5 DEF AcceptedInv, IsInjective
  <2> QED
    BY <1>6, <2>3, <2>4 DEF Send
<1>7. CASE UNCHANGED <<accepted, next>>
  BY <1>1, <1>3, <1>7
<1> QED
  BY <1>5, <1>6, <1>7
     DEF Next, Worker, Begin, CloseStore, CloseStop, CloseAgain, CloseReturn, CancelRun,
         Receive, Tick, SeeStop, Drained, PutLogEvents, Terminated, vars, callVars

----------------------------------------------------------------------------
(* The limits of a batch. *)

\* An event that waits in the queue or is held back fits into an empty batch.
LEMMA WaitingFits ==
    ASSUME TypeOK, NothingLostOrReordered, AcceptedInv
    PROVE  /\ queue # <<>> => Weight(Head(queue)) =< MaxBatchBytes
           /\ held # <<>> => Weight(held[1]) =< MaxBatchBytes
<1>1. /\ settled \o batch \in Seq(Event) /\ held \in Seq(Event)
      /\ queue \in Seq(Event) /\ accepted \in Seq(Event)
  BY HeldSeq, ConcatProperties DEF TypeOK, WorkerTypes, QueueTypes
<1>2. (settled \o batch) \o held \in Seq(Event)
  BY <1>1, ConcatProperties
<1>3. Range(accepted) = (Range(settled \o batch) \cup Range(held)) \cup Range(queue)
  <2>1. Range(((settled \o batch) \o held) \o queue)
          = Range((settled \o batch) \o held) \cup Range(queue)
    BY <1>1, <1>2, RangeConcatenation
  <2>2. Range((settled \o batch) \o held) = Range(settled \o batch) \cup Range(held)
    BY <1>1, RangeConcatenation
  <2> QED
    BY <2>1, <2>2 DEF NothingLostOrReordered
<1>4. \A e \in Range(accepted) : e \in Event /\ ~Oversized(e)
  BY <1>1, ElementOfSeq, LenProperties DEF AcceptedInv, Range
<1>5. ASSUME queue # <<>> PROVE Head(queue) \in Range(queue)
  <2>1. 1 \in DOMAIN queue /\ Head(queue) = queue[1]
    BY <1>1, <1>5, EmptySeq, LenProperties
  <2> QED
    BY <2>1 DEF Range
<1>6. ASSUME held # <<>> PROVE held[1] \in Range(held)
  BY <1>1, <1>6, EmptySeq, LenProperties DEF Range
<1> QED
  BY <1>3, <1>4, <1>5, <1>6, WeightFits

\* A step keeps batchBytes a count of zero for an empty batch, and the batch
\* within both limits: appendEvent flushes first when the event would not fit.
LEMMA NextBatch ==
    TypeOK /\ NothingLostOrReordered /\ AcceptedInv /\ BytesInv /\ BatchWithinLimits
        /\ [Next]_vars => BytesInv' /\ BatchWithinLimits'
<1> SUFFICES ASSUME TypeOK, NothingLostOrReordered, AcceptedInv, BytesInv,
                    BatchWithinLimits, [Next]_vars
             PROVE  BytesInv' /\ BatchWithinLimits'
  OBVIOUS
<1>1. /\ batch \in Seq(Event) /\ batchBytes \in Nat /\ queue \in Seq(Event)
      /\ held \in {<<>>} \cup {<<e>> : e \in Event}
  BY DEF TypeOK, WorkerTypes, QueueTypes
<1>2. CASE UNCHANGED <<batch, batchBytes>>
  BY <1>2 DEF BytesInv, BatchWithinLimits
<1>3. CASE Receive
  <2>1. queue # <<>> /\ Head(queue) \in Event
    BY <1>1, <1>3, HeadTailProperties DEF Receive
  <2>2. Weight(Head(queue)) \in Nat /\ Weight(Head(queue)) =< MaxBatchBytes
    BY <2>1, WeightFits, WaitingFits
  <2>3. CASE UNCHANGED <<batch, batchBytes>>
    BY <1>2, <2>3
  <2>4. CASE /\ ~BatchFull(Head(queue)) \/ batch = <<>>
             /\ batch' = Append(batch, Head(queue))
             /\ batchBytes' = batchBytes + Weight(Head(queue))
    <3>1. batch' # <<>> /\ Len(batch') = Len(batch) + 1 /\ Len(batch) \in Nat
      BY <1>1, <2>1, <2>4, AppendProperties, LenProperties
    <3>2. CASE ~BatchFull(Head(queue))
      BY <1>1, <2>2, <2>4, <3>1, <3>2, SinkAssumption DEF BatchFull, BytesInv, BatchWithinLimits
    <3>3. CASE batch = <<>>
      BY <1>1, <2>2, <2>4, <3>1, <3>3, EmptySeq, SinkAssumption DEF BytesInv, BatchWithinLimits
    <3> QED
      BY <2>4, <3>2, <3>3
  <2> QED
    BY <1>3, <2>3, <2>4 DEF Receive, Flush
<1>4. ASSUME NEW a, EndFlush(a) PROVE BytesInv' /\ BatchWithinLimits'
  <2>1. CASE held = <<>>
    BY <1>4, <2>1, SinkAssumption DEF EndFlush, Reports, BytesAfterFlush, BytesInv, BatchWithinLimits
  <2>2. CASE held # <<>>
    <3>1. Len(held) = 1
      BY <1>1, <2>2
    <3> QED
      BY <1>4, <2>2, <3>1, WaitingFits, SinkAssumption DEF EndFlush, Reports, BytesAfterFlush, BytesInv, BatchWithinLimits
  <2> QED
    BY <2>1, <2>2
<1>5. CASE PutLogEvents
  BY <1>2, <1>4, <1>5 DEF PutLogEvents
<1>6. CASE Tick \/ SeeStop \/ Drained
  BY <1>2, <1>6 DEF Tick, SeeStop, Drained, Flush
<1>7. CASE UNCHANGED workerVars
  BY <1>2, <1>7 DEF workerVars
<1> QED
  BY <1>3, <1>5, <1>6, <1>7
     DEF Next, Worker, Begin, Check, Send, CloseStore, CloseStop, CloseAgain, CloseReturn,
         CancelRun, Terminated, vars

----------------------------------------------------------------------------
(* The log stream. *)

\* What a PutLogEvents step does to the histories: it retries without having
\* stored anything, or it settles the batch, stored or reported.
LEMMA PutEffect ==
    ASSUME PutLogEvents
    PROVE  \/ UNCHANGED <<settled, stored, reported, worker, resume, batch, held>>
           \/ /\ settled' = settled \o batch
              /\ \/ stored' = stored \o batch /\ reported' = reported
                 \/ /\ stored' \in {stored, stored \o batch}
                    /\ reported' = reported \cup Range(batch)
              /\ batch' = held /\ held' = <<>> /\ worker' = resume /\ resume' = "select"
<1>1. PICK a \in Answer :
        /\ \E s \in StoredBy(a) : stored' = IF s THEN stored \o batch ELSE stored
        /\ \/ /\ TriesAgain(a)
              /\ UNCHANGED <<settled, reported, worker, resume, batch, held>>
           \/ ~TriesAgain(a) /\ EndFlush(a)
  BY DEF PutLogEvents
<1>2. CASE TriesAgain(a)
  BY <1>1, <1>2 DEF TriesAgain, isPutLogEventsRetryable, StoredBy
<1>3. CASE ~TriesAgain(a) /\ a = "ok"
  BY <1>1, <1>3 DEF StoredBy, EndFlush, Reports, BytesAfterFlush
<1>4. CASE ~TriesAgain(a) /\ a # "ok"
  BY <1>1, <1>4 DEF EndFlush, Reports, BytesAfterFlush
<1> QED
  BY <1>2, <1>3, <1>4

\* Only PutLogEvents touches the stream, what is settled and what is reported.
LEMMA HistoriesStay ==
    ASSUME [Next]_vars, ~PutLogEvents
    PROVE  UNCHANGED <<settled, stored, reported>>
BY DEF Next, Worker, Begin, Check, Send, CloseStore, CloseStop, CloseAgain, CloseReturn,
       CancelRun, Receive, Tick, SeeStop, Drained, Flush, Terminated, vars, workerVars

\* Acceptance is recorded at the end, by Send only.
LEMMA AcceptedGrows ==
    ASSUME TypeOK, CallInv, [Next]_vars
    PROVE  accepted' = accepted \/ \E e \in Event : accepted' = Append(accepted, e)
<1>1. ASSUME NEW c \in Call, Send(c)
      PROVE  accepted' = accepted \/ \E e \in Event : accepted' = Append(accepted, e)
  <2>1. <<c, next[c]>> \in Event
    BY <1>1, EventIntro, SinkAssumption DEF Send, CallInv, TypeOK, CallTypes
  <2> QED
    BY <1>1, <2>1 DEF Send
<1> QED
  BY <1>1
     DEF Next, Worker, Begin, Check, CloseStore, CloseStop, CloseAgain, CloseReturn,
         CancelRun, Receive, Tick, SeeStop, Drained, PutLogEvents, Terminated, vars

\* The order of acceptance is never revised.
LEMMA OrderStays ==
    ASSUME TypeOK, CallInv, [Next]_vars
    PROVE  \A e, f : Precedes(accepted, e, f) => Precedes(accepted', e, f)
<1>1. accepted \in Seq(Event)
  BY DEF TypeOK, QueueTypes
<1>2. \A i \in DOMAIN accepted : i \in DOMAIN accepted' /\ accepted'[i] = accepted[i]
  <2>1. CASE accepted' = accepted
    BY <2>1
  <2>2. ASSUME NEW x \in Event, accepted' = Append(accepted, x)
        PROVE  \A i \in DOMAIN accepted : i \in DOMAIN accepted' /\ accepted'[i] = accepted[i]
    BY <1>1, <2>2, AppendProperties, LenProperties
  <2> QED
    BY <2>1, <2>2, AcceptedGrows
<1> QED
  BY <1>2 DEF Precedes

\* A step keeps what is stored a duplicate-free selection of what is settled, in
\* the order of acceptance.
LEMMA NextStored ==
    TypeOK /\ CallInv /\ NothingLostOrReordered /\ StoredInv /\ [Next]_vars => StoredInv'
<1> SUFFICES ASSUME TypeOK, CallInv, NothingLostOrReordered, StoredInv, [Next]_vars
             PROVE  StoredInv'
  OBVIOUS
<1>1. /\ settled \in Seq(Event) /\ batch \in Seq(Event) /\ held \in Seq(Event)
      /\ queue \in Seq(Event) /\ accepted \in Seq(Event) /\ stored \in Seq(Event)
  BY HeldSeq DEF TypeOK, WorkerTypes, QueueTypes
<1>2. CASE UNCHANGED <<settled, stored>>
  <2>1. \A i, j \in DOMAIN stored' : i < j => Precedes(accepted', stored'[i], stored'[j])
    BY <1>2, OrderStays DEF StoredInv
  <2> QED
    BY <1>2, <2>1 DEF StoredInv
<1>3. CASE PutLogEvents /\ settled' = settled \o batch
           /\ stored' \in {stored, stored \o batch}
  <2>1. accepted' = accepted
    BY <1>3 DEF PutLogEvents
  <2>2. Range(settled') = Range(settled) \cup Range(batch)
    BY <1>1, <1>3, RangeConcatenation
  <2>3. CASE stored' = stored
    BY <2>1, <2>2, <2>3 DEF StoredInv
  <2>4. CASE stored' = stored \o batch
    <3>1. Range(stored') \subseteq Range(settled')
      <4>1. Range(stored') = Range(stored) \cup Range(batch)
        BY <1>1, <2>4, RangeConcatenation
      <4> QED
        BY <2>2, <4>1 DEF StoredInv
    <3>2. /\ Len(stored) \in Nat /\ Len(batch) \in Nat /\ Len(settled) \in Nat
          /\ DOMAIN stored = 1 .. Len(stored)
          /\ DOMAIN settled = 1 .. Len(settled)
          /\ DOMAIN stored' = 1 .. Len(stored) + Len(batch)
          /\ \A i \in 1 .. Len(stored) : stored'[i] = stored[i]
          /\ \A i \in Len(stored) + 1 .. Len(stored) + Len(batch) :
                stored'[i] = batch[i - Len(stored)]
      BY <1>1, <2>4, ConcatProperties, LenProperties
    <3>3. PICK rest \in Seq(Event) : accepted = (settled \o batch) \o rest
      <4>1. held \o queue \in Seq(Event) /\ settled \o batch \in Seq(Event)
        BY <1>1, ConcatProperties
      <4>2. accepted = (settled \o batch) \o (held \o queue)
        BY <1>1, <4>1, AssocAhead DEF NothingLostOrReordered
      <4> QED
        BY <4>1, <4>2
    <3>4. /\ \A i \in 1 .. Len(settled) : i \in DOMAIN accepted /\ accepted[i] = settled[i]
          /\ \A i \in 1 .. Len(batch) :
                /\ Len(settled) + i \in DOMAIN accepted
                /\ accepted[Len(settled) + i] = batch[i]
      <4>1. /\ settled \o batch \in Seq(Event)
            /\ Len(settled \o batch) = Len(settled) + Len(batch)
            /\ \A i \in 1 .. Len(settled) : (settled \o batch)[i] = settled[i]
            /\ \A i \in 1 .. Len(batch) : (settled \o batch)[Len(settled) + i] = batch[i]
        BY <1>1, <3>2, ConcatProperties
      <4>2. /\ DOMAIN accepted = 1 .. Len(settled) + Len(batch) + Len(rest)
            /\ Len(rest) \in Nat
            /\ \A i \in 1 .. Len(settled) + Len(batch) : accepted[i] = (settled \o batch)[i]
        BY <3>2, <3>3, <4>1, ConcatProperties, LenProperties
      <4>3. \A i \in 1 .. Len(settled) : i \in DOMAIN accepted /\ accepted[i] = settled[i]
        BY <3>2, <4>1, <4>2
      <4>4. ASSUME NEW i \in 1 .. Len(batch)
            PROVE  /\ Len(settled) + i \in DOMAIN accepted
                   /\ accepted[Len(settled) + i] = batch[i]
        <5>1. Len(settled) + i \in 1 .. Len(settled) + Len(batch)
          BY <3>2
        <5> QED
          BY <3>2, <4>1, <4>2, <5>1
      <4> QED
        BY <4>3, <4>4
    <3>5. ASSUME NEW i \in DOMAIN stored', NEW j \in DOMAIN stored', i < j
          PROVE  Precedes(accepted, stored'[i], stored'[j])
      <4>1. CASE i \in 1 .. Len(stored) /\ j \in 1 .. Len(stored)
        BY <3>2, <3>5, <4>1 DEF StoredInv
      <4>2. CASE i \in 1 .. Len(stored) /\ j \in Len(stored) + 1 .. Len(stored) + Len(batch)
        <5>1. PICK p \in 1 .. Len(settled) : settled[p] = stored'[i]
          BY <3>2, <4>2 DEF StoredInv, Range
        <5>2. j - Len(stored) \in 1 .. Len(batch)
          BY <3>2, <4>2
        <5>3. /\ p \in DOMAIN accepted /\ accepted[p] = stored'[i]
              /\ Len(settled) + (j - Len(stored)) \in DOMAIN accepted
              /\ accepted[Len(settled) + (j - Len(stored))] = stored'[j]
              /\ p < Len(settled) + (j - Len(stored))
          BY <3>2, <3>4, <4>2, <5>1, <5>2
        <5> QED
          BY <5>3 DEF Precedes
      <4>3. CASE /\ i \in Len(stored) + 1 .. Len(stored) + Len(batch)
                 /\ j \in Len(stored) + 1 .. Len(stored) + Len(batch)
        <5>1. i - Len(stored) \in 1 .. Len(batch) /\ j - Len(stored) \in 1 .. Len(batch)
          BY <3>2, <4>3
        <5>2. /\ Len(settled) + (i - Len(stored)) \in DOMAIN accepted
              /\ accepted[Len(settled) + (i - Len(stored))] = stored'[i]
              /\ Len(settled) + (j - Len(stored)) \in DOMAIN accepted
              /\ accepted[Len(settled) + (j - Len(stored))] = stored'[j]
              /\ Len(settled) + (i - Len(stored)) < Len(settled) + (j - Len(stored))
          BY <3>2, <3>4, <3>5, <4>3, <5>1
        <5> QED
          BY <5>2 DEF Precedes
      <4> QED
        BY <3>2, <3>5, <4>1, <4>2, <4>3
    <3> QED
      BY <2>1, <3>1, <3>5 DEF StoredInv
  <2> QED
    BY <1>3, <2>3, <2>4
<1> QED
  BY <1>2, <1>3, PutEffect, HistoriesStay

\* A step keeps every settled event stored or reported.
LEMMA NextReported == TypeOK /\ StoredOrReported /\ [Next]_vars => StoredOrReported'
<1> SUFFICES ASSUME TypeOK, StoredOrReported, [Next]_vars
             PROVE  StoredOrReported'
  OBVIOUS
<1>1. settled \in Seq(Event) /\ batch \in Seq(Event) /\ stored \in Seq(Event)
  BY DEF TypeOK, WorkerTypes
<1>2. /\ Range(settled \o batch) = Range(settled) \cup Range(batch)
      /\ Range(stored \o batch) = Range(stored) \cup Range(batch)
  BY <1>1, RangeConcatenation
<1>3. CASE UNCHANGED <<settled, stored, reported>>
  BY <1>3 DEF StoredOrReported
<1>4. CASE /\ settled' = settled \o batch
           /\ \/ stored' = stored \o batch /\ reported' = reported
              \/ /\ stored' \in {stored, stored \o batch}
                 /\ reported' = reported \cup Range(batch)
  BY <1>2, <1>4 DEF StoredOrReported
<1> QED
  BY <1>3, <1>4, PutEffect, HistoriesStay

----------------------------------------------------------------------------
(* Stopping. *)

\* A step keeps the phases of Close and of the worker in line: the worker
\* leaves its select, and Close waits, only after stop is closed.
LEMMA NextStop == TypeOK /\ FlushInv /\ StopInv /\ [Next]_vars => StopInv'
<1> SUFFICES ASSUME TypeOK, FlushInv, StopInv, [Next]_vars
             PROVE  StopInv'
  OBVIOUS
<1>1. closer \in [Closer -> {"idle", "once", "waiting", "nil", "deadline"}]
  BY DEF TypeOK, CloseTypes
<1>2. CASE UNCHANGED <<closer, closed, stop, worker, resume>>
  BY <1>2 DEF StopInv
<1>3. ASSUME NEW k \in Closer, CloseStore(k) PROVE StopInv'
  BY <1>1, <1>3 DEF CloseStore, StopInv, workerVars
<1>4. ASSUME NEW k \in Closer, CloseStop(k) PROVE StopInv'
  BY <1>1, <1>4 DEF CloseStop, StopInv, workerVars
<1>5. ASSUME NEW k \in Closer, CloseAgain(k) \/ CloseReturn(k) PROVE StopInv'
  BY <1>1, <1>5 DEF CloseAgain, CloseReturn, StopInv, workerVars
<1>6. CASE Receive
  BY <1>2, <1>6 DEF Receive, Flush, StopInv, closeVars
<1>7. CASE Tick \/ SeeStop \/ Drained
  BY <1>7 DEF Tick, SeeStop, Drained, Flush, StopInv, closeVars
<1>8. CASE PutLogEvents
  BY <1>2, <1>8, PutEffect DEF PutLogEvents, StopInv, closeVars
<1>9. CASE UNCHANGED <<closeVars, workerVars>>
  BY <1>2, <1>9 DEF closeVars, workerVars
<1> QED
  BY <1>3, <1>4, <1>5, <1>6, <1>7, <1>8, <1>9
     DEF Next, Worker, Begin, Check, Send, CancelRun, Terminated, vars

\* A step keeps the worker from finishing before it is through with the events
\* accepted before the stop.
LEMMA NextMark ==
    TypeOK /\ CallInv /\ NothingLostOrReordered /\ FlushInv /\ StopInv /\ MarkInv /\ [Next]_vars
        => MarkInv'
<1> SUFFICES ASSUME TypeOK, CallInv, NothingLostOrReordered, FlushInv, StopInv, MarkInv,
                    [Next]_vars
             PROVE  MarkInv'
  OBVIOUS
<1>1. /\ closer \in [Closer -> {"idle", "once", "waiting", "nil", "deadline"}]
      /\ accepted \in Seq(Event) /\ settled \in Seq(Event) /\ batch \in Seq(Event)
      /\ Len(accepted) \in Nat /\ Len(settled) \in Nat /\ Len(batch) \in Nat /\ mark \in Nat
  BY LenProperties DEF TypeOK, CloseTypes, QueueTypes, WorkerTypes
<1>2. Len(accepted') \in Nat /\ Len(accepted) =< Len(accepted')
  BY <1>1, AcceptedGrows, AppendProperties
<1>3. CASE UNCHANGED <<closer, mark, worker, resume, settled, batch>>
  BY <1>1, <1>2, <1>3 DEF MarkInv
<1>4. ASSUME NEW k \in Closer, CloseStore(k) \/ CloseAgain(k) \/ CloseReturn(k)
      PROVE  MarkInv'
  <2>1. UNCHANGED <<accepted, mark, worker, resume, settled, batch>>
    BY <1>4 DEF CloseStore, CloseAgain, CloseReturn, workerVars
  <2>2. \A l \in Closer : closer'[l] = "nil" => worker' = "done"
    BY <1>1, <1>4, <2>1 DEF CloseStore, CloseAgain, CloseReturn, MarkInv
  <2> QED
    BY <2>1, <2>2 DEF MarkInv
<1>5. ASSUME NEW k \in Closer, CloseStop(k) PROVE MarkInv'
  <2>1. UNCHANGED <<accepted, worker, resume, settled, batch>> /\ mark' = Len(accepted)
    BY <1>5 DEF CloseStop, workerVars
  <2>2. worker # "done" /\ resume # "done"
    BY <1>5 DEF CloseStop, StopInv
  <2>3. \A l \in Closer : closer'[l] # "nil"
    BY <1>1, <1>5, <2>2 DEF CloseStop, MarkInv
  <2> QED
    BY <1>1, <2>1, <2>2, <2>3 DEF MarkInv
<1>6. CASE Receive
  <2>1. worker \in {"select", "drain"} /\ UNCHANGED <<accepted, settled, closer, mark>>
    BY <1>6 DEF Receive, Flush, closeVars
  <2>2. (worker' = worker /\ resume' = resume) \/ (worker' = "put" /\ resume' = worker)
    BY <1>6 DEF Receive, Flush
  <2> QED
    BY <2>1, <2>2 DEF MarkInv
<1>7. CASE Tick \/ SeeStop
  BY <1>7 DEF Tick, SeeStop, Flush, MarkInv, FlushInv, closeVars
<1>8. CASE Drained
  <2>1. Len(accepted) = Len(settled) + Len(batch)
    <3>1. accepted = settled \o batch
      <4>1. settled \o batch \in Seq(Event)
        BY <1>1, ConcatProperties
      <4>2. held = <<>> /\ queue = <<>>
        BY <1>8 DEF Drained, FlushInv
      <4> QED
        BY <4>1, <4>2, ConcatEmptySeq DEF NothingLostOrReordered
    <3> QED
      BY <1>1, <3>1, ConcatProperties
  <2>2. batch = <<>> => Len(batch) = 0
    BY EmptySeq
  <2> QED
    BY <1>1, <1>8, <2>1, <2>2 DEF Drained, Flush, MarkInv, closeVars
<1>9. CASE PutLogEvents
  <2>1. UNCHANGED <<accepted, closer, mark>>
    BY <1>9 DEF PutLogEvents, closeVars
  <2>2. worker = "put"
    BY <1>9 DEF PutLogEvents
  <2>3. CASE settled' = settled \o batch /\ worker' = resume /\ resume' = "select"
    <3>1. Len(settled') = Len(settled) + Len(batch)
      BY <1>1, <2>3, ConcatProperties
    <3> QED
      BY <1>1, <2>1, <2>2, <2>3, <3>1 DEF MarkInv, TypeOK, WorkerTypes
  <2> QED
    BY <1>3, <1>9, <2>1, <2>3, PutEffect
<1>10. CASE UNCHANGED <<closeVars, workerVars>>
  BY <1>3, <1>10 DEF closeVars, workerVars
<1> QED
  BY <1>4, <1>5, <1>6, <1>7, <1>8, <1>9, <1>10
     DEF Next, Worker, Begin, Check, Send, CancelRun, Terminated, vars

----------------------------------------------------------------------------
(* The invariant and its consequences. *)

\* The invariant holds initially.
LEMMA InitInv == Init => IndInv
<1> SUFFICES ASSUME Init PROVE IndInv
  OBVIOUS
<1>1. TypeOK /\ CallInv
  BY InitTypes
<1>2. NothingLostOrReordered
  BY ConcatEmptySeq, EmptySeq DEF Init, NothingLostOrReordered
<1>3. AcceptedInv /\ StoredInv
  BY DEF Init, AcceptedInv, StoredInv, IsInjective, Range
<1>4. FlushInv /\ BytesInv /\ StoredOrReported
  BY DEF Init, FlushInv, BytesInv, StoredOrReported, Range
<1>5. BatchWithinLimits
  BY SinkAssumption DEF Init, BatchWithinLimits
<1>6. StopInv /\ MarkInv
  BY DEF Init, StopInv, MarkInv
<1> QED
  BY <1>1, <1>2, <1>3, <1>4, <1>5, <1>6 DEF IndInv

\* Every step keeps the invariant.
LEMMA NextInv == IndInv /\ [Next]_vars => IndInv'
BY NextTypes, NextFlush, NextFIFO, NextAccepted, NextBatch, NextStored, NextReported,
   NextStop, NextMark DEF IndInv

\* The invariant holds in every reachable state.
LEMMA Inductive == Spec => []IndInv
BY InitInv, NextInv, PTL DEF Spec

\* The worker handles what the channel took first in, first out, and neither
\* loses nor duplicates an event on the way from the channel to PutLogEvents.
THEOREM FIFO == Spec => []NothingLostOrReordered
<1>1. IndInv => NothingLostOrReordered
  BY DEF IndInv
<1> QED
  BY <1>1, Inductive, PTL

\* No PutLogEvents call exceeds the service's limits on events and bytes.
THEOREM Limits == Spec => []BatchWithinLimits
<1>1. IndInv => BatchWithinLimits
  BY DEF IndInv
<1> QED
  BY <1>1, Inductive, PTL

----------------------------------------------------------------------------
(* The count of bytes.  The sums of a sequence are one function: any two    *)
(* agree at 0 and, from one index to the next, everywhere.  So it suffices  *)
(* that the worker could keep such a function beside its batch, with the    *)
(* count as its last value: Receive extends it by one, a flush replaces it  *)
(* by that of what is held back.                                            *)

\* t[n] is the weight of the first n events of s.
Sums(s, t) == t = [n \in 0 .. Len(s) |-> IF n = 0 THEN 0 ELSE t[n - 1] + Weight(s[n])]

\* The inductive form of BatchBytesExact.
Summed == \E t : Sums(batch, t) /\ t[Len(batch)] = batchBytes

\* A sequence has at most one function of sums: there is no least index at which
\* two of them differ.
LEMMA SumsUnique ==
    ASSUME NEW s \in Seq(Event), NEW t, NEW u, Sums(s, t), Sums(s, u)
    PROVE  t = u
<1> DEFINE T == {n \in 0 .. Len(s) : t[n] # u[n]}
<1>1. Len(s) \in Nat
  BY LenProperties
<1>2. SUFFICES ASSUME T # {} PROVE FALSE
  BY DEF Sums
<1>3. T \subseteq Nat
  BY <1>1
<1> HIDE DEF T
<1>4. PICK n \in T : \A m \in T : ~(<<m, n>> \in OpToRel(<, Nat))
  BY <1>2, <1>3, WFMin, NatLessThanWellFounded
<1>5. \A m \in T : ~(m < n)
  BY <1>3, <1>4, Zenon DEF OpToRel
<1> QED
  BY <1>1, <1>5 DEF T, Sums

\* The sums of a longer sequence agree with those of the shorter one.
LEMMA SumsAppend ==
    ASSUME NEW s \in Seq(Event), NEW e \in Event, NEW t, Sums(s, t)
    PROVE  \E u : Sums(Append(s, e), u) /\ u[Len(Append(s, e))] = t[Len(s)] + Weight(e)
<1> DEFINE a == Append(s, e)
           u == [n \in 0 .. Len(s) + 1 |-> IF n =< Len(s) THEN t[n] ELSE t[Len(s)] + Weight(e)]
<1>1. /\ Len(s) \in Nat /\ Len(a) = Len(s) + 1 /\ a[Len(s) + 1] = e
      /\ \A n \in 1 .. Len(s) : a[n] = s[n]
  BY AppendProperties, LenProperties
<1> HIDE DEF a
<1>2. ASSUME NEW n \in 0 .. Len(s) + 1
      PROVE  u[n] = IF n = 0 THEN 0 ELSE u[n - 1] + Weight(a[n])
  <2>1. CASE n = 0
    BY <1>1, <2>1 DEF Sums
  <2>2. CASE n \in 1 .. Len(s)
    <3>1. t[n] = t[n - 1] + Weight(a[n])
      BY <1>1, <2>2 DEF Sums
    <3> QED
      BY <1>1, <2>2, <3>1
  <2>3. CASE n = Len(s) + 1
    <3>1. n - 1 = Len(s) /\ n # 0 /\ ~(n =< Len(s)) /\ Len(s) \in 0 .. Len(s) + 1
      BY <1>1, <2>3
    <3> QED
      BY <1>1, <2>3, <3>1
  <2> QED
    BY <1>1, <2>1, <2>2, <2>3
<1>3. u[Len(a)] = t[Len(s)] + Weight(e)
  BY <1>1
<1>4. Sums(a, u)
  <2> DEFINE v == [n \in 0 .. Len(a) |-> IF n = 0 THEN 0 ELSE u[n - 1] + Weight(a[n])]
  <2>1. DOMAIN u = 0 .. Len(a) /\ u = [n \in 0 .. Len(a) |-> u[n]]
    BY <1>1
  <2> HIDE DEF u
  <2>2. u = v
    BY <1>1, <1>2, <2>1
  <2> QED
    BY <2>2 DEF Sums
<1> QED
  BY <1>3, <1>4 DEF a

\* The sums of no event and of one.
LEMMA SumsShort ==
    /\ \E t : Sums(<<>>, t) /\ t[Len(<<>>)] = 0
    /\ \A e \in Event : \E t : Sums(<<e>>, t) /\ t[Len(<<e>>)] = Weight(e)
<1>1. \E t : Sums(<<>>, t) /\ t[Len(<<>>)] = 0
  <2> DEFINE z == [n \in 0 .. 0 |-> 0]
  <2>1. Len(<<>>) = 0 /\ z[0] = 0
    OBVIOUS
  <2>2. Sums(<<>>, z)
    BY <2>1 DEF Sums
  <2> QED
    BY <2>1, <2>2
<1>2. ASSUME NEW e \in Event
      PROVE  \E t : Sums(<<e>>, t) /\ t[Len(<<e>>)] = Weight(e)
  <2> DEFINE none == <<>>
  <2>1. <<e>> = Append(none, e) /\ none \in Seq(Event)
    BY EmptySeq
  <2>2. Weight(e) \in Nat
    BY WeightFits
  <2>3. PICK t : Sums(none, t) /\ t[Len(none)] = 0
    BY <1>1
  <2> HIDE DEF none
  <2>4. PICK u : /\ Sums(Append(none, e), u)
                 /\ u[Len(Append(none, e))] = t[Len(none)] + Weight(e)
    BY <2>1, <2>3, SumsAppend
  <2>5. Sums(<<e>>, u) /\ u[Len(<<e>>)] = 0 + Weight(e)
    BY <2>1, <2>3, <2>4, Zenon
  <2> QED
    BY <2>2, <2>5
<1> QED
  BY <1>1, <1>2

\* A step keeps the count the last of the sums of the batch.
LEMMA NextSummed == TypeOK /\ Summed /\ [Next]_vars => Summed'
<1> SUFFICES ASSUME TypeOK, Summed, [Next]_vars
             PROVE  \E t : Sums(batch', t) /\ t[Len(batch')] = batchBytes'
  BY DEF Summed, Sums, Weight
<1>1. /\ batch \in Seq(Event) /\ queue \in Seq(Event)
      /\ held \in {<<>>} \cup {<<e>> : e \in Event}
  BY DEF TypeOK, WorkerTypes, QueueTypes
<1>2. CASE UNCHANGED <<batch, batchBytes>>
  BY <1>2 DEF Summed
<1>3. CASE Receive
  <2>1. Head(queue) \in Event
    BY <1>1, <1>3, HeadTailProperties DEF Receive
  <2>2. CASE batch' = Append(batch, Head(queue))
             /\ batchBytes' = batchBytes + Weight(Head(queue))
    <3>1. PICK t : Sums(batch, t) /\ t[Len(batch)] = batchBytes
      BY DEF Summed
    <3> QED
      BY <1>1, <2>1, <2>2, <3>1, SumsAppend
  <2> QED
    BY <1>2, <1>3, <2>2 DEF Receive, Flush
<1>4. ASSUME NEW a, EndFlush(a)
      PROVE  \E t : Sums(batch', t) /\ t[Len(batch')] = batchBytes'
  <2>1. batch' = held /\ batchBytes' = IF held = <<>> THEN 0 ELSE Weight(held[1])
    BY <1>4 DEF EndFlush, BytesAfterFlush
  <2>2. CASE held = <<>>
    BY <2>1, <2>2, SumsShort
  <2>3. ASSUME NEW e \in Event, held = <<e>>
        PROVE  \E t : Sums(batch', t) /\ t[Len(batch')] = batchBytes'
    <3>1. held # <<>> /\ held[1] = e
      BY <2>3
    <3> QED
      BY <2>1, <2>3, <3>1, SumsShort
  <2> QED
    BY <1>1, <2>2, <2>3
<1>5. CASE PutLogEvents
  BY <1>2, <1>4, <1>5 DEF PutLogEvents
<1>6. CASE Tick \/ SeeStop \/ Drained
  BY <1>2, <1>6 DEF Tick, SeeStop, Drained, Flush
<1>7. CASE UNCHANGED workerVars
  BY <1>2, <1>7 DEF workerVars
<1> QED
  BY <1>3, <1>5, <1>6, <1>7
     DEF Next, Worker, Begin, Check, Send, CloseStore, CloseStop, CloseAgain, CloseReturn,
         CancelRun, Terminated, vars

\* The count that decides whether an event still fits is the weight of the batch
\* in every reachable state, whatever was flushed, retried or held back.
THEOREM BytesExact == Spec => []BatchBytesExact
<1>1. Init => Summed
  BY SumsShort DEF Init, Summed
<1>2. TypeOK /\ Summed => BatchBytesExact
  <2> SUFFICES ASSUME TypeOK, Summed PROVE BatchBytesExact
    OBVIOUS
  <2>1. TotalWeight(batch) = (CHOOSE t : Sums(batch, t))[Len(batch)]
    BY DEF TotalWeight, Sums
  <2>2. PICK t : Sums(batch, t) /\ t[Len(batch)] = batchBytes
    BY DEF Summed
  <2>3. Sums(batch, CHOOSE u : Sums(batch, u))
    BY <2>2, Zenon
  <2>4. batch \in Seq(Event)
    BY DEF TypeOK, WorkerTypes
  <2>5. (CHOOSE u : Sums(batch, u)) = t
    BY <2>2, <2>3, <2>4, SumsUnique
  <2> QED
    BY <2>1, <2>2, <2>5 DEF BatchBytesExact
<1> QED
  BY <1>1, <1>2, TypeCorrect, NextSummed, PTL DEF Spec

----------------------------------------------------------------------------
(* The rest of what the worker promises. *)

\* The log stream holds each event at most once and in the order of
\* acceptance, although a batch may be sent several times.
THEOREM InOrderOnce == Spec => []StoredInOrderOnce
<1>1. IndInv => StoredInOrderOnce
  <2> SUFFICES ASSUME IndInv PROVE StoredInOrderOnce
    OBVIOUS
  <2>1. \A i, j \in DOMAIN stored : i < j => Precedes(accepted, stored[i], stored[j])
    BY DEF IndInv, StoredInv
  <2>2. ASSUME NEW i \in DOMAIN stored, NEW j \in DOMAIN stored, i < j, stored[i] = stored[j]
        PROVE  FALSE
    <3>1. PICK p, q \in DOMAIN accepted : p < q /\ accepted[p] = stored[i] /\ accepted[q] = stored[j]
      BY <2>1, <2>2 DEF Precedes
    <3>2. p = q
      BY <2>2, <3>1 DEF IndInv, AcceptedInv, IsInjective
    <3>3. p \in Nat /\ q \in Nat
      BY <3>1, LenProperties DEF IndInv, TypeOK, QueueTypes
    <3> QED
      BY <3>1, <3>2, <3>3
  <2>3. \A i \in DOMAIN stored : i \in Nat
    BY LenProperties DEF IndInv, TypeOK, WorkerTypes
  <2> QED
    BY <2>1, <2>2, <2>3 DEF StoredInOrderOnce, IsInjective
<1> QED
  BY <1>1, Inductive, PTL

\* No event that flush gave up disappears without a report.
THEOREM NoSilentLoss == Spec => []StoredOrReported
<1>1. IndInv => StoredOrReported
  BY DEF IndInv
<1> QED
  BY <1>1, Inductive, PTL

\* A Close that returns nil has waited for everything accepted before it closed
\* the stop channel.
THEOREM CloseWaits == Spec => []CloseFlushes
<1>1. IndInv => CloseFlushes
  BY DEF IndInv, MarkInv, CloseFlushes
<1> QED
  BY <1>1, Inductive, PTL

----------------------------------------------------------------------------
(* The accounts of the calls. *)

\* How a call's error and noteDrop account for the messages behind its position:
\* nothing is known of those ahead.
TrackInv ==
    \A c \in Call :
        /\ pc[c] = "idle" => next[c] = 1 /\ ~failed[c]
        /\ pc[c] = "returned" => next[c] = Messages[c] + 1 \/ (next[c] = 1 /\ failed[c])
        /\ pc[c] # "returned" \/ next[c] > 1 =>
              (failed[c] <=> \E i \in 1 .. next[c] - 1 : <<c, i>> \notin Range(accepted))
        /\ \A i \in 1 .. next[c] - 1 :
              \/ (<<c, i>> \in Range(accepted)) # (<<c, i>> \in dropped)
              \/ <<c, i>> \in Unencodable
              \/ c \in RunContext /\ runCancelled
        /\ \A e \in dropped : e[1] = c => e[2] < next[c]

\* What is accepted lies behind the position of its call.
LEMMA AcceptedBehind ==
    ASSUME TypeOK, AcceptedInv, NEW c \in Call, NEW i \in Nat, <<c, i>> \in Range(accepted)
    PROVE  i < next[c]
<1>1. PICK p \in DOMAIN accepted : accepted[p] = <<c, i>>
  BY DEF Range
<1>2. accepted[p][1] = c /\ accepted[p][2] = i
  BY <1>1
<1> QED
  BY <1>2 DEF AcceptedInv

\* A call goes past one message: it is accepted without an error, or there is an
\* error, and a drop unless the message could not be encoded or was cancelled.
LEMMA AdvanceTracks ==
    ASSUME TypeOK, CallInv, AcceptedInv, TrackInv,
           NEW c \in Call, pc[c] \in {"check", "send"}, NEW err \in BOOLEAN, Advance(c, err),
           runCancelled' = runCancelled,
           Range(accepted') = IF err THEN Range(accepted) ELSE Range(accepted) \cup {<<c, next[c]>>},
           \/ dropped' = dropped \cup {<<c, next[c]>>} /\ err
           \/ /\ dropped' = dropped
              /\ err => <<c, next[c]>> \in Unencodable \/ (c \in RunContext /\ runCancelled)
    PROVE  TrackInv'
<1>1. /\ next \in [Call -> Nat \ {0}] /\ failed \in [Call -> BOOLEAN]
      /\ pc \in [Call -> {"idle", "check", "send", "returned"}]
      /\ Messages[c] \in Nat \ {0} /\ next[c] =< Messages[c]
  BY SinkAssumption DEF TypeOK, CallTypes, CallInv
<1>2. /\ next' = [next EXCEPT ![c] = @ + 1]
      /\ failed' = [failed EXCEPT ![c] = @ \/ err]
      /\ pc' = [pc EXCEPT ![c] = IF next[c] = Messages[c] THEN "returned" ELSE "check"]
  BY DEF Advance
<1>3. <<c, next[c]>> \notin Range(accepted) /\ <<c, next[c]>> \notin dropped
  <2>1. <<c, next[c]>> \notin Range(accepted)
    BY <1>1, AcceptedBehind
  <2>2. ASSUME NEW e \in dropped, e = <<c, next[c]>> PROVE FALSE
    <3>1. e[1] = c /\ e[2] = next[c]
      BY <2>2
    <3> QED
      BY <1>1, <2>2, <3>1 DEF TrackInv
  <2> QED
    BY <2>1, <2>2
<1>4. ASSUME NEW d \in Call, NEW i \in Nat, ~(d = c /\ i = next[c])
      PROVE  /\ <<d, i>> \in Range(accepted') <=> <<d, i>> \in Range(accepted)
             /\ <<d, i>> \in dropped' <=> <<d, i>> \in dropped
  <2>1. <<d, i>> # <<c, next[c]>>
    BY <1>4
  <2> QED
    BY <2>1
<1>5. <<c, next[c]>> \in Range(accepted') <=> ~err
  BY <1>3
<1>6. next'[c] = next[c] + 1 /\ (failed'[c] <=> failed[c] \/ err)
      /\ pc'[c] = IF next[c] = Messages[c] THEN "returned" ELSE "check"
  BY <1>1, <1>2
<1>7. \A d \in Call \ {c} : next'[d] = next[d] /\ failed'[d] = failed[d] /\ pc'[d] = pc[d]
  BY <1>1, <1>2
<1>8. ASSUME NEW d \in Call
      PROVE  /\ pc'[d] = "idle" => next'[d] = 1 /\ ~failed'[d]
             /\ pc'[d] = "returned" => next'[d] = Messages[d] + 1 \/ (next'[d] = 1 /\ failed'[d])
  BY <1>1, <1>6, <1>7 DEF TrackInv
<1>9. ASSUME NEW d \in Call, pc'[d] # "returned" \/ next'[d] > 1
      PROVE  failed'[d] <=> \E i \in 1 .. next'[d] - 1 : <<d, i>> \notin Range(accepted')
  <2>1. CASE d = c
    <3>1. failed[c] <=> \E i \in 1 .. next[c] - 1 : <<c, i>> \notin Range(accepted)
      BY DEF TrackInv
    <3>2. (\E i \in 1 .. next[c] - 1 : <<c, i>> \notin Range(accepted))
             <=> (\E i \in 1 .. next[c] - 1 : <<c, i>> \notin Range(accepted'))
      BY <1>1, <1>4
    <3>3. 1 .. next'[c] - 1 = (1 .. next[c] - 1) \cup {next[c]}
      BY <1>1, <1>6
    <3>4. (\E i \in 1 .. next'[c] - 1 : <<c, i>> \notin Range(accepted'))
             <=> (\E i \in 1 .. next[c] - 1 : <<c, i>> \notin Range(accepted')) \/ err
      BY <1>5, <3>3
    <3> QED
      BY <1>6, <2>1, <3>1, <3>2, <3>4
  <2>2. CASE d # c
    <3>1. failed[d] <=> \E i \in 1 .. next[d] - 1 : <<d, i>> \notin Range(accepted)
      BY <1>7, <1>9, <2>2 DEF TrackInv
    <3>2. (\E i \in 1 .. next[d] - 1 : <<d, i>> \notin Range(accepted))
             <=> (\E i \in 1 .. next[d] - 1 : <<d, i>> \notin Range(accepted'))
      BY <1>1, <1>4, <2>2
    <3> QED
      BY <1>7, <2>2, <3>1, <3>2
  <2> QED
    BY <2>1, <2>2
<1>10. ASSUME NEW d \in Call, NEW i \in 1 .. next'[d] - 1
       PROVE  \/ (<<d, i>> \in Range(accepted')) # (<<d, i>> \in dropped')
              \/ <<d, i>> \in Unencodable
              \/ d \in RunContext /\ runCancelled'
  <2>1. CASE d = c /\ i = next[c]
    BY <1>3, <1>5, <2>1
  <2>2. CASE ~(d = c /\ i = next[c])
    <3>1. i \in 1 .. next[d] - 1 /\ i \in Nat
      BY <1>1, <1>6, <1>7, <1>10, <2>2
    <3> QED
      BY <1>4, <2>2, <3>1 DEF TrackInv
  <2> QED
    BY <2>1, <2>2
<1>11. ASSUME NEW e \in dropped' PROVE e[2] < next'[e[1]]
  <2>1. CASE e \in dropped
    <3>1. e[1] \in Call /\ e[2] \in Nat
      BY <2>1, EventElim, SinkAssumption DEF TypeOK, CallTypes
    <3>2. e[2] < next[e[1]]
      BY <2>1, <3>1 DEF TrackInv
    <3> QED
      BY <1>1, <1>6, <1>7, <3>1, <3>2
  <2>2. CASE e = <<c, next[c]>>
    BY <1>1, <1>6, <2>2
  <2> QED
    BY <1>11, <2>1, <2>2
<1> QED
  BY <1>8, <1>9, <1>10, <1>11 DEF TrackInv

\* Every step keeps the accounts.
LEMMA NextTrack == TypeOK /\ CallInv /\ AcceptedInv /\ TrackInv /\ [Next]_vars => TrackInv'
<1> SUFFICES ASSUME TypeOK, CallInv, AcceptedInv, TrackInv, [Next]_vars PROVE TrackInv'
  OBVIOUS
<1>1. CASE UNCHANGED <<callVars, accepted>>
  BY <1>1 DEF callVars, TrackInv
<1>2. ASSUME NEW c \in Call, Begin(c) PROVE TrackInv'
  <2>1. /\ pc \in [Call -> {"idle", "check", "send", "returned"}]
        /\ failed \in [Call -> BOOLEAN] /\ Refused(c) \in BOOLEAN
    BY DEF TypeOK, CallTypes, Refused
  <2>2. /\ UNCHANGED <<next, dropped, runCancelled, accepted>>
        /\ pc[c] = "idle"
        /\ pc' = [pc EXCEPT ![c] = IF Refused(c) THEN "returned" ELSE "check"]
        /\ failed' = [failed EXCEPT ![c] = Refused(c)]
    BY <1>2 DEF Begin
  <2>3. next[c] = 1 /\ ~failed[c]
    BY <2>2 DEF TrackInv
  <2>4. /\ failed'[c] = Refused(c) /\ pc'[c] = IF Refused(c) THEN "returned" ELSE "check"
        /\ \A d \in Call \ {c} : failed'[d] = failed[d] /\ pc'[d] = pc[d]
    BY <2>1, <2>2
  <2> QED
    BY <2>2, <2>3, <2>4 DEF TrackInv
<1>3. ASSUME NEW c \in Call, Check(c) PROVE TrackInv'
  <2>1. pc[c] = "check" /\ accepted' = accepted /\ runCancelled' = runCancelled
    BY <1>3 DEF Check
  <2>2. CASE /\ Advance(c, TRUE)
             /\ \/ dropped' = dropped \cup {<<c, next[c]>>}
                \/ /\ dropped' = dropped
                   /\ <<c, next[c]>> \in Unencodable \/ (c \in RunContext /\ runCancelled)
    BY <2>1, <2>2, AdvanceTracks
  <2>3. CASE pc' = [pc EXCEPT ![c] = "send"] /\ UNCHANGED <<next, failed, dropped>>
    <3>1. pc'[c] = "send" /\ \A d \in Call \ {c} : pc'[d] = pc[d]
      BY <2>3 DEF TypeOK, CallTypes
    <3> QED
      BY <2>1, <2>3, <3>1 DEF TrackInv
  <2> QED
    BY <1>3, <2>2, <2>3 DEF Check
<1>4. ASSUME NEW c \in Call, Send(c) PROVE TrackInv'
  <2>1. pc[c] = "send" /\ runCancelled' = runCancelled
    BY <1>4 DEF Send
  <2>2. <<c, next[c]>> \in Event /\ accepted \in Seq(Event)
    BY <1>4, EventIntro, SinkAssumption DEF Send, CallInv, TypeOK, CallTypes, QueueTypes
  <2>3. CASE /\ accepted' = Append(accepted, <<c, next[c]>>)
             /\ Advance(c, FALSE)
             /\ UNCHANGED dropped
    <3>1. Range(accepted') = Range(accepted) \cup {<<c, next[c]>>}
      <4>1. /\ DOMAIN accepted' = 1 .. Len(accepted) + 1 /\ DOMAIN accepted = 1 .. Len(accepted)
            /\ Len(accepted) \in Nat
            /\ \A i \in 1 .. Len(accepted) : accepted'[i] = accepted[i]
            /\ accepted'[Len(accepted) + 1] = <<c, next[c]>>
        BY <2>2, <2>3, AppendProperties, LenProperties
      <4>2. DOMAIN accepted' = DOMAIN accepted \cup {Len(accepted) + 1}
        BY <4>1
      <4> QED
        BY <4>1, <4>2 DEF Range
    <3> QED
      BY <2>1, <2>3, <3>1, AdvanceTracks
  <2>4. CASE /\ accepted' = accepted
             /\ Advance(c, TRUE)
             /\ dropped' = dropped \cup {<<c, next[c]>>}
    BY <2>1, <2>4, AdvanceTracks
  <2> QED
    BY <1>4, <2>3, <2>4 DEF Send
<1>5. CASE CancelRun
  BY <1>5 DEF CancelRun, TrackInv
<1> QED
  BY <1>1, <1>2, <1>3, <1>4, <1>5
     DEF Next, Worker, CloseStore, CloseStop, CloseAgain, CloseReturn, Receive, Tick, SeeStop,
         Drained, PutLogEvents, Terminated, vars

\* A call of Log, LogWithMetrics, LogHealthWithMetrics or Publish returns an error
\* exactly when one of its events was not enqueued, and each event it went past was
\* enqueued or counted as dropped, or could not be encoded, or came too late.
THEOREM CallsAccount == Spec => []CallsAccountForEvents
<1>1. Init => TrackInv
  BY DEF Init, TrackInv
<1>2. IndInv /\ TrackInv => CallsAccountForEvents
  <2> SUFFICES ASSUME IndInv, TrackInv, NEW c \in Call
               PROVE  /\ pc[c] = "returned" =>
                           (~failed[c] <=> \A i \in 1 .. Messages[c] : <<c, i>> \in Range(accepted))
                      /\ \A i \in 1 .. next[c] - 1 :
                           \/ (<<c, i>> \in Range(accepted)) # (<<c, i>> \in dropped)
                           \/ <<c, i>> \in Unencodable
                           \/ c \in RunContext /\ runCancelled
    BY DEF CallsAccountForEvents
  <2>1. Messages[c] \in Nat \ {0} /\ next[c] \in Nat
    BY SinkAssumption DEF IndInv, TypeOK, CallTypes
  <2>2. CASE pc[c] = "returned" /\ next[c] = Messages[c] + 1
    <3>1. next[c] - 1 = Messages[c] /\ next[c] > 1
      BY <2>1, <2>2
    <3>2. failed[c] <=> \E i \in 1 .. next[c] - 1 : <<c, i>> \notin Range(accepted)
      BY <3>1 DEF TrackInv
    <3> QED
      BY <2>2, <3>1, <3>2 DEF TrackInv
  <2>3. CASE pc[c] = "returned" /\ next[c] = 1 /\ failed[c]
    <3>1. <<c, 1>> \notin Range(accepted)
      BY <2>3, AcceptedBehind DEF IndInv
    <3> QED
      BY <2>1, <2>3, <3>1 DEF TrackInv
  <2> QED
    BY <2>2, <2>3 DEF TrackInv
<1>3. Spec => []TrackInv
  <2>1. IndInv /\ TrackInv /\ [Next]_vars => TrackInv'
    BY NextTrack DEF IndInv
  <2> QED
    BY <1>1, <2>1, Inductive, PTL DEF Spec
<1> QED
  BY <1>2, <1>3, Inductive, PTL

----------------------------------------------------------------------------
(* The sink implements the delivery service. *)

\* The middle of three sequences, by its place in the whole.
LEMMA Middle ==
    ASSUME NEW S, NEW s \in Seq(S), NEW t \in Seq(S), NEW u \in Seq(S),
           NEW all, all = (s \o t) \o u
    PROVE  /\ Len(all) = Len(s) + Len(t) + Len(u)
           /\ SubSeq(all, Len(s) + 1, Len(s) + Len(t)) = t
<1>1. /\ Len(s) \in Nat /\ Len(t) \in Nat /\ Len(u) \in Nat
      /\ s \o t \in Seq(S) /\ Len(s \o t) = Len(s) + Len(t)
      /\ all \in Seq(S) /\ Len(all) = Len(s) + Len(t) + Len(u)
  BY ConcatProperties, LenProperties
<1>2. \A i \in 1 .. Len(t) : all[Len(s) + i] = t[i]
  <2> SUFFICES ASSUME NEW i \in 1 .. Len(t) PROVE all[Len(s) + i] = t[i]
    OBVIOUS
  <2>1. Len(s) + i \in 1 .. Len(s \o t)
    BY <1>1
  <2>2. all[Len(s) + i] = (s \o t)[Len(s) + i] /\ (s \o t)[Len(s) + i] = t[i]
    BY <1>1, <2>1, ConcatProperties
  <2> QED
    BY <2>2
<1>3. \A i \in Len(s) + 1 .. Len(s) + Len(t) : all[i] \in S
  BY <1>1, ElementOfSeq
<1>4. /\ SubSeq(all, Len(s) + 1, Len(s) + Len(t)) \in Seq(S)
      /\ Len(SubSeq(all, Len(s) + 1, Len(s) + Len(t))) = Len(t)
      /\ \A i \in 1 .. Len(t) : SubSeq(all, Len(s) + 1, Len(s) + Len(t))[i] = all[Len(s) + i]
  <2>1. /\ Len(s) + 1 \in Int /\ Len(s) + Len(t) \in Int
        /\ (Len(s) + Len(t)) - (Len(s) + 1) + 1 = Len(t)
        /\ \A i \in 1 .. Len(t) : (Len(s) + 1) + i - 1 = Len(s) + i
    BY <1>1
  <2>2. /\ SubSeq(all, Len(s) + 1, Len(s) + Len(t)) \in Seq(S)
        /\ Len(SubSeq(all, Len(s) + 1, Len(s) + Len(t)))
             = IF Len(s) + 1 =< Len(s) + Len(t) THEN (Len(s) + Len(t)) - (Len(s) + 1) + 1 ELSE 0
        /\ \A i \in 1 .. (Len(s) + Len(t)) - (Len(s) + 1) + 1 :
              SubSeq(all, Len(s) + 1, Len(s) + Len(t))[i] = all[(Len(s) + 1) + i - 1]
    BY <1>3, <2>1, SubSeqProperties
  <2> QED
    BY <1>1, <2>1, <2>2
<1> QED
  BY <1>1, <1>2, <1>4, SeqEqual

\* Each step of the sink is a step of the delivery service, or invisible.
LEMMA StepRefines == IndInv /\ [Next]_vars => [Service!Next]_(Service!vars)
<1> SUFFICES ASSUME IndInv, [Next]_vars PROVE [Service!Next]_(Service!vars)
  OBVIOUS
<1>0. \A f : Service!Range(f) = Range(f)
  BY DEF Service!Range, Range
<1>1. /\ settled \in Seq(Event) /\ batch \in Seq(Event) /\ held \in Seq(Event)
      /\ queue \in Seq(Event) /\ held \o queue \in Seq(Event) /\ mark \in Nat
      /\ Len(settled) \in Nat /\ Len(batch) \in Nat /\ Len(held) \in Nat /\ Len(queue) \in Nat
      /\ Len(held \o queue) = Len(held) + Len(queue)
      /\ QueueSize \in Nat /\ MaxBatchSize \in Nat
  BY SinkAssumption, HeldSeq, ConcatProperties, LenProperties
     DEF IndInv, TypeOK, WorkerTypes, QueueTypes, CloseTypes
<1>2. /\ Len(accepted) = Len(settled) + Len(batch) + Len(held) + Len(queue)
      /\ SubSeq(accepted, Len(settled) + 1, Len(settled) + Len(batch)) = batch
  <2>1. settled \o batch \in Seq(Event)
    BY <1>1, ConcatProperties
  <2>2. accepted = (settled \o batch) \o (held \o queue)
    BY <1>1, <2>1, AssocAhead DEF IndInv, NothingLostOrReordered
  <2>3. /\ Len(accepted) = Len(settled) + Len(batch) + Len(held \o queue)
        /\ SubSeq(accepted, Len(settled) + 1, Len(settled) + Len(batch)) = batch
    BY <1>1, <2>2, Middle
  <2> QED
    BY <1>1, <2>3
<1>3. CASE UNCHANGED <<accepted, settled, stored, reported, stop, mark, worker>>
  BY <1>3 DEF Service!vars
<1>4. ASSUME NEW c \in Call, Send(c) PROVE [Service!Next]_(Service!vars)
  <2>1. <<c, next[c]>> \in Event /\ next[c] \in Nat
    BY <1>4, EventIntro, SinkAssumption DEF IndInv, Send, CallInv, TypeOK, CallTypes
  <2>2. CASE QueueHasRoom /\ accepted' = Append(accepted, <<c, next[c]>>)
    <3>1. <<c, next[c]>> \notin Range(accepted)
      BY <2>1, AcceptedBehind DEF IndInv
    <3>2. Len(accepted) < Len(settled) + (QueueSize + MaxBatchSize + 1)
      <4>1. Len(held) = 0 \/ Len(held) = 1
        <5>1. held = <<>> => Len(held) = 0
          BY EmptySeq
        <5>2. ASSUME NEW e, held = <<e>> PROVE Len(held) = 1
          BY <5>2
        <5>3. held = <<>> \/ \E e \in Event : held = <<e>>
          BY Zenon DEF IndInv, TypeOK, WorkerTypes
        <5> QED
          BY <5>1, <5>2, <5>3, Zenon
      <4>2. Len(queue) < QueueSize /\ Len(batch) =< MaxBatchSize
        BY <2>2 DEF QueueHasRoom, IndInv, BatchWithinLimits
      <4>3. CASE Len(held) = 0
        BY <1>1, <1>2, <4>2, <4>3
      <4>4. CASE Len(held) = 1
        BY <1>1, <1>2, <4>2, <4>4
      <4> QED
        BY <4>1, <4>3, <4>4
    <3>3. UNCHANGED <<settled, stored, reported, stop, mark, worker>>
      BY <1>4 DEF Send, closeVars, workerVars
    <3>4. Service!Accept(<<c, next[c]>>)
      BY <1>0, <2>2, <3>1, <3>2, <3>3 DEF Service!Accept
    <3> QED
      BY <2>1, <3>4 DEF Service!Next
  <2>3. CASE UNCHANGED accepted
    BY <1>3, <1>4, <2>3 DEF Send, closeVars, workerVars
  <2> QED
    BY <1>4, <2>2, <2>3 DEF Send
<1>5. ASSUME NEW k \in Closer, CloseStop(k) PROVE [Service!Next]_(Service!vars)
  <2>1. ~stop
    BY <1>5 DEF CloseStop, IndInv, StopInv
  <2> QED
    BY <1>5, <2>1 DEF CloseStop, workerVars, Service!Stop, Service!Next
<1>6. ASSUME NEW k \in Closer, CloseStore(k) \/ CloseAgain(k) \/ CloseReturn(k)
      PROVE  [Service!Next]_(Service!vars)
  BY <1>3, <1>6 DEF CloseStore, CloseAgain, CloseReturn, workerVars
<1>7. CASE Receive \/ Tick \/ SeeStop
  <2>1. UNCHANGED <<accepted, settled, stored, reported, stop, mark>> /\ worker # "done" /\ worker' # "done"
    BY <1>7 DEF Receive, Tick, SeeStop, Flush, closeVars
  <2> QED
    BY <2>1 DEF Service!vars
<1>8. CASE Drained
  <2>1. UNCHANGED <<accepted, settled, stored, reported, stop, mark>> /\ worker = "drain"
    BY <1>8 DEF Drained, Flush, closeVars
  <2>2. CASE worker' = "put"
    BY <2>1, <2>2 DEF Service!vars
  <2>3. CASE batch = <<>> /\ worker' = "done"
    <3>1. stop /\ Len(settled) >= mark
      <4>1. Len(batch) = 0 /\ Len(queue) = 0 /\ Len(held) = 0
        BY <1>8, <2>1, <2>3, EmptySeq DEF Drained, IndInv, FlushInv
      <4> QED
        BY <1>1, <1>2, <2>1, <4>1 DEF IndInv, StopInv, MarkInv
    <3>2. Service!Finish
      BY <2>1, <2>3, <3>1 DEF Service!Finish, Service!MayFinish
    <3> QED
      BY <3>2 DEF Service!Next
  <2> QED
    BY <1>8, <2>2, <2>3 DEF Drained, Flush
<1>9. CASE PutLogEvents
  <2>1. worker = "put" /\ UNCHANGED <<accepted, stop, mark>>
    BY <1>9 DEF PutLogEvents, closeVars
  <2>2. CASE UNCHANGED <<settled, stored, reported, worker>>
    BY <1>3, <2>1, <2>2
  <2>3. CASE /\ settled' = settled \o batch /\ worker' = resume
             /\ \/ stored' = stored \o batch /\ reported' = reported
                \/ stored' \in {stored, stored \o batch} /\ reported' = reported \cup Range(batch)
    <3>1. Len(batch) \in 1 .. MaxBatchSize
      <4>1. batch # <<>> /\ Len(batch) =< MaxBatchSize
        BY <2>1 DEF IndInv, FlushInv, BatchWithinLimits
      <4> QED
        BY <1>1, <4>1, EmptySeq
    <3>2. Len(settled) + Len(batch) =< Len(accepted)
      BY <1>1, <1>2
    <3>3. (worker' = "done") \in {FALSE, stop /\ Len(settled') >= mark}
      <4>1. Len(settled') = Len(settled) + Len(batch)
        BY <1>1, <2>3, ConcatProperties
      <4>2. resume = "done" => (stop /\ Len(settled') >= mark)
        BY <1>1, <2>1, <4>1 DEF IndInv, StopInv, MarkInv
      <4> QED
        BY <2>3, <4>2
    <3>4. Service!Settle(Len(batch))
      BY <1>0, <1>2, <2>1, <2>3, <3>2, <3>3 DEF Service!Settle, Service!MayFinish
    <3> QED
      BY <3>1, <3>4 DEF Service!Next
  <2> QED
    BY <1>9, <2>2, <2>3, PutEffect
<1>10. CASE UNCHANGED <<closeVars, workerVars, accepted>>
  BY <1>3, <1>10 DEF closeVars, workerVars
<1> QED
  BY <1>4, <1>5, <1>6, <1>7, <1>8, <1>9, <1>10
     DEF Next, Worker, Begin, Check, CancelRun, Terminated, vars

\* The sink implements the delivery service: events are settled in the order of
\* acceptance, a batch at a time and none twice, at most the queue, a batch and one
\* event in hand are outstanding, a lost batch is reported, and the worker leaves
\* only when the stop is served.
THEOREM Implements == Spec => ServiceSpec
<1>1. Init => Service!Init
  BY DEF Init, Service!Init
<1>2. Spec => Service!Spec
  BY <1>1, StepRefines, Inductive, PTL DEF Spec, Service!Spec
<1> QED
  BY <1>2 DEF ServiceSpec
=============================================================================
