----------------------- MODULE MetricsPublisherProofs -----------------------
(***************************************************************************)
(* Proofs about MetricsPublisher for every number of calls, data and       *)
(* closers and every capacity: nil is kept, and the publisher implements   *)
(* the delivery service.                                                   *)
(***************************************************************************)
EXTENDS MetricsPublisher, SequenceTheorems, TLAPS

(***************************************************************************)
(* The inductive invariant.                                                *)
(***************************************************************************)

CallTypes ==
    /\ next \in [Call -> Nat]
    /\ outcome \in [Call -> {"none", "nil", "error"}]
    /\ returned \subseteq Call

QueueTypes ==
    /\ queue \in Seq(Datum) /\ Len(queue) =< QueueSize
    /\ accepted \in Seq(Datum)

CloseTypes ==
    /\ closed \in BOOLEAN /\ stop \in BOOLEAN
    /\ closer \in [Closer -> {"idle", "waiting", "nil", "deadline"}]
    /\ mark \in Nat

WorkerTypes ==
    /\ worker \in {"select", "drain", "put", "done"}
    /\ resume \in {"select", "drain", "done"}
    /\ batch \in Seq(Datum) /\ settled \in Seq(Datum)

Types == CallTypes /\ QueueTypes /\ CloseTypes /\ WorkerTypes

\* A call that has begun and not returned has data left; one that would return
\* nil has had every datum behind its position accepted, and returns nil only
\* from the end of its data.
CallInv ==
    \A c \in Call :
        /\ c \in returned => next[c] > 0
        /\ Sending(c) => next[c] =< Data[c]
        /\ c \in returned /\ outcome[c] = "nil" => next[c] > Data[c]
        /\ outcome[c] = "nil" => \A i \in 1 .. next[c] - 1 : <<c, i>> \in Range(accepted)

\* An accepted datum lies behind the position of its call, so that none is
\* accepted twice.
AcceptedInv ==
    /\ \A i \in DOMAIN accepted : accepted[i][2] < next[accepted[i][1]]
    /\ IsInjective(accepted)

\* The worker neither loses, doubles nor moves a datum.
FIFO == accepted = (settled \o batch) \o queue

\* resume is in use only during a Put, of a batch that is not empty; outside of
\* it there is room in the batch.
BatchInv ==
    /\ Len(batch) =< MaxBatchSize
    /\ worker # "put" => resume = "select" /\ Len(batch) < MaxBatchSize
    /\ worker = "put" => batch # <<>>

\* The worker leaves its select only after the stop, and is done, or makes its
\* last Put, only with everything accepted before the stop.
StopInv ==
    /\ worker \in {"drain", "done"} \/ resume \in {"drain", "done"} => stop
    /\ worker = "done" => Len(settled) >= mark
    /\ worker = "put" /\ resume = "done" => Len(settled) + Len(batch) >= mark
    /\ mark =< Len(accepted)
    /\ \A k \in Closer : closer[k] = "nil" => worker = "done"

IndInv ==
    /\ Types
    /\ CallInv
    /\ AcceptedInv
    /\ FIFO
    /\ BatchInv
    /\ StopInv

----------------------------------------------------------------------------
(* Facts about data and sequences. *)

\* <<c, i>> is a datum when i numbers one of the data of call c.
LEMMA DatumIntro ==
    ASSUME NEW c \in Call, NEW i \in 1 .. Data[c]
    PROVE  <<c, i>> \in Datum
BY DEF Datum

\* Every datum is the i-th of some call.
LEMMA DatumElim ==
    ASSUME NEW d \in Datum
    PROVE  d[1] \in Call /\ d[2] \in Nat
BY PublisherAssumption DEF Datum

\* Associativity, in the form the provers find.
LEMMA Associates ==
    ASSUME NEW S, NEW s \in Seq(S), NEW t \in Seq(S), NEW u \in Seq(S),
           NEW all, all = (s \o t) \o u,
           NEW last, last = t \o u
    PROVE  all = s \o last
BY ConcatAssociative

\* Moving the head of the second sequence to the end of the first.
LEMMA HeadMoves ==
    ASSUME NEW S, NEW s \in Seq(S), NEW t \in Seq(S), t # <<>>
    PROVE  s \o t = Append(s, Head(t)) \o Tail(t)
<1>1. Head(t) \in S /\ Tail(t) \in Seq(S) /\ Append(s, Head(t)) \in Seq(S)
  BY HeadTailProperties, AppendProperties
<1>2. /\ s \o t \in Seq(S) /\ Len(s \o t) = Len(s) + Len(t)
      /\ Append(s, Head(t)) \o Tail(t) \in Seq(S)
      /\ Len(Append(s, Head(t)) \o Tail(t)) = Len(s) + Len(t)
  <2>1. Len(Append(s, Head(t))) = Len(s) + 1 /\ Len(Tail(t)) = Len(t) - 1
    BY <1>1, HeadTailProperties, AppendProperties
  <2> QED
    BY <1>1, <2>1, ConcatProperties, LenProperties
<1>3. \A i \in 1 .. Len(s \o t) : (s \o t)[i] = (Append(s, Head(t)) \o Tail(t))[i]
  BY <1>1, <1>2, ConcatProperties, HeadTailProperties, AppendProperties, LenProperties
<1> QED
  BY <1>2, <1>3, SeqEqual

\* The middle of three sequences, by its place in the whole.
LEMMA Middle ==
    ASSUME NEW S, NEW s \in Seq(S), NEW t \in Seq(S), NEW u \in Seq(S),
           NEW all, all = (s \o t) \o u
    PROVE  /\ Len(all) = Len(s) + Len(t) + Len(u)
           /\ SubSeq(all, Len(s) + 1, Len(s) + Len(t)) = t
<1>1. /\ Len(s) \in Nat /\ Len(t) \in Nat /\ Len(u) \in Nat
      /\ s \o t \in Seq(S) /\ Len(s \o t) = Len(s) + Len(t)
      /\ all \in Seq(S) /\ Len(all) = Len(s) + Len(t) + Len(u)
  BY ConcatProperties, LenProperties
<1>2. \A i \in 1 .. Len(t) : all[Len(s) + i] = t[i]
  <2> SUFFICES ASSUME NEW i \in 1 .. Len(t) PROVE all[Len(s) + i] = t[i]
    OBVIOUS
  <2>1. Len(s) + i \in 1 .. Len(s \o t)
    BY <1>1
  <2>2. all[Len(s) + i] = (s \o t)[Len(s) + i]
    BY <1>1, <2>1, ConcatProperties
  <2>3. (s \o t)[Len(s) + i] = t[i]
    BY <1>1, <2>1, ConcatProperties
  <2> QED
    BY <2>2, <2>3
<1>3. \A i \in Len(s) + 1 .. Len(s) + Len(t) : all[i] \in S
  BY <1>1, ElementOfSeq
<1>4. /\ SubSeq(all, Len(s) + 1, Len(s) + Len(t)) \in Seq(S)
      /\ Len(SubSeq(all, Len(s) + 1, Len(s) + Len(t))) = Len(t)
      /\ \A i \in 1 .. Len(t) :
            SubSeq(all, Len(s) + 1, Len(s) + Len(t))[i] = all[Len(s) + i]
  <2>1. Len(s) + 1 \in Int /\ Len(s) + Len(t) \in Int
        /\ (Len(s) + Len(t)) - (Len(s) + 1) + 1 = Len(t)
        /\ \A i \in 1 .. Len(t) : (Len(s) + 1) + i - 1 = Len(s) + i
    BY <1>1
  <2>2. /\ SubSeq(all, Len(s) + 1, Len(s) + Len(t)) \in Seq(S)
        /\ Len(SubSeq(all, Len(s) + 1, Len(s) + Len(t)))
             = IF Len(s) + 1 =< Len(s) + Len(t) THEN (Len(s) + Len(t)) - (Len(s) + 1) + 1 ELSE 0
        /\ \A i \in 1 .. (Len(s) + Len(t)) - (Len(s) + 1) + 1 :
              SubSeq(all, Len(s) + 1, Len(s) + Len(t))[i] = all[(Len(s) + 1) + i - 1]
    BY <1>3, <2>1, SubSeqProperties
  <2> QED
    BY <1>1, <2>1, <2>2
<1> QED
  BY <1>1, <1>2, <1>4, SeqEqual

----------------------------------------------------------------------------
(* Every step keeps the invariant. *)

LEMMA InitInv == Init => IndInv
<1> SUFFICES ASSUME Init PROVE IndInv
  OBVIOUS
<1> USE PublisherAssumption DEF Init
<1>1. CallTypes /\ QueueTypes /\ WorkerTypes
  BY DEF CallTypes, QueueTypes, WorkerTypes
<1>2. CloseTypes
  BY DEF CloseTypes
<1>3. CallInv
  BY DEF CallInv, Sending
<1>4. AcceptedInv
  BY DEF AcceptedInv, IsInjective
<1>5. FIFO
  BY ConcatEmptySeq, EmptySeq DEF FIFO
<1>6. BatchInv /\ StopInv
  BY DEF BatchInv, StopInv
<1> QED
  BY <1>1, <1>2, <1>3, <1>4, <1>5, <1>6 DEF IndInv, Types

\* The datum a call is about to send.
LEMMA SendingDatum ==
    ASSUME CallTypes, CallInv, NEW c \in Call, Sending(c)
    PROVE  <<c, next[c]>> \in Datum /\ next[c] \in 1 .. Data[c]
<1>1. next[c] \in 1 .. Data[c]
  BY PublisherAssumption DEF CallTypes, CallInv, Sending
<1> QED
  BY <1>1, DatumIntro

LEMMA NextTypes == Types /\ CallInv /\ [Next]_vars => Types'
<1> SUFFICES ASSUME Types, CallInv, [Next]_vars PROVE Types'
  OBVIOUS
<1> USE PublisherAssumption
<1>a. /\ UNCHANGED callVars => CallTypes'
      /\ UNCHANGED closeVars => CloseTypes'
      /\ UNCHANGED <<worker, resume, batch, settled>> => WorkerTypes'
      /\ UNCHANGED <<queue, accepted>> => QueueTypes'
  <2>1. UNCHANGED callVars => CallTypes'
    BY DEF Types, callVars, CallTypes
  <2>2. UNCHANGED closeVars => CloseTypes'
    BY DEF Types, closeVars, CloseTypes
  <2>3. UNCHANGED <<worker, resume, batch, settled>> => WorkerTypes'
    BY DEF Types, WorkerTypes
  <2>4. UNCHANGED <<queue, accepted>> => QueueTypes'
    BY DEF Types, QueueTypes
  <2> QED
    BY <2>1, <2>2, <2>3, <2>4
<1>1. ASSUME NEW c \in Call, Begin(c) \/ ContextDone(c) PROVE Types'
  <2>1. CallTypes'
    BY <1>1 DEF Begin, ContextDone, Types, CallTypes
  <2> QED
    BY <1>a, <1>1, <2>1 DEF Begin, ContextDone, Types, workerVars
<1>2. ASSUME NEW c \in Call, Enqueue(c) PROVE Types'
  <2>1. CallTypes'
    BY <1>2 DEF Enqueue, Fail, Types, CallTypes
  <2>2. <<c, next[c]>> \in Datum
    BY <1>2, SendingDatum DEF Enqueue, Types
  <2>3. QueueTypes'
    <3>1. CASE /\ HasRoom
               /\ queue' = Append(queue, <<c, next[c]>>)
               /\ accepted' = Append(accepted, <<c, next[c]>>)
      BY <2>2, <3>1, AppendProperties, LenProperties DEF Types, QueueTypes, HasRoom
    <3>2. CASE UNCHANGED <<queue, accepted>>
      BY <1>a, <3>2
    <3> QED
      BY <1>2, <3>1, <3>2 DEF Enqueue
  <2> QED
    BY <1>a, <1>2, <2>1, <2>3 DEF Enqueue, Types, workerVars
<1>3. ASSUME CloseStop \/ (\E k \in Closer : CloseStore(k) \/ CloseWait(k) \/ CloseReturn(k))
      PROVE  Types'
  <2>1. CloseTypes'
    <3>1. closed' \in BOOLEAN /\ stop' \in BOOLEAN
      BY <1>3 DEF CloseStop, CloseStore, CloseWait, CloseReturn, Types, CloseTypes
    <3>2. closer' \in [Closer -> {"idle", "waiting", "nil", "deadline"}]
      BY <1>3 DEF CloseStop, CloseStore, CloseWait, CloseReturn, Types, CloseTypes
    <3>3. mark' \in Nat
      BY <1>3, LenProperties
         DEF CloseStop, CloseStore, CloseWait, CloseReturn, Types, CloseTypes, QueueTypes
    <3> QED
      BY <3>1, <3>2, <3>3 DEF CloseTypes
  <2> QED
    BY <1>a, <1>3, <2>1 DEF CloseStop, CloseStore, CloseWait, CloseReturn, Types, workerVars
<1>4. CASE Receive
  <2>1. /\ Head(queue) \in Datum /\ Tail(queue) \in Seq(Datum) /\ Len(Tail(queue)) = Len(queue) - 1
        /\ Len(queue) \in Nat
    BY <1>4, HeadTailProperties, LenProperties DEF Receive, Types, QueueTypes
  <2>2. QueueTypes'
    BY <1>4, <2>1 DEF Receive, Types, QueueTypes
  <2>3. WorkerTypes'
    BY <1>4, <2>1, AppendProperties DEF Receive, Types, WorkerTypes
  <2> QED
    BY <1>a, <1>4, <2>2, <2>3 DEF Receive, Types
<1>5. CASE Tick \/ SeeStop \/ Drained
  <2>1. WorkerTypes'
    BY <1>5 DEF Tick, SeeStop, Drained, Types, WorkerTypes
  <2> QED
    BY <1>a, <1>5, <2>1 DEF Tick, SeeStop, Drained, Types
<1>6. CASE Put
  <2>1. settled \o batch \in Seq(Datum)
    BY ConcatProperties DEF Types, WorkerTypes
  <2>2. WorkerTypes'
    BY <1>6, <2>1 DEF Put, Types, WorkerTypes
  <2> QED
    BY <1>a, <1>6, <2>2 DEF Put, Types
<1>7. CASE UNCHANGED vars
  BY <1>a, <1>7 DEF vars, Types, workerVars
<1> QED
  BY <1>1, <1>2, <1>3, <1>4, <1>5, <1>6, <1>7 DEF Next, Worker, Terminated

\* Only Enqueue touches what was accepted and where a call is in its data.
LEMMA OthersAccept ==
    ASSUME [Next]_vars, ~\E c \in Call : Begin(c) \/ ContextDone(c) \/ Enqueue(c)
    PROVE  UNCHANGED <<callVars, accepted>>
BY DEF Next, Worker, CloseStop, CloseStore, CloseWait, CloseReturn, Receive, Tick, SeeStop, Drained,
       Put, Terminated, vars

\* A datum enters once, and the outcome of its call knows of each that did not.
LEMMA NextCalls == Types /\ CallInv /\ AcceptedInv /\ [Next]_vars => CallInv' /\ AcceptedInv'
<1> SUFFICES ASSUME Types, CallInv, AcceptedInv, [Next]_vars PROVE CallInv' /\ AcceptedInv'
  OBVIOUS
<1>1. /\ accepted \in Seq(Datum) /\ next \in [Call -> Nat]
      /\ outcome \in [Call -> {"none", "nil", "error"}] /\ returned \subseteq Call
      /\ \A c \in Call : Data[c] \in Nat
  BY PublisherAssumption DEF Types, QueueTypes, CallTypes
<1>2. \A i \in DOMAIN accepted : accepted[i][1] \in Call /\ accepted[i][2] \in Nat
  BY <1>1, DatumElim, ElementOfSeq, LenProperties
<1>3. ASSUME NEW c \in Call, Begin(c) PROVE CallInv' /\ AcceptedInv'
  <2>1. /\ next[c] = 0 /\ next' = [next EXCEPT ![c] = 1] /\ accepted' = accepted
        /\ outcome' = [outcome EXCEPT ![c] = IF closed /\ Data[c] > 0 THEN "error" ELSE "nil"]
        /\ returned' = IF closed \/ Data[c] = 0 THEN returned \cup {c} ELSE returned
    BY <1>3 DEF Begin
  <2>2. ASSUME NEW d \in Call
        PROVE  /\ d \in returned' => next'[d] > 0
               /\ Sending(d)' => next'[d] =< Data[d]
               /\ d \in returned' /\ outcome'[d] = "nil" => next'[d] > Data[d]
               /\ outcome'[d] = "nil" => \A i \in 1 .. next'[d] - 1 : <<d, i>> \in Range(accepted')
    <3>1. CASE d = c
      <4>1. next'[d] = 1 /\ d \notin returned
        BY <1>1, <2>1, <3>1 DEF CallInv
      <4>2. d \notin returned' => Data[d] # 0
        BY <2>1, <3>1
      <4>3. d \in returned' /\ outcome'[d] = "nil" => Data[d] = 0
        BY <1>1, <2>1, <3>1, <4>1
      <4> QED
        BY <1>1, <4>1, <4>2, <4>3 DEF Sending
    <3>2. CASE d # c
      BY <1>1, <2>1, <3>2 DEF Sending, CallInv
    <3> QED
      BY <3>1, <3>2
  <2>3. AcceptedInv'
    BY <1>1, <1>2, <2>1 DEF AcceptedInv
  <2> QED
    BY <2>2, <2>3 DEF CallInv
<1>4. ASSUME NEW c \in Call, ContextDone(c) PROVE CallInv' /\ AcceptedInv'
  <2>1. /\ next[c] > 0 /\ UNCHANGED <<next, accepted>> /\ returned' = returned \cup {c}
        /\ outcome' = [outcome EXCEPT ![c] = "error"]
    BY <1>4 DEF ContextDone, Sending
  <2>2. CallInv'
    BY <1>1, <2>1 DEF Sending, CallInv
  <2> QED
    BY <2>1, <2>2 DEF AcceptedInv
<1>5. ASSUME NEW c \in Call, Enqueue(c) PROVE CallInv' /\ AcceptedInv'
  <2> DEFINE e == <<c, next[c]>>
  <2>1. e \in Datum /\ next[c] \in 1 .. Data[c]
    BY <1>5, SendingDatum DEF Enqueue, Types
  <2>2. /\ next' = [next EXCEPT ![c] = @ + 1]
        /\ returned' = IF next[c] = Data[c] THEN returned \cup {c} ELSE returned
        /\ c \notin returned
    BY <1>5 DEF Enqueue, Sending
  <2>3. /\ \A d \in Call : next'[d] \in Nat /\ next[d] =< next'[d]
        /\ next'[c] = next[c] + 1
        /\ \A d \in Call \ {c} : next'[d] = next[d] /\ (d \in returned' <=> d \in returned)
    BY <1>1, <2>2
  <2>4. CASE accepted' = Append(accepted, e) /\ outcome' = outcome
    <3>1. e[1] = c /\ e[2] = next[c] /\ next[c] \in Nat
      BY <1>1
    <3>2. \A i \in DOMAIN accepted : accepted[i] # e
      BY <1>1, <1>2, <3>1 DEF AcceptedInv
    <3> HIDE DEF e
    <3>3. /\ DOMAIN accepted' = 1 .. Len(accepted) + 1
          /\ DOMAIN accepted = 1 .. Len(accepted)
          /\ Len(accepted) \in Nat
          /\ \A i \in 1 .. Len(accepted) : accepted'[i] = accepted[i]
          /\ accepted'[Len(accepted) + 1] = e
      BY <1>1, <2>1, <2>4, AppendProperties, LenProperties
    <3>4. ASSUME NEW i \in DOMAIN accepted' PROVE accepted'[i][2] < next'[accepted'[i][1]]
      <4>1. CASE i \in 1 .. Len(accepted)
        BY <1>1, <1>2, <2>3, <3>3, <4>1 DEF AcceptedInv
      <4>2. CASE i = Len(accepted) + 1
        BY <2>3, <3>1, <3>3, <4>2
      <4> QED
        BY <3>3, <4>1, <4>2
    <3>5. ASSUME NEW i \in DOMAIN accepted', NEW j \in DOMAIN accepted', accepted'[i] = accepted'[j]
          PROVE  i = j
      BY <3>2, <3>3, <3>5 DEF AcceptedInv, IsInjective
    <3>6. Range(accepted) \subseteq Range(accepted') /\ e \in Range(accepted')
      BY <3>3 DEF Range
    <3>7. ASSUME NEW d \in Call, outcome'[d] = "nil", NEW i \in 1 .. next'[d] - 1
          PROVE  <<d, i>> \in Range(accepted')
      <4>1. CASE d = c /\ i = next[c]
        BY <3>6, <4>1 DEF e
      <4>2. CASE ~(d = c /\ i = next[c])
        <5>1. i \in 1 .. next[d] - 1
          BY <1>1, <2>3, <3>7, <4>2
        <5> QED
          BY <2>4, <3>6, <3>7, <5>1 DEF CallInv
      <4> QED
        BY <4>1, <4>2
    <3>8. ASSUME NEW d \in Call
          PROVE  /\ d \in returned' => next'[d] > 0
                 /\ Sending(d)' => next'[d] =< Data[d]
                 /\ d \in returned' /\ outcome'[d] = "nil" => next'[d] > Data[d]
      BY <1>1, <2>1, <2>2, <2>3, <2>4 DEF CallInv, Sending
    <3> QED
      BY <3>4, <3>5, <3>7, <3>8 DEF AcceptedInv, IsInjective, CallInv
  <2>5. CASE accepted' = accepted /\ outcome' = [outcome EXCEPT ![c] = "error"]
    <3>1. AcceptedInv'
      BY <1>1, <1>2, <2>3, <2>5 DEF AcceptedInv
    <3>2. CallInv'
      BY <1>1, <2>1, <2>2, <2>3, <2>5 DEF CallInv, Sending
    <3> QED
      BY <3>1, <3>2
  <2> QED
    BY <1>5, <2>4, <2>5 DEF Enqueue, Fail
<1>6. CASE UNCHANGED <<callVars, accepted>>
  BY <1>6 DEF callVars, CallInv, Sending, AcceptedInv
<1> QED
  BY <1>3, <1>4, <1>5, <1>6, OthersAccept

\* The worker moves the head of the queue to the end of its batch, and a whole
\* batch to the end of what is settled.
LEMMA NextFIFO == Types /\ CallInv /\ FIFO /\ [Next]_vars => FIFO'
<1> SUFFICES ASSUME Types, CallInv, FIFO, [Next]_vars PROVE FIFO'
  OBVIOUS
<1>1. /\ settled \in Seq(Datum) /\ batch \in Seq(Datum) /\ queue \in Seq(Datum)
      /\ settled \o batch \in Seq(Datum)
  BY ConcatProperties DEF Types, WorkerTypes, QueueTypes
<1>2. CASE UNCHANGED <<accepted, settled, batch, queue>>
  BY <1>2 DEF FIFO
<1>3. ASSUME NEW c \in Call, Enqueue(c) PROVE FIFO'
  <2>1. <<c, next[c]>> \in Datum
    BY <1>3, SendingDatum DEF Enqueue, Types
  <2>2. CASE /\ queue' = Append(queue, <<c, next[c]>>)
             /\ accepted' = Append(accepted, <<c, next[c]>>)
    <3>1. <<(<<c, next[c]>>)>> \in Seq(Datum) /\ accepted \in Seq(Datum)
      BY <2>1 DEF Types, QueueTypes
    <3>2. /\ accepted' = accepted \o <<(<<c, next[c]>>)>>
          /\ queue' = queue \o <<(<<c, next[c]>>)>>
      BY <1>1, <2>1, <2>2, <3>1, AppendIsConcat
    <3>3. accepted' = (settled \o batch) \o queue'
      BY <1>1, <3>1, <3>2, ConcatAssociative DEF FIFO
    <3> QED
      BY <1>3, <3>3 DEF Enqueue, workerVars, FIFO
  <2>3. CASE UNCHANGED <<queue, accepted>>
    BY <1>2, <1>3, <2>3 DEF Enqueue, workerVars
  <2> QED
    BY <1>3, <2>2, <2>3 DEF Enqueue
<1>4. CASE Receive
  <2>1. /\ queue # <<>> /\ queue' = Tail(queue) /\ UNCHANGED <<accepted, settled>>
        /\ batch' = Append(batch, Head(queue)) /\ Head(queue) \in Datum
    BY <1>1, <1>4, HeadTailProperties DEF Receive
  <2>2. accepted = Append(settled \o batch, Head(queue)) \o queue'
    BY <1>1, <2>1, HeadMoves DEF FIFO
  <2>3. Append(settled \o batch, Head(queue)) = settled \o batch'
    <3>1. <<Head(queue)>> \in Seq(Datum)
      BY <2>1
    <3>2. batch' = batch \o <<Head(queue)>>
      BY <1>1, <2>1, AppendIsConcat
    <3>3. Append(settled \o batch, Head(queue)) = (settled \o batch) \o <<Head(queue)>>
      BY <1>1, <2>1, AppendIsConcat
    <3>4. (settled \o batch) \o <<Head(queue)>> = settled \o batch'
      BY <1>1, <3>1, <3>2, Associates
    <3> QED
      BY <3>3, <3>4, Zenon
  <2> QED
    BY <2>1, <2>2, <2>3 DEF FIFO
<1>5. CASE Put
  <2>1. /\ settled' = settled \o batch /\ batch' = <<>> /\ UNCHANGED <<queue, accepted>>
    BY <1>5 DEF Put
  <2>2. settled' \o batch' = settled \o batch
    BY <1>1, <2>1, ConcatEmptySeq
  <2> QED
    BY <2>1, <2>2 DEF FIFO
<1>6. CASE Tick \/ SeeStop \/ Drained
  BY <1>2, <1>6 DEF Tick, SeeStop, Drained
<1>7. CASE UNCHANGED <<workerVars, queue, accepted>>
  BY <1>2, <1>7 DEF workerVars
<1> QED
  BY <1>3, <1>4, <1>5, <1>6, <1>7
     DEF Next, Worker, Begin, ContextDone, CloseStop, CloseStore, CloseWait, CloseReturn, Terminated,
         vars

\* A batch is put as soon as it is full.
LEMMA NextBatch == Types /\ BatchInv /\ [Next]_vars => BatchInv'
<1> SUFFICES ASSUME Types, BatchInv, [Next]_vars PROVE BatchInv'
  OBVIOUS
<1>1. /\ batch \in Seq(Datum) /\ queue \in Seq(Datum) /\ Len(batch) \in Nat
      /\ MaxBatchSize \in Nat \ {0}
  BY PublisherAssumption, LenProperties DEF Types, WorkerTypes, QueueTypes
<1>2. CASE UNCHANGED <<worker, resume, batch>>
  BY <1>2 DEF BatchInv
<1>3. CASE Receive
  <2>1. batch' = Append(batch, Head(queue)) /\ Head(queue) \in Datum /\ worker # "put"
    BY <1>1, <1>3, HeadTailProperties DEF Receive
  <2>2. Len(batch') = Len(batch) + 1 /\ batch' # <<>>
    BY <1>1, <2>1, AppendProperties
  <2> QED
    BY <1>1, <1>3, <2>1, <2>2 DEF Receive, BatchInv
<1>4. CASE Tick \/ SeeStop \/ Drained
  BY <1>4 DEF Tick, SeeStop, Drained, BatchInv
<1>5. CASE Put
  <2>1. batch' = <<>> /\ Len(batch') = 0 /\ worker' = resume /\ resume' = "select" /\ resume # "put"
    BY <1>5, EmptySeq DEF Put, Types, WorkerTypes
  <2> QED
    BY <1>1, <2>1 DEF BatchInv
<1>6. CASE UNCHANGED workerVars
  BY <1>2, <1>6 DEF workerVars
<1> QED
  BY <1>3, <1>4, <1>5, <1>6
     DEF Next, Worker, Begin, ContextDone, Enqueue, CloseStop, CloseStore, CloseWait, CloseReturn,
         Terminated, vars

\* The worker does not finish before it is through with what was accepted before
\* the stop.
LEMMA NextStop ==
    Types /\ CallInv /\ FIFO /\ BatchInv /\ StopInv /\ [Next]_vars => StopInv'
<1> SUFFICES ASSUME Types, CallInv, FIFO, BatchInv, StopInv, [Next]_vars PROVE StopInv'
  OBVIOUS
<1>1. /\ closer \in [Closer -> {"idle", "waiting", "nil", "deadline"}] /\ mark \in Nat
      /\ accepted \in Seq(Datum) /\ settled \in Seq(Datum) /\ batch \in Seq(Datum)
      /\ Len(accepted) \in Nat /\ Len(settled) \in Nat /\ Len(batch) \in Nat
  BY LenProperties DEF Types, CloseTypes, QueueTypes, WorkerTypes
<1>2. ASSUME NEW c \in Call, Begin(c) \/ ContextDone(c) \/ Enqueue(c) PROVE StopInv'
  <2>1. UNCHANGED <<closeVars, workerVars>>
    BY <1>2 DEF Begin, ContextDone, Enqueue
  <2>2. Len(accepted') \in Nat /\ Len(accepted') >= Len(accepted)
    <3>1. CASE accepted' = accepted
      BY <1>1, <3>1
    <3>2. CASE Sending(c) /\ accepted' = Append(accepted, <<c, next[c]>>)
      BY <1>1, <3>2, SendingDatum, AppendProperties DEF Types
    <3> QED
      BY <1>2, <3>1, <3>2 DEF Begin, ContextDone, Enqueue
  <2> QED
    BY <1>1, <2>1, <2>2 DEF StopInv, closeVars, workerVars
<1>3. CASE CloseStop
  <2>1. /\ UNCHANGED <<accepted, closer, worker, resume, settled, batch>>
        /\ mark' = Len(accepted) /\ stop' = TRUE
        /\ worker # "done" /\ resume # "done"
    BY <1>3 DEF CloseStop, StopInv, workerVars
  <2> QED
    BY <1>1, <2>1 DEF StopInv
<1>4. ASSUME NEW k \in Closer, CloseStore(k) \/ CloseWait(k) \/ CloseReturn(k) PROVE StopInv'
  <2>1. UNCHANGED <<accepted, mark, stop, worker, resume, settled, batch>>
    BY <1>4 DEF CloseStore, CloseWait, CloseReturn, workerVars
  <2>2. \A l \in Closer : closer'[l] = "nil" => worker' = "done"
    BY <1>1, <1>4, <2>1 DEF CloseStore, CloseWait, CloseReturn, StopInv
  <2> QED
    BY <2>1, <2>2 DEF StopInv
<1>5. CASE Receive
  <2>1. /\ worker \in {"select", "drain"} /\ UNCHANGED <<accepted, settled, closer, mark, stop>>
        /\ (worker' = worker /\ resume' = resume) \/ (worker' = "put" /\ resume' = worker)
    BY <1>5 DEF Receive, closeVars
  <2> QED
    BY <2>1 DEF StopInv
<1>6. CASE Tick \/ SeeStop
  BY <1>6 DEF Tick, SeeStop, StopInv, closeVars, BatchInv
<1>7. CASE Drained
  <2>1. Len(accepted) = Len(settled) + Len(batch)
    <3>1. queue = <<>> /\ queue \in Seq(Datum) /\ Len(queue) = 0
      BY <1>7, EmptySeq DEF Drained, Types, QueueTypes
    <3> QED
      BY <1>1, <3>1, Middle DEF FIFO
  <2>2. batch = <<>> => Len(batch) = 0
    BY EmptySeq
  <2> QED
    BY <1>1, <1>7, <2>1, <2>2 DEF Drained, StopInv, closeVars
<1>8. CASE Put
  <2>1. /\ UNCHANGED <<accepted, closer, mark, stop>> /\ worker = "put"
        /\ worker' = resume /\ resume' = "select"
        /\ Len(settled') = Len(settled) + Len(batch)
    BY <1>1, <1>8, ConcatProperties DEF Put, closeVars
  <2> QED
    BY <1>1, <2>1 DEF StopInv, Types, WorkerTypes
<1>9. CASE UNCHANGED vars
  BY <1>9 DEF StopInv, vars, closeVars, workerVars
<1> QED
  BY <1>2, <1>3, <1>4, <1>5, <1>6, <1>7, <1>8, <1>9 DEF Next, Worker, Terminated

LEMMA Inductive == Spec => []IndInv
<1>1. IndInv /\ [Next]_vars => IndInv'
  BY NextTypes, NextCalls, NextFIFO, NextBatch, NextStop DEF IndInv
<1> QED
  BY <1>1, InitInv, PTL DEF Spec

----------------------------------------------------------------------------
(* The theorems. *)

\* A nil of Publish means that all its data were accepted, a nil of Close that
\* everything accepted before the stop is settled; channel and batch stay within
\* their capacities.
THEOREM NilKept == Spec => []NilIsKept
<1>1. IndInv => NilIsKept
  <2> SUFFICES ASSUME IndInv PROVE NilIsKept
    OBVIOUS
  <2>1. TypeOK
    <3>1. closed \in BOOLEAN /\ stop \in BOOLEAN
      BY Zenon DEF IndInv, Types, CloseTypes
    <3> QED
      BY <3>1 DEF IndInv, Types, CallTypes, QueueTypes, CloseTypes, WorkerTypes, BatchInv, TypeOK
  <2>2. NilMeansAccepted
    <3> SUFFICES ASSUME NEW c \in returned, outcome[c] = "nil", NEW i \in 1 .. Data[c]
                 PROVE  <<c, i>> \in Range(accepted)
      BY DEF NilMeansAccepted
    <3>1. c \in Call /\ next[c] \in Nat /\ Data[c] \in Nat
      BY PublisherAssumption DEF IndInv, Types, CallTypes
    <3>2. i \in 1 .. next[c] - 1
      BY <3>1 DEF IndInv, CallInv
    <3> QED
      BY <3>1, <3>2 DEF IndInv, CallInv
  <2>3. CloseFlushes
    BY DEF IndInv, StopInv, CloseFlushes
  <2> QED
    BY <2>1, <2>2, <2>3 DEF NilIsKept
<1> QED
  BY <1>1, Inductive, PTL

\* Each step of the publisher is a step of the delivery service, or invisible.
LEMMA StepRefines == IndInv /\ [Next]_vars => [Service!Next]_(Service!vars)
<1> SUFFICES ASSUME IndInv, [Next]_vars PROVE [Service!Next]_(Service!vars)
  OBVIOUS
<1>1. /\ settled \in Seq(Datum) /\ batch \in Seq(Datum) /\ queue \in Seq(Datum)
      /\ accepted \in Seq(Datum) /\ mark \in Nat
      /\ Len(settled) \in Nat /\ Len(batch) \in Nat /\ Len(queue) \in Nat
      /\ QueueSize \in Nat /\ MaxBatchSize \in Nat
  BY PublisherAssumption, LenProperties DEF IndInv, Types, WorkerTypes, QueueTypes, CloseTypes
<1>2. /\ Len(accepted) = Len(settled) + Len(batch) + Len(queue)
      /\ SubSeq(accepted, Len(settled) + 1, Len(settled) + Len(batch)) = batch
  BY <1>1, Middle DEF IndInv, FIFO
<1>0. \A f : Service!Range(f) = Range(f)
  BY DEF Service!Range, Range
<1>3. CASE UNCHANGED <<accepted, settled, stored, reported, stop, mark, worker>>
  BY <1>3 DEF Service!vars
<1>4. ASSUME NEW c \in Call, Enqueue(c) PROVE [Service!Next]_(Service!vars)
  <2>1. <<c, next[c]>> \in Datum /\ next[c] \in Nat
    BY <1>4, SendingDatum, PublisherAssumption DEF IndInv, Types, Enqueue
  <2>2. CASE HasRoom /\ accepted' = Append(accepted, <<c, next[c]>>)
    <3>1. <<c, next[c]>> \notin Range(accepted)
      <4>1. \A i \in DOMAIN accepted : accepted[i] # <<c, next[c]>>
        BY <2>1 DEF IndInv, AcceptedInv
      <4> QED
        BY <4>1 DEF Range
    <3>2. Len(accepted) < Len(settled) + (QueueSize + MaxBatchSize)
      BY <1>1, <1>2, <2>2 DEF HasRoom, IndInv, BatchInv
    <3>3. UNCHANGED <<settled, stored, reported, stop, mark, worker>>
      BY <1>4 DEF Enqueue, closeVars, workerVars
    <3>4. Service!Accept(<<c, next[c]>>)
      BY <1>0, <2>2, <3>1, <3>2, <3>3 DEF Service!Accept
    <3> QED
      BY <2>1, <3>4 DEF Service!Next
  <2>3. CASE UNCHANGED accepted
    BY <1>3, <1>4, <2>3 DEF Enqueue, closeVars, workerVars
  <2> QED
    BY <1>4, <2>2, <2>3 DEF Enqueue
<1>5. CASE CloseStop
  BY <1>5 DEF CloseStop, workerVars, Service!Stop, Service!Next
<1>6. ASSUME NEW k \in Closer, CloseStore(k) \/ CloseWait(k) \/ CloseReturn(k)
      PROVE  [Service!Next]_(Service!vars)
  BY <1>3, <1>6 DEF CloseStore, CloseWait, CloseReturn, workerVars
<1>7. CASE Receive \/ Tick \/ SeeStop
  <2>1. UNCHANGED <<accepted, settled, stored, reported, stop, mark>> /\ worker # "done" /\ worker' # "done"
    BY <1>7 DEF Receive, Tick, SeeStop, closeVars
  <2> QED
    BY <2>1 DEF Service!vars
<1>8. CASE Drained
  <2>1. UNCHANGED <<accepted, settled, stored, reported, stop, mark>> /\ worker = "drain"
    BY <1>8 DEF Drained, closeVars
  <2>2. CASE worker' = "put"
    BY <2>1, <2>2 DEF Service!vars
  <2>3. CASE batch = <<>> /\ worker' = "done"
    <3>1. stop /\ Len(settled) >= mark
      <4>1. Len(batch) = 0 /\ Len(queue) = 0
        BY <1>8, <2>3, EmptySeq DEF Drained
      <4> QED
        BY <1>1, <1>2, <2>1, <4>1 DEF IndInv, StopInv
    <3>2. Service!Finish
      BY <2>1, <2>3, <3>1 DEF Service!Finish, Service!MayFinish
    <3> QED
      BY <3>2 DEF Service!Next
  <2> QED
    BY <1>8, <2>2, <2>3 DEF Drained
<1>9. CASE Put
  <2>1. /\ worker = "put" /\ worker' = resume /\ UNCHANGED <<accepted, stop, mark>>
        /\ settled' = settled \o batch
        /\ \/ stored' = stored \o batch /\ reported' = reported
           \/ stored' \in {stored, stored \o batch} /\ reported' = reported \cup Range(batch)
    BY <1>9 DEF Put, closeVars
  <2>2. Len(batch) \in 1 .. MaxBatchSize
    <3>1. batch # <<>> /\ Len(batch) =< MaxBatchSize
      BY <2>1 DEF IndInv, BatchInv
    <3> QED
      BY <1>1, <3>1, EmptySeq
  <2>3. Len(settled) + Len(batch) =< Len(accepted)
    BY <1>1, <1>2
  <2>4. (worker' = "done") \in {FALSE, stop /\ Len(settled') >= mark}
    <3>1. Len(settled') = Len(settled) + Len(batch)
      BY <1>1, <2>1, ConcatProperties
    <3>2. resume = "done" => (stop /\ Len(settled') >= mark)
      BY <1>1, <2>1, <3>1 DEF IndInv, StopInv
    <3> QED
      BY <2>1, <3>2
  <2>5. Service!Settle(Len(batch))
    BY <1>0, <1>2, <2>1, <2>3, <2>4 DEF Service!Settle, Service!MayFinish
  <2> QED
    BY <2>2, <2>5 DEF Service!Next
<1>10. CASE UNCHANGED <<closeVars, workerVars, accepted>>
  BY <1>3, <1>10 DEF closeVars, workerVars
<1> QED
  BY <1>4, <1>5, <1>6, <1>7, <1>8, <1>9, <1>10
     DEF Next, Worker, Begin, ContextDone, Terminated, vars

\* The publisher implements the delivery service: data are settled in the order
\* of acceptance, a batch at a time and none twice, the capacity is kept, a lost
\* batch is reported, and the worker leaves only when the stop is served.
THEOREM Implements == Spec => ServiceSpec
<1>1. Init => Service!Init
  BY DEF Init, Service!Init
<1>2. Spec => Service!Spec
  BY <1>1, StepRefines, Inductive, PTL DEF Spec, Service!Spec
<1> QED
  BY <1>2 DEF ServiceSpec
=============================================================================
