------------------------------ MODULE LogSink ------------------------------
(***************************************************************************)
(* cwlogs.Sink (internal/aws/cwlogs/sink.go): the calls of Log,            *)
(* LogWithMetrics, LogHealthWithMetrics and Publish that feed a bounded    *)
(* channel, the worker goroutine that batches it into PutLogEvents calls,  *)
(* and Close.                                                              *)
(*                                                                         *)
(* An event is <<c, i>>: the i-th message that call c builds.  Its text is *)
(* abstracted to its size and to whether it can be encoded at all.  Time   *)
(* is abstracted: the ticker, a deadline and a cancellation may come at    *)
(* any moment.                                                             *)
(***************************************************************************)
EXTENDS Integers, Sequences, Functions

CONSTANTS
    Call,             \* calls of the sink's logging methods
    Op,               \* Op[c]: the method, "Log", "LogWithMetrics" or "Publish"
    Messages,         \* Messages[c]: how many messages the call's data partitions into
    Size,             \* Size[e]: bytes of the encoded message e
    Unencodable,      \* the messages encoding fails for
    Unbuildable,      \* calls whose data cannot be partitioned, or whose entry not encoded
    RunContext,       \* calls made with the program's run context (the health runner's)
    Closer,           \* callers of Close
    QueueSize,        \* Options.QueueSize
    MaxBatchSize,     \* Options.MaxBatchSize
    MaxBatchBytes,    \* Options.MaxBatchBytes
    MaxEventBytes,    \* Options.MaxEventBytes
    EventOverhead,    \* the bytes CloudWatch adds to each event, 26
    MaxFlushAttempts  \* PutLogEvents calls per batch, 3

Event == UNION {{c} \X (1 .. Messages[c]) : c \in Call}

\* The limits New installs are positive, and its defaults let the largest
\* event fit into a batch of its own (256 KiB + 26 against 900 KiB).
ASSUME SinkAssumption ==
    /\ Op \in [Call -> {"Log", "LogWithMetrics", "Publish"}]
    /\ Messages \in [Call -> Nat \ {0}]
    /\ \A c \in Call : Op[c] = "Log" => Messages[c] = 1
    /\ Size \in [Event -> Nat]
    /\ Unencodable \subseteq Event
    /\ \A e \in Unencodable : Op[e[1]] = "Publish" \/ e[2] > 1
    /\ Unbuildable \subseteq Call
    /\ RunContext \subseteq Call
    /\ QueueSize \in Nat \ {0}
    /\ MaxBatchSize \in Nat \ {0}
    /\ MaxBatchBytes \in Nat
    /\ MaxEventBytes \in Nat
    /\ EventOverhead \in Nat
    /\ MaxFlushAttempts \in Nat \ {0}
    /\ MaxEventBytes + EventOverhead =< MaxBatchBytes

VARIABLES
    pc,           \* pc[c]: "idle", "check", "send" (inside enqueueMessage) or "returned"
    next,         \* next[c]: the message the call is about to enqueue
    failed,       \* failed[c]: the error it has combined so far is not nil
    dropped,      \* the events counted by noteDrop
    runCancelled, \* the run context is done
    queue,        \* the buffered channel
    closed,       \* the atomic flag
    stop,         \* the stop channel is closed
    closer,       \* closer[k]: "idle", "once", "waiting", "nil" or "deadline"
    worker,       \* the goroutine: "select", "drain", "put" or "done" (done is closed)
    resume,       \* where the worker continues after the flush it is in
    batch,        \* the batch under construction or in flight
    batchBytes,
    held,         \* the event appendEvent adds after the flush it had to do first
    attempt,      \* PutLogEvents calls already made for this batch
    \* What has happened, for the properties:
    accepted,     \* events whose enqueue succeeded, in order
    settled,      \* events the worker is finished with, in order
    stored,       \* what the log stream holds, in order
    reported,     \* events of batches whose failure went to the reporter
    mark          \* how many events had been accepted when stop was closed

callVars   == <<pc, next, failed, dropped, runCancelled>>
closeVars  == <<closed, stop, closer, mark>>
workerVars == <<worker, resume, batch, batchBytes, held, attempt, settled, stored, reported>>
vars       == <<callVars, closeVars, workerVars, queue, accepted>>

Init ==
    /\ pc = [c \in Call |-> "idle"]
    /\ next = [c \in Call |-> 1]
    /\ failed = [c \in Call |-> FALSE]
    /\ dropped = {}
    /\ runCancelled = FALSE
    /\ queue = <<>>
    /\ closed = FALSE
    /\ stop = FALSE
    /\ closer = [k \in Closer |-> "idle"]
    /\ worker = "select"
    /\ resume = "select"
    /\ batch = <<>>
    /\ batchBytes = 0
    /\ held = <<>>
    /\ attempt = 0
    /\ accepted = <<>>
    /\ settled = <<>>
    /\ stored = <<>>
    /\ reported = {}
    /\ mark = 0

----------------------------------------------------------------------------
(* The calls. *)

\* Log looks at the closed flag; LogWithMetrics, LogHealthWithMetrics and
\* Publish do not (unless they fall back on Log, and are then a "Log" here).
Refused(c) == (Op[c] = "Log" /\ closed) \/ c \in Unbuildable

Begin(c) ==
    /\ pc[c] = "idle"
    /\ pc' = [pc EXCEPT ![c] = IF Refused(c) THEN "returned" ELSE "check"]
    /\ failed' = [failed EXCEPT ![c] = Refused(c)]
    /\ UNCHANGED <<next, dropped, runCancelled, queue, accepted, closeVars, workerVars>>

\* Mutant of Advance: a later success hides an earlier error.
ForgetsError(c, err) ==
    /\ next' = [next EXCEPT ![c] = @ + 1]
    /\ failed' = [failed EXCEPT ![c] = err]
    /\ pc' = [pc EXCEPT ![c] = IF next[c] = Messages[c] THEN "returned" ELSE "check"]

\* The call is through with its current message, err tells how it went: it goes
\* on with the next message whatever the outcome, and returns after the last.
Advance(c, err) ==
    /\ next' = [next EXCEPT ![c] = @ + 1]
    /\ failed' = [failed EXCEPT ![c] = @ \/ err]
    /\ pc' = [pc EXCEPT ![c] = IF next[c] = Messages[c] THEN "returned" ELSE "check"]

Oversized(e) == Size[e] > MaxEventBytes

\* Encoding, the size limit and the look at the context.
Check(c) ==
    /\ pc[c] = "check"
    /\ LET e == <<c, next[c]>>
       IN  \/ /\ e \in Unencodable
              /\ Advance(c, TRUE)
              /\ UNCHANGED dropped
           \/ /\ e \notin Unencodable
              /\ Oversized(e)
              /\ Advance(c, TRUE)
              /\ dropped' = dropped \cup {e}
           \/ /\ e \notin Unencodable
              /\ ~Oversized(e)
              /\ c \in RunContext /\ runCancelled
              /\ Advance(c, TRUE)
              /\ UNCHANGED dropped
           \/ /\ e \notin Unencodable
              /\ ~Oversized(e)
              /\ ~(c \in RunContext /\ runCancelled)
              /\ pc' = [pc EXCEPT ![c] = "send"]
              /\ UNCHANGED <<next, failed, dropped>>
    /\ UNCHANGED <<runCancelled, queue, accepted, closeVars, workerVars>>

\* Mutant of QueueHasRoom: one event too many.
QueueHasRoomForOneMore == Len(queue) =< QueueSize

QueueHasRoom == Len(queue) < QueueSize

\* The non-blocking send.  (The channel takes the event even when the worker
\* is gone; a worker that waits in select takes it in a step of its own.)
Send(c) ==
    /\ pc[c] = "send"
    /\ LET e == <<c, next[c]>>
       IN  \/ /\ QueueHasRoom
              /\ queue' = Append(queue, e)
              /\ accepted' = Append(accepted, e)
              /\ Advance(c, FALSE)
              /\ UNCHANGED dropped
           \/ /\ ~QueueHasRoom
              /\ Advance(c, TRUE)
              /\ dropped' = dropped \cup {e}
              /\ UNCHANGED <<queue, accepted>>
    /\ UNCHANGED <<runCancelled, closeVars, workerVars>>

\* The signal context of main is cancelled.
CancelRun ==
    /\ ~runCancelled
    /\ runCancelled' = TRUE
    /\ UNCHANGED <<pc, next, failed, dropped, queue, accepted, closeVars, workerVars>>

----------------------------------------------------------------------------
(* Close.  once.Do makes the other closers wait until its two steps are over. *)

CloseStore(k) ==
    /\ closer[k] = "idle"
    /\ ~closed
    /\ closed' = TRUE
    /\ closer' = [closer EXCEPT ![k] = "once"]
    /\ UNCHANGED <<stop, mark, callVars, workerVars, queue, accepted>>

CloseStop(k) ==
    /\ closer[k] = "once"
    /\ stop' = TRUE
    /\ mark' = Len(accepted)
    /\ closer' = [closer EXCEPT ![k] = "waiting"]
    /\ UNCHANGED <<closed, callVars, workerVars, queue, accepted>>

CloseAgain(k) ==
    /\ closer[k] = "idle"
    /\ stop
    /\ closer' = [closer EXCEPT ![k] = "waiting"]
    /\ UNCHANGED <<closed, stop, mark, callVars, workerVars, queue, accepted>>

\* The final select: done was closed, or the caller's deadline passed.
CloseReturn(k) ==
    /\ closer[k] = "waiting"
    /\ \/ worker = "done" /\ closer' = [closer EXCEPT ![k] = "nil"]
       \/ closer' = [closer EXCEPT ![k] = "deadline"]
    /\ UNCHANGED <<closed, stop, mark, callVars, workerVars, queue, accepted>>

----------------------------------------------------------------------------
(* The worker goroutine, run. *)

Weight(e) == Size[e] + EventOverhead

\* Mutant of BatchFull: the overhead is not counted.
BatchFullOfText(e) == Len(batch) >= MaxBatchSize \/ batchBytes + Size[e] > MaxBatchBytes

BatchFull(e) == Len(batch) >= MaxBatchSize \/ batchBytes + Weight(e) > MaxBatchBytes

\* Mutant of Flush: appendEvent forgets the event it had to flush for.
FlushInstead(then, event) ==
    /\ worker' = "put"
    /\ resume' = then
    /\ held' = <<>>
    /\ attempt' = 0
    /\ UNCHANGED <<batch, batchBytes, settled, stored, reported>>

\* flush() begins; it would return at once if the batch were empty.
Flush(then, event) ==
    /\ worker' = "put"
    /\ resume' = then
    /\ held' = event
    /\ attempt' = 0
    /\ UNCHANGED <<batch, batchBytes, settled, stored, reported>>

\* An event is received, in the loop or while draining: appendEvent.
Receive ==
    /\ worker \in {"select", "drain"}
    /\ queue # <<>>
    /\ queue' = Tail(queue)
    /\ LET e == Head(queue)
       IN  \/ /\ BatchFull(e) /\ batch # <<>>
              /\ Flush(worker, <<e>>)
           \/ /\ ~BatchFull(e) \/ batch = <<>>
              /\ batch' = Append(batch, e)
              /\ batchBytes' = batchBytes + Weight(e)
              /\ UNCHANGED <<worker, resume, held, attempt, settled, stored, reported>>
    /\ UNCHANGED <<callVars, closeVars, accepted>>

\* Mutant of Tick: a batch is flushed only when it is full.
TickWhenFull ==
    /\ worker = "select"
    /\ Len(batch) >= MaxBatchSize
    /\ Flush("select", <<>>)
    /\ UNCHANGED <<callVars, closeVars, queue, accepted>>

\* The ticker fires.
Tick ==
    /\ worker = "select"
    /\ batch # <<>>
    /\ Flush("select", <<>>)
    /\ UNCHANGED <<callVars, closeVars, queue, accepted>>

\* The select sees stop closed and enters the draining loop.
SeeStop ==
    /\ worker = "select"
    /\ stop
    /\ worker' = "drain"
    /\ UNCHANGED <<resume, batch, batchBytes, held, attempt, settled, stored, reported>>
    /\ UNCHANGED <<callVars, closeVars, queue, accepted>>

\* Mutants of Drained: no last flush, and no return after it.
DrainedUnflushed ==
    /\ worker = "drain"
    /\ queue = <<>>
    /\ worker' = "done"
    /\ UNCHANGED <<resume, batch, batchBytes, held, attempt, settled, stored, reported>>
    /\ UNCHANGED <<callVars, closeVars, queue, accepted>>

DrainedContinues ==
    /\ worker = "drain"
    /\ queue = <<>>
    /\ worker' = "select"
    /\ UNCHANGED <<resume, batch, batchBytes, held, attempt, settled, stored, reported>>
    /\ UNCHANGED <<callVars, closeVars, queue, accepted>>

\* Draining found the queue empty: the last flush, then return.
Drained ==
    /\ worker = "drain"
    /\ queue = <<>>
    /\ \/ batch # <<>> /\ Flush("done", <<>>)
       \/ /\ batch = <<>>
          /\ worker' = "done"
          /\ UNCHANGED <<resume, batch, batchBytes, held, attempt, settled, stored, reported>>
    /\ UNCHANGED <<callVars, closeVars, queue, accepted>>

\* The answers of PutLogEvents, and whether the service stored the batch:
\* a call that timed out may or may not have.
Answer == {"ok", "throttled", "rejected", "timeout"}

StoredBy(a) == CASE a = "ok" -> {TRUE}
                 [] a = "timeout" -> {TRUE, FALSE}
                 [] OTHER -> {FALSE}

\* Mutant of isPutLogEventsRetryable: a timeout is retried, too.
RetriesTimeouts(a) == a \in {"throttled", "timeout"}

isPutLogEventsRetryable(a) == a = "throttled"

TriesAgain(a) == isPutLogEventsRetryable(a) /\ attempt + 1 < MaxFlushAttempts

\* Mutant of Reports: a batch that was throttled to the end is given up quietly.
ReportsRejections(a) == a \in {"rejected", "timeout"}

Reports(a) == a # "ok"

\* Mutant of BytesAfterFlush: the count is not reset.
BytesNotReset == batchBytes + (IF held = <<>> THEN 0 ELSE Weight(held[1]))

\* The flush resets the count, and appendEvent adds the event it holds.
BytesAfterFlush == IF held = <<>> THEN 0 ELSE Weight(held[1])

\* flush() gives the batch up after its last attempt, and reports an error.  Its
\* local variables are gone.
EndFlush(a) ==
    /\ settled' = settled \o batch
    /\ reported' = IF Reports(a) THEN reported \cup Range(batch) ELSE reported
    /\ batch' = held
    /\ batchBytes' = BytesAfterFlush
    /\ held' = <<>>
    /\ worker' = resume
    /\ resume' = "select"
    /\ attempt' = 0

PutLogEvents ==
    /\ worker = "put"
    /\ \E a \in Answer :
        /\ \E s \in StoredBy(a) : stored' = IF s THEN stored \o batch ELSE stored
        /\ \/ /\ TriesAgain(a)
              /\ attempt' = attempt + 1
              /\ UNCHANGED <<worker, resume, batch, batchBytes, held, settled, reported>>
           \/ ~TriesAgain(a) /\ EndFlush(a)
    /\ UNCHANGED <<callVars, closeVars, queue, accepted>>

Worker == Receive \/ Tick \/ SeeStop \/ Drained \/ PutLogEvents

----------------------------------------------------------------------------

\* Every call and every Close returned and the goroutine is gone.
Terminated ==
    /\ \A c \in Call : pc[c] = "returned"
    /\ \A k \in Closer : closer[k] \in {"nil", "deadline"}
    /\ worker = "done"
    /\ UNCHANGED vars

Next ==
    \/ \E c \in Call : Begin(c) \/ Check(c) \/ Send(c)
    \/ \E k \in Closer : CloseStore(k) \/ CloseStop(k) \/ CloseAgain(k) \/ CloseReturn(k)
    \/ CancelRun
    \/ Worker
    \/ Terminated

Spec == Init /\ [][Next]_vars

\* The goroutine is scheduled, its ticker ticks, and every PutLogEvents call
\* returns because it has a 2 s deadline.  once.Do does not stop half way.
Fairness ==
    /\ WF_vars(Worker)
    /\ \A k \in Closer : WF_vars(CloseStop(k)) /\ WF_vars(CloseReturn(k))

FairSpec == Spec /\ Fairness

----------------------------------------------------------------------------
(* Properties. *)

CallTypes ==
    /\ pc \in [Call -> {"idle", "check", "send", "returned"}]
    /\ next \in [Call -> Nat \ {0}]
    /\ failed \in [Call -> BOOLEAN]
    /\ dropped \subseteq Event
    /\ runCancelled \in BOOLEAN

QueueTypes ==
    /\ queue \in Seq(Event)
    /\ Len(queue) =< QueueSize
    /\ accepted \in Seq(Event)

CloseTypes ==
    /\ closed \in BOOLEAN
    /\ stop \in BOOLEAN
    /\ closer \in [Closer -> {"idle", "once", "waiting", "nil", "deadline"}]
    /\ mark \in Nat

WorkerTypes ==
    /\ worker \in {"select", "drain", "put", "done"}
    /\ resume \in {"select", "drain", "done"}
    /\ batch \in Seq(Event)
    /\ batchBytes \in Nat
    /\ held \in {<<>>} \cup {<<e>> : e \in Event}
    /\ attempt \in 0 .. MaxFlushAttempts - 1
    /\ settled \in Seq(Event)
    /\ stored \in Seq(Event)
    /\ reported \subseteq Event

\* The type invariant: every channel and counter of the sink keeps its range;
\* the channel never exceeds its capacity, at most one event is held back by
\* appendEvent, and no batch is tried more than maxFlushAttempts times.
TypeOK == CallTypes /\ QueueTypes /\ CloseTypes /\ WorkerTypes

\* The worker neither loses, duplicates nor reorders what the channel took:
\* the accepted events are, in this order, those it is finished with, those in
\* its batch, the one appendEvent holds during a flush, and those still queued.
NothingLostOrReordered == accepted = settled \o batch \o held \o queue

\* e occurs before f in the sequence s.
Precedes(s, e, f) == \E p, q \in DOMAIN s : p < q /\ s[p] = e /\ s[q] = f

\* The log stream holds the accepted events in the order of acceptance and
\* each at most once, whatever PutLogEvents answered: flush retries only the
\* answers that mean nothing was stored.
StoredInOrderOnce ==
    /\ IsInjective(stored)
    /\ \A i, j \in DOMAIN stored : i < j => Precedes(accepted, stored[i], stored[j])

\* No silent loss: an event flush gave up is in the log stream, or its batch's
\* error went to the reporter.
StoredOrReported == Range(settled) \subseteq Range(stored) \cup reported

\* The batch that appendEvent builds never exceeds what PutLogEvents takes, in
\* number of events and in bytes.
BatchWithinLimits == Len(batch) =< MaxBatchSize /\ batchBytes =< MaxBatchBytes

\* The weights of the events of s, added up from the first to the last.
TotalWeight(s) ==
    LET total[n \in 0 .. Len(s)] == IF n = 0 THEN 0 ELSE total[n - 1] + Weight(s[n])
    IN  total[Len(s)]

\* batchBytes, which decides whether the next event still fits, is the true
\* weight of the batch under construction or in flight: across flushes, retries
\* and the event appendEvent holds back, no byte is forgotten or counted twice.
BatchBytesExact == batchBytes = TotalWeight(batch)

\* When Close returns nil, the worker has finished with every event that had
\* been accepted by the time the stop channel was closed.
CloseFlushes == \A k \in Closer : closer[k] = "nil" => Len(settled) >= mark

\* A call reports an error exactly when one of its events was not enqueued, no
\* partial failure hides behind nil; and an event it went past was enqueued or
\* dropped and counted, unless it could not be encoded or the context was done.
CallsAccountForEvents ==
    \A c \in Call :
        /\ pc[c] = "returned" =>
            (~failed[c] <=> \A i \in 1 .. Messages[c] : <<c, i>> \in Range(accepted))
        /\ \A i \in 1 .. next[c] - 1 :
            \/ (<<c, i>> \in Range(accepted)) # (<<c, i>> \in dropped)
            \/ <<c, i>> \in Unencodable
            \/ c \in RunContext /\ runCancelled

\* The sink implements the abstract delivery service.
Service == INSTANCE Delivery WITH
    Capacity <- QueueSize + MaxBatchSize + 1,
    MaxBatch <- MaxBatchSize,
    stopping <- stop,
    finished <- worker = "done"

ServiceSpec == Service!Spec

\* An event enqueued while the sink is open is eventually stored or given up
\* with a report, be it that the batch fills up, the ticker flushes it or the
\* sink is closed: in the end nothing is left of what was accepted before the
\* stop.  (The calls of an instance come to an end, so there is an end.)
EventuallySettled ==
    <>[](IF stop THEN Len(settled) >= mark ELSE settled = accepted)

\* Once the stop channel is closed the worker drains, flushes and exits, so
\* that a Close without a deadline would return.
StopEndsWorker == stop ~> (worker = "done")

\* SPEC.md: "must flush any remaining logs and metrics before exiting".  When
\* Close has returned nil, no event whose enqueue succeeded is left behind.
NothingStranded ==
    \A k \in Closer : closer[k] = "nil" => Range(accepted) \subseteq Range(settled)
=============================================================================
