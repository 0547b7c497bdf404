-------------------------- MODULE MetricsPublisher --------------------------
(***************************************************************************)
(* metrics.AsyncPublisher (internal/metrics/metrics.go): Publish feeds a   *)
(* bounded channel, a worker goroutine puts full batches, and what is left *)
(* at each tick and at the end, to a client, and Close stops it.           *)
(*                                                                         *)
(* A datum is <<c, i>>, the i-th of the data that call c publishes.  The   *)
(* client is external: its Put may fail with or without effect.            *)
(***************************************************************************)
EXTENDS Integers, Sequences, Functions

CONSTANTS
    Call,          \* calls of Publish
    Data,          \* Data[c]: how many data the call publishes
    Closer,        \* callers of Close
    QueueSize,     \* Options.QueueSize
    MaxBatchSize   \* Options.MaxBatchSize

Datum == UNION {{c} \X (1 .. Data[c]) : c \in Call}

ASSUME PublisherAssumption ==
    /\ Data \in [Call -> Nat]
    /\ QueueSize \in Nat \ {0}
    /\ MaxBatchSize \in Nat \ {0}

VARIABLES
    next,      \* next[c]: the datum the call is about to send, 0 before the call
    outcome,   \* outcome[c]: "none", "nil" or "error", what Publish would return now
    returned,  \* the calls that have returned
    queue,     \* the buffered channel
    closed, stop,
    closer,    \* closer[k]: "idle", "waiting", "nil" or "deadline"
    worker,    \* "select", "drain", "put" (inside client.Put) or "done"
    resume,    \* where the worker continues after Put
    batch,
    \* What has happened, for the properties:
    accepted, settled, stored, reported, mark

callVars   == <<next, outcome, returned>>
closeVars  == <<closed, stop, closer, mark>>
workerVars == <<worker, resume, batch, settled, stored, reported>>
vars       == <<callVars, closeVars, workerVars, queue, accepted>>

Init ==
    /\ next = [c \in Call |-> 0]
    /\ outcome = [c \in Call |-> "none"]
    /\ returned = {}
    /\ queue = <<>>
    /\ closed = FALSE /\ stop = FALSE
    /\ closer = [k \in Closer |-> "idle"]
    /\ worker = "select" /\ resume = "select"
    /\ batch = <<>>
    /\ accepted = <<>> /\ settled = <<>> /\ stored = <<>>
    /\ reported = {}
    /\ mark = 0

----------------------------------------------------------------------------
(* Publish. *)

\* An empty call succeeds even after Close; the flag is looked at only once.
Begin(c) ==
    /\ next[c] = 0
    /\ next' = [next EXCEPT ![c] = 1]
    /\ outcome' = [outcome EXCEPT ![c] = IF closed /\ Data[c] > 0 THEN "error" ELSE "nil"]
    /\ returned' = IF closed \/ Data[c] = 0 THEN returned \cup {c} ELSE returned
    /\ UNCHANGED <<closeVars, workerVars, queue, accepted>>

Sending(c) == next[c] > 0 /\ c \notin returned

\* The caller's context is done: the data that are left are given up.
ContextDone(c) ==
    /\ Sending(c)
    /\ outcome' = [outcome EXCEPT ![c] = "error"]
    /\ returned' = returned \cup {c}
    /\ UNCHANGED <<next, closeVars, workerVars, queue, accepted>>

\* Mutant of Fail: the errors are not joined.
FailNot(c) == outcome

Fail(c) == [outcome EXCEPT ![c] = "error"]

\* Mutant of HasRoom: one datum too many.
HasRoomForOneMore == Len(queue) =< QueueSize

HasRoom == Len(queue) < QueueSize

\* The non-blocking send.  A datum that finds the channel full is dropped and
\* the call goes on with the next one.
Enqueue(c) ==
    /\ Sending(c)
    /\ \/ /\ HasRoom
          /\ queue' = Append(queue, <<c, next[c]>>)
          /\ accepted' = Append(accepted, <<c, next[c]>>)
          /\ UNCHANGED outcome
       \/ /\ ~HasRoom
          /\ outcome' = Fail(c)
          /\ UNCHANGED <<queue, accepted>>
    /\ next' = [next EXCEPT ![c] = @ + 1]
    /\ returned' = IF next[c] = Data[c] THEN returned \cup {c} ELSE returned
    /\ UNCHANGED <<closeVars, workerVars>>

----------------------------------------------------------------------------
(* Close.  The other closers wait in once.Do until stop is closed. *)

CloseStore(k) ==
    /\ closer[k] = "idle"
    /\ ~closed
    /\ closed' = TRUE
    /\ UNCHANGED <<stop, closer, mark, callVars, workerVars, queue, accepted>>

CloseStop ==
    /\ closed /\ ~stop
    /\ stop' = TRUE
    /\ mark' = Len(accepted)
    /\ UNCHANGED <<closed, closer, callVars, workerVars, queue, accepted>>

CloseWait(k) ==
    /\ closer[k] = "idle"
    /\ stop
    /\ closer' = [closer EXCEPT ![k] = "waiting"]
    /\ UNCHANGED <<closed, stop, mark, callVars, workerVars, queue, accepted>>

CloseReturn(k) ==
    /\ closer[k] = "waiting"
    /\ \/ worker = "done" /\ closer' = [closer EXCEPT ![k] = "nil"]
       \/ closer' = [closer EXCEPT ![k] = "deadline"]
    /\ UNCHANGED <<closed, stop, mark, callVars, workerVars, queue, accepted>>

----------------------------------------------------------------------------
(* The worker goroutine. *)

\* A datum is received, in the loop or while draining; a full batch is flushed.
Receive ==
    /\ worker \in {"select", "drain"}
    /\ queue # <<>>
    /\ queue' = Tail(queue)
    /\ batch' = Append(batch, Head(queue))
    /\ \/ Len(batch') >= MaxBatchSize /\ worker' = "put" /\ resume' = worker
       \/ Len(batch') < MaxBatchSize /\ UNCHANGED <<worker, resume>>
    /\ UNCHANGED <<settled, stored, reported, callVars, closeVars, accepted>>

Tick ==
    /\ worker = "select"
    /\ batch # <<>>
    /\ worker' = "put"
    /\ resume' = "select"
    /\ UNCHANGED <<batch, settled, stored, reported, callVars, closeVars, queue, accepted>>

SeeStop ==
    /\ worker = "select"
    /\ stop
    /\ worker' = "drain"
    /\ UNCHANGED <<resume, batch, settled, stored, reported, callVars, closeVars, queue, accepted>>

\* Mutant of Drained: the worker leaves what is in its batch.
DrainedUnflushed ==
    /\ worker = "drain"
    /\ queue = <<>>
    /\ worker' = "done"
    /\ UNCHANGED <<resume, batch, settled, stored, reported, callVars, closeVars, queue, accepted>>

\* The channel is empty: the last flush, if there is anything to flush.
Drained ==
    /\ worker = "drain"
    /\ queue = <<>>
    /\ \/ batch = <<>> /\ worker' = "done" /\ UNCHANGED resume
       \/ batch # <<>> /\ worker' = "put" /\ resume' = "done"
    /\ UNCHANGED <<batch, settled, stored, reported, callVars, closeVars, queue, accepted>>

\* client.Put returns; there is no retry, and an error goes to the reporter.
Put ==
    /\ worker = "put"
    /\ \/ stored' = stored \o batch /\ UNCHANGED reported
       \/ stored' \in {stored, stored \o batch} /\ reported' = reported \cup Range(batch)
    /\ settled' = settled \o batch
    /\ batch' = <<>>
    /\ worker' = resume
    /\ resume' = "select"
    /\ UNCHANGED <<callVars, closeVars, queue, accepted>>

Worker == Receive \/ Tick \/ SeeStop \/ Drained \/ Put

Terminated ==
    /\ returned = Call
    /\ \A k \in Closer : closer[k] \in {"nil", "deadline"}
    /\ worker = "done"
    /\ UNCHANGED vars

Next ==
    \/ \E c \in Call : Begin(c) \/ ContextDone(c) \/ Enqueue(c)
    \/ CloseStop
    \/ \E k \in Closer : CloseStore(k) \/ CloseWait(k) \/ CloseReturn(k)
    \/ Worker
    \/ Terminated

Spec == Init /\ [][Next]_vars

----------------------------------------------------------------------------
(* Properties. *)

\* The type invariant: the channel and the batch stay within their capacities.
TypeOK ==
    /\ next \in [Call -> Nat]
    /\ outcome \in [Call -> {"none", "nil", "error"}]
    /\ returned \subseteq Call
    /\ queue \in Seq(Datum) /\ Len(queue) =< QueueSize
    /\ closed \in BOOLEAN /\ stop \in BOOLEAN
    /\ closer \in [Closer -> {"idle", "waiting", "nil", "deadline"}]
    /\ worker \in {"select", "drain", "put", "done"}
    /\ resume \in {"select", "drain", "done"}
    /\ batch \in Seq(Datum) /\ Len(batch) =< MaxBatchSize

\* A call of Publish that returned nil had each of its data accepted: neither a
\* full channel nor a context that ends half way is hidden by a later success.
NilMeansAccepted ==
    \A c \in returned : outcome[c] = "nil" => \A i \in 1 .. Data[c] : <<c, i>> \in Range(accepted)

\* A Close that returned nil waited until the worker had put, or reported, all
\* data accepted before the stop.
CloseFlushes == \A k \in Closer : closer[k] = "nil" => Len(settled) >= mark

\* A nil is the publisher's word, and it is kept: what Publish took is accepted,
\* what Close waited for is flushed, and the channel and the batch never outgrow
\* their capacities to make room for it.
NilIsKept == TypeOK /\ NilMeansAccepted /\ CloseFlushes

Service == INSTANCE Delivery WITH
    Event <- Datum,
    Capacity <- QueueSize + MaxBatchSize,
    MaxBatch <- MaxBatchSize,
    stopping <- stop,
    finished <- worker = "done"

\* The publisher implements the abstract delivery service: data are put in the
\* order of acceptance, each in one batch, and none is lost without a report.
ServiceSpec == Service!Spec
=============================================================================
