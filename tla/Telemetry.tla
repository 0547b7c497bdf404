----------------------------- MODULE Telemetry -----------------------------
(***************************************************************************)
(* The way of an entry from the exchange or the probe that made it to both *)
(* destinations: emitTraffic and emit hand it to a MultiSink, which calls  *)
(* its sinks one after the other and joins their errors; the stdout sink,  *)
(* one for the whole process, writes a line in two steps under a mutex;    *)
(* the CloudWatch sink of the exchanges is the delivery service that       *)
(* LogSink is shown to implement; its end is LogSink's subject.            *)
(*                                                                         *)
(* Every entry is one event with its metrics in it (Emf, ExchangeIsOneEvent). *)
(* A probe's CloudWatch sink is of the same kind; here it only accepts or  *)
(* refuses.                                                                *)
(***************************************************************************)
EXTENDS Integers, Sequences, SequencesExt

CONSTANTS
    Exchange,   \* exchanges of the proxy, each emits one entry
    Probe,      \* health probes, likewise
    Capacity,   \* the events the CloudWatch sink can hold
    MaxBatch,   \* the largest batch it sends
    MaxTime,    \* bound on the clock
    Faulty,     \* writes to stdout and calls of CloudWatch may fail
    None

Caller == Exchange \cup Probe

ASSUME TelemetryAssumption ==
    /\ {Capacity, MaxBatch, MaxTime} \subseteq Nat
    /\ Faulty \in BOOLEAN
    /\ Exchange \cap Probe = {}
    /\ None \notin Caller

VARIABLES
    cloud,     \* the callers whose CloudWatch sink could be opened: by kind
    clock,     \* in milliseconds, as of the last entry
    pc,        \* "serving", "lock", "body", "newline", "cloud", "report" or "returned"
    time,      \* time[c]: Response.Time of exchange c's entry, its timestamp in CloudWatch
    mu,        \* who holds the mutex of the stdout sink
    out,       \* what stdout received: [by, part]
    refused,   \* refused[c]: the sinks that failed for c
    err,       \* err[c]: the joined error is not nil
    reports,   \* the callers whose error was reported
    \* The CloudWatch sink of the exchanges, see Delivery:
    accepted, settled, stored, reported, stopping, mark, finished

sink == <<accepted, settled, stored, reported, stopping, mark, finished>>
vars == <<cloud, clock, pc, time, mu, out, refused, err, reports, sink>>

Service == INSTANCE Delivery WITH Event <- Exchange

Init ==
    /\ cloud \in {{}, Exchange, Probe, Caller}
    /\ clock = 0
    /\ pc = [c \in Caller |-> "serving"]
    /\ time = [c \in Caller |-> 0]
    /\ mu = None
    /\ out = <<>>
    /\ refused = [c \in Caller |-> {}]
    /\ err = [c \in Caller |-> FALSE]
    /\ reports = {}
    /\ Service!Init

Goto(c, place) == pc' = [pc EXCEPT ![c] = place]

\* finalize and probeEndpoint take the time, build the entry and emit it.  The
\* clock does not run back; the time of a probe goes to another log group.
Finalize(c, now) ==
    /\ pc[c] = "serving"
    /\ now >= clock
    /\ clock' = now
    /\ time' = IF c \in Exchange THEN [time EXCEPT ![c] = now] ELSE time
    /\ Goto(c, "lock")
    /\ UNCHANGED <<cloud, mu, out, refused, err, reports, sink>>

----------------------------------------------------------------------------
(* StdoutSink.write. *)

Lock(c) ==
    /\ pc[c] = "lock"
    /\ mu = None
    /\ mu' = c
    /\ Goto(c, "body")
    /\ UNCHANGED <<cloud, clock, time, out, refused, err, reports, sink>>

\* Mutant of AfterStdout: a MultiSink that gives up at the first error.
StopsAtFirst(c, fails) == IF c \in cloud /\ ~fails THEN "cloud" ELSE "report"

\* Whether stdout failed or not, the next sink of the MultiSink has its turn;
\* without a CloudWatch sink there is no MultiSink.
AfterStdout(c, fails) == IF c \in cloud THEN "cloud" ELSE "report"

\* Mutant of Unlock: an early return that leaves the mutex locked.
KeepsLock(fails) == IF fails THEN mu ELSE None

\* The deferred Unlock.
Unlock(fails) == None

\* The end of write, with or without an error.
EndWrite(c, fails) ==
    /\ mu' = Unlock(fails)
    /\ refused' = [refused EXCEPT ![c] = IF fails THEN @ \cup {"stdout"} ELSE @]
    /\ err' = [err EXCEPT ![c] = fails]
    /\ Goto(c, AfterStdout(c, fails))
    /\ UNCHANGED <<cloud, clock, time, reports, sink>>

Emitted(c, part) == out' = Append(out, [by |-> c, part |-> part])

\* Mutant of BodyWritten: the newline is written under a lock of its own.
ReleasesBetween(c) ==
    /\ Emitted(c, "body")
    /\ mu' = None
    /\ Goto(c, "newline")
    /\ UNCHANGED <<cloud, clock, time, refused, err, reports, sink>>

BodyWritten(c) ==
    /\ Emitted(c, "body")
    /\ Goto(c, "newline")
    /\ UNCHANGED <<cloud, clock, time, mu, refused, err, reports, sink>>

\* A write that fails may have written a part.
WriteBody(c) ==
    /\ pc[c] = "body"
    /\ \/ BodyWritten(c)
       \/ Faulty /\ EndWrite(c, TRUE) /\ UNCHANGED out
       \/ Faulty /\ EndWrite(c, TRUE) /\ Emitted(c, "fragment")

WriteNewline(c) ==
    /\ pc[c] = "newline"
    /\ \/ EndWrite(c, FALSE) /\ Emitted(c, "newline")
       \/ Faulty /\ EndWrite(c, TRUE) /\ UNCHANGED out

----------------------------------------------------------------------------
(* The CloudWatch sink. *)

\* Mutant of Joined: only the error of the last sink is kept.
LastOnly(c, fails) == fails

\* errors.Join.
Joined(c, fails) == err[c] \/ fails

EndCloud(c, fails) ==
    /\ refused' = [refused EXCEPT ![c] = IF fails THEN @ \cup {"cloud"} ELSE @]
    /\ err' = [err EXCEPT ![c] = Joined(c, fails)]
    /\ Goto(c, "report")
    /\ UNCHANGED <<cloud, clock, time, mu, out, reports>>

\* The event is accepted, or refused because the queue is full.  How full it is
\* depends on the worker: Delivery leaves that open.
Enqueue(c) ==
    /\ pc[c] = "cloud"
    /\ \/ c \in Exchange /\ Service!Accept(c) /\ EndCloud(c, FALSE)
       \/ c \in Probe /\ EndCloud(c, FALSE) /\ UNCHANGED sink
       \/ Faulty /\ EndCloud(c, TRUE) /\ UNCHANGED sink

\* The emitter reports the joined error; the exchange is over.
Report(c) ==
    /\ pc[c] = "report"
    /\ reports' = IF err[c] THEN reports \cup {c} ELSE reports
    /\ Goto(c, "returned")
    /\ UNCHANGED <<cloud, clock, time, mu, out, refused, err, sink>>

\* PutLogEvents refuses a batch that is not in the order of its timestamps.
Chronological(b) == \A i, j \in DOMAIN b : i < j => time[b[i]] =< time[b[j]]

\* The worker sends a batch as it came out of the queue.
Flush(n) ==
    /\ Service!Settle(n)
    /\ LET b == SubSeq(accepted, Len(settled) + 1, Len(settled) + n)
       IN  /\ ~Chronological(b) => stored' = stored
           /\ ~Faulty /\ Chronological(b) => stored' = stored \o b /\ reported' = reported
    /\ UNCHANGED <<cloud, clock, pc, time, mu, out, refused, err, reports>>

Step(c) ==
    \/ \E now \in 0 .. MaxTime : Finalize(c, now)
    \/ Lock(c) \/ WriteBody(c) \/ WriteNewline(c) \/ Enqueue(c) \/ Report(c)

Next ==
    \/ \E c \in Caller : Step(c)
    \/ \E n \in 1 .. MaxBatch : Flush(n)

Spec == Init /\ [][Next]_vars

\* A goroutine that can go on does; sync.Mutex hands itself to the longest waiter
\* after a millisecond, hence strong fairness.
FairSpec ==
    /\ Spec
    /\ \A c \in Caller :
           /\ SF_vars(Lock(c))
           /\ WF_vars(WriteBody(c) \/ WriteNewline(c) \/ Enqueue(c) \/ Report(c))
    /\ WF_vars(\E n \in 1 .. MaxBatch : Flush(n))

----------------------------------------------------------------------------
(* Properties. *)

\* Type invariant; the mutex is held by the one between Lock and Unlock.
TypeOK ==
    /\ clock \in 0 .. MaxTime
    /\ pc \in [Caller -> {"serving", "lock", "body", "newline", "cloud", "report", "returned"}]
    /\ time \in [Caller -> 0 .. MaxTime]
    /\ {c \in Caller : pc[c] \in {"body", "newline"}} = {mu} \ {None}
    /\ out \in Seq([by : Caller, part : {"body", "newline", "fragment"}])
    /\ refused \in [Caller -> SUBSET {"stdout", "cloud"}]
    /\ err \in [Caller -> BOOLEAN]
    /\ reports \subseteq Caller

\* Exchanges and probes share stdout: a line holds one whole entry, unless a
\* write of this entry, or of the one before, failed; and the mutex has one holder
\* at a time, who is the one writing (StdoutSink.write).
LinesIntact ==
    /\ TypeOK
    /\ \A i \in DOMAIN out :
           /\ out[i].part = "newline" => i > 1 /\ out[i - 1] = [by |-> out[i].by, part |-> "body"]
           /\ out[i].part = "body" /\ i < Len(out) /\ "stdout" \notin refused[out[i].by]
                  => out[i + 1] = [by |-> out[i].by, part |-> "newline"]

\* What is on stdout and what CloudWatch was given do not depend on each other: when
\* an exchange is over, each of its sinks has the entry or failed by itself
\* (MultiSink).  The entry can thus be missing in one and present in the other.
FailuresAreIndependent ==
    \A c \in Caller : pc[c] = "returned" =>
        /\ "stdout" \in refused[c] \/ [by |-> c, part |-> "newline"] \in ToSet(out)
        /\ c \in cloud \cap Exchange => ("cloud" \in refused[c]) # (c \in ToSet(accepted))

\* An entry that an exchange left behind is lost nowhere without a report: neither
\* in the call, where the error of each sink survives the other's success, nor
\* later in the worker.
LossIsReported ==
    /\ FailuresAreIndependent
    /\ \A c \in Caller : pc[c] = "returned" /\ c \notin reports =>
           /\ [by |-> c, part |-> "newline"] \in ToSet(out)
           /\ c \in cloud \cap Exchange =>
                  c \in ToSet(stored) \cup reported \/ c \in ToSet(accepted) \ ToSet(settled)

\* An exchange that is over, and hence its client's connection, never hangs in
\* telemetry: in the end no entry that was begun is left unfinished, also after
\* failed writes, on whose mutex all others wait (StdoutSink.write).
CallsReturn == <>[](\A c \in Caller : pc[c] \in {"serving", "returned"})

\* "writes structured access logs to stdout and CloudWatch Logs" (SPEC.md): what
\* the sink accepted is stored once its batch was sent to a working service.
SentIsStored == \A c \in ToSet(settled) : c \in ToSet(stored)
=============================================================================
