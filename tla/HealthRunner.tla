---------------------------- MODULE HealthRunner ----------------------------
(***************************************************************************)
(* health.Runner (internal/health/runner.go): the goroutine of Run, its    *)
(* ticker, hasCloud, the probe goroutines that each round starts and waits for, and  *)
(* the emission of each result to standard output and, if it is open, to   *)
(* the CloudWatch health sink, while the run context may be cancelled at   *)
(* any moment.  The endpoints are external.                                *)
(***************************************************************************)
CONSTANTS
    Endpoint,     \* the configured endpoints
    Malformed     \* those no request can be built for

ASSUME RunnerAssumption == Malformed \subseteq Endpoint

VARIABLES
    runner,       \* "round" (waiting for the probes), "idle" (in select) or "gone"
    ticker,       \* "none" before it is made, "empty", or "tick" (its channel holds one)
    hasCloud,     \* the CloudWatch health sink could be opened
    probe,        \* probe[e]: "request", "stdout", "cloud", "send" or "finished"
    answer,       \* answer[e]: what the latest probe met
    cancelled,    \* the run context is done
    queued        \* what the CloudWatch sink accepted in this round, see Result

vars == <<runner, ticker, hasCloud, probe, answer, cancelled, queued>>

\* "up" is a status from 200 to 399 and "down" another one, whether or not the body
\* could be read; "error" is a refused connection or the client's timeout,
\* "context" the end of the run context.
Answer == {"none", "malformed", "up", "down", "error", "context"}

\* Mutant of HealthStatus: the HTTP status is reported.
HTTPStatus(a) == IF a = "up" THEN 200 ELSE 0

HealthStatus(a) == IF a = "up" THEN 1 ELSE 0

----------------------------------------------------------------------------

\* probeAll starts one goroutine for each endpoint.
StartProbes ==
    /\ runner' = "round"
    /\ probe' = [e \in Endpoint |-> "request"]
    /\ answer' = [e \in Endpoint |-> "none"]
    /\ queued' = {}

\* The first round begins at once, before the ticker is made.
Init ==
    /\ runner = "round"
    /\ ticker = "none"
    /\ hasCloud \in BOOLEAN
    /\ probe = [e \in Endpoint |-> "request"]
    /\ answer = [e \in Endpoint |-> "none"]
    /\ cancelled = FALSE
    /\ queued = {}

\* What client.Do may answer.  The answer of the endpoint may win against a
\* cancellation, but only a cancellation gives a context error.
Answers(e) ==
    IF e \in Malformed THEN {"malformed"}
    ELSE {"up", "down", "error"} \cup (IF cancelled THEN {"context"} ELSE {})

Request(e) ==
    /\ probe[e] = "request"
    /\ \E a \in Answers(e) : answer' = [answer EXCEPT ![e] = a]
    /\ probe' = [probe EXCEPT ![e] = "stdout"]
    /\ UNCHANGED <<runner, ticker, hasCloud, cancelled, queued>>

Result(e) == [endpoint |-> e, status |-> HealthStatus(answer[e]), answer |-> answer[e]]

\* emit: the stdout sink ignores the context.  Whether or not its write fails,
\* the CloudWatch sink gets the entry next.
EmitStdout(e) ==
    /\ probe[e] = "stdout"
    /\ probe' = [probe EXCEPT ![e] = IF hasCloud THEN "cloud" ELSE "finished"]
    /\ UNCHANGED <<runner, ticker, hasCloud, answer, cancelled, queued>>

\* Mutant of EmitCloud: no look at the context.
EmitAnyway(e) ==
    /\ probe[e] = "cloud"
    /\ probe' = [probe EXCEPT ![e] = "send"]
    /\ UNCHANGED <<runner, ticker, hasCloud, answer, cancelled, queued>>

\* The CloudWatch sink takes nothing from a context that is done.
EmitCloud(e) ==
    /\ probe[e] = "cloud"
    /\ probe' = [probe EXCEPT ![e] = IF cancelled THEN "finished" ELSE "send"]
    /\ UNCHANGED <<runner, ticker, hasCloud, answer, cancelled, queued>>

\* It may also drop an entry because its queue is full.
Send(e) ==
    /\ probe[e] = "send"
    /\ queued' \in {queued, queued \cup {Result(e)}}
    /\ probe' = [probe EXCEPT ![e] = "finished"]
    /\ UNCHANGED <<runner, ticker, hasCloud, answer, cancelled>>

\* Mutant of Panic: the goroutine dies without waitGroup.Done.
PanicWithoutDone(e) ==
    /\ probe[e] \in {"request", "stdout", "cloud", "send"}
    /\ probe' = [probe EXCEPT ![e] = "lost"]
    /\ UNCHANGED <<runner, ticker, hasCloud, answer, cancelled, queued>>

\* A panic in a probe is recovered in its own goroutine.
Panic(e) ==
    /\ probe[e] \in {"request", "stdout", "cloud", "send"}
    /\ probe' = [probe EXCEPT ![e] = "finished"]
    /\ UNCHANGED <<runner, ticker, hasCloud, answer, cancelled, queued>>

----------------------------------------------------------------------------

\* Mutant of RoundEnds: no wait for the probes.
RoundEndsEarly ==
    /\ runner = "round"
    /\ runner' = "idle"
    /\ ticker' = IF ticker = "none" THEN "empty" ELSE ticker
    /\ UNCHANGED <<hasCloud, probe, answer, cancelled, queued>>

\* waitGroup.Wait returns; the first round is followed by the making of the ticker.
RoundEnds ==
    /\ runner = "round"
    /\ \A e \in Endpoint : probe[e] = "finished"
    /\ runner' = "idle"
    /\ ticker' = IF ticker = "none" THEN "empty" ELSE ticker
    /\ UNCHANGED <<hasCloud, probe, answer, cancelled, queued>>

\* The ticker drops a tick when nobody has taken the one before.
Tick ==
    /\ runner # "gone"
    /\ ticker = "empty"
    /\ ticker' = "tick"
    /\ UNCHANGED <<runner, hasCloud, probe, answer, cancelled, queued>>

\* The two cases of the select.  With both ready either may be chosen.
NextRound ==
    /\ runner = "idle"
    /\ ticker = "tick"
    /\ ticker' = "empty"
    /\ StartProbes
    /\ UNCHANGED <<hasCloud, cancelled>>

\* Mutant of Leave: a waiting tick comes first.
LeaveWithoutTick ==
    /\ runner = "idle"
    /\ cancelled
    /\ ticker # "tick"
    /\ runner' = "gone"
    /\ UNCHANGED <<ticker, hasCloud, probe, answer, cancelled, queued>>

Leave ==
    /\ runner = "idle"
    /\ cancelled
    /\ runner' = "gone"
    /\ UNCHANGED <<ticker, hasCloud, probe, answer, cancelled, queued>>

\* main calls stopRun.
Cancel ==
    /\ ~cancelled
    /\ cancelled' = TRUE
    /\ UNCHANGED <<runner, ticker, hasCloud, probe, answer, queued>>

Gone == runner = "gone" /\ UNCHANGED vars

Probe(e) == Request(e) \/ EmitStdout(e) \/ EmitCloud(e) \/ Send(e) \/ Panic(e)

Next ==
    \/ \E e \in Endpoint : Probe(e)
    \/ RoundEnds
    \/ Tick
    \/ NextRound
    \/ Leave
    \/ Cancel
    \/ Gone

Spec == Init /\ [][Next]_vars

\* The probes have a timeout of 5 s, and select picks one of two ready cases at
\* random: it does not prefer the ticker for ever.
Fairness ==
    /\ \A e \in Endpoint : WF_vars(Probe(e))
    /\ WF_vars(RoundEnds)
    /\ WF_vars(NextRound \/ Leave)
    /\ SF_vars(Leave)

FairSpec == Spec /\ Fairness

----------------------------------------------------------------------------
(* Properties. *)

\* The type invariant.
TypeOK ==
    /\ runner \in {"round", "idle", "gone"}
    /\ ticker \in {"none", "empty", "tick"}
    /\ hasCloud \in BOOLEAN
    /\ probe \in [Endpoint -> {"request", "stdout", "cloud", "send", "finished"}]
    /\ answer \in [Endpoint -> Answer]
    /\ cancelled \in BOOLEAN
    /\ queued \subseteq [endpoint : Endpoint, status : {0, 1}, answer : Answer]

\* Rounds do not overlap, however slow an endpoint is: while the runner is in its
\* select, or gone, none of its probes is running.
RoundsDoNotOverlap == runner # "round" => \A e \in Endpoint : probe[e] = "finished"

\* A probe that the shutdown cuts off takes its endpoint for down.  Such a
\* result never reaches CloudWatch, whatever the order of the cancellation, the
\* answer and the two emissions; a 0 there means that the endpoint failed, and
\* nothing but 0 and 1 is sent.
NoFalseDownInCloud ==
    /\ TypeOK
    /\ \A r \in queued : r.status = 0 => r.answer \in {"down", "error", "malformed"}

\* No slow, failing or panicking probe stops the rounds: a tick that is waiting
\* is taken, unless the runner leaves.
TicksAreServed == (ticker = "tick") ~> (ticker = "empty" \/ runner = "gone")

\* The runner leaves after the cancellation, although its select may prefer a
\* waiting tick and begin further rounds.
CancelEnds == cancelled ~> (runner = "gone")

\* The runner goes on while it should and stops when it should.
RunnerGoesOnAndEnds == TicksAreServed /\ CancelEnds
=============================================================================
