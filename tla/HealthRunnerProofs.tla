------------------------- MODULE HealthRunnerProofs -------------------------
(***************************************************************************)
(* Proofs about HealthRunner for every set of endpoints.                   *)
(***************************************************************************)
EXTENDS HealthRunner, TLAPS

\* What a probe that is past its request knows.  A context error needs a
\* cancelled context, and the CloudWatch sink, which looks at the same context
\* afterwards, cannot have let it through: a context stays done.
ProbeInv ==
    \A e \in Endpoint :
        /\ probe[e] \in {"stdout", "cloud", "send"} => answer[e] # "none"
        /\ answer[e] = "context" => cancelled
        /\ probe[e] = "send" => answer[e] # "context"

\* What reached the CloudWatch sink comes from a probe that got an answer.
QueuedInv == \A r \in queued : r.status = 0 => r.answer \in {"down", "error", "malformed"}

IndInv == TypeOK /\ RoundsDoNotOverlap /\ ProbeInv /\ QueuedInv

----------------------------------------------------------------------------

LEMMA InitInv == Init => IndInv
BY DEF Init, IndInv, TypeOK, RoundsDoNotOverlap, ProbeInv, QueuedInv, Answer

\* Every step keeps the types.
LEMMA NextTypes == TypeOK /\ [Next]_vars => TypeOK'
<1> SUFFICES ASSUME TypeOK, [Next]_vars PROVE TypeOK'
  OBVIOUS
<1> USE DEF TypeOK
<1>1. ASSUME NEW e \in Endpoint, Request(e) PROVE TypeOK'
  <2>1. Answers(e) \subseteq Answer
    BY DEF Answers, Answer
  <2> QED
    BY <1>1, <2>1 DEF Request
<1>2. ASSUME NEW e \in Endpoint, EmitStdout(e) \/ EmitCloud(e) \/ Panic(e) PROVE TypeOK'
  BY <1>2 DEF EmitStdout, EmitCloud, Panic
<1>3. ASSUME NEW e \in Endpoint, Send(e) PROVE TypeOK'
  <2>1. Result(e) \in [endpoint : Endpoint, status : {0, 1}, answer : Answer]
    BY DEF Result, HealthStatus
  <2> QED
    BY <1>3, <2>1 DEF Send
<1>4. CASE RoundEnds
  BY <1>4 DEF RoundEnds
<1>5. CASE Tick
  BY <1>5 DEF Tick
<1>6. CASE NextRound
  BY <1>6 DEF NextRound, StartProbes, Answer
<1>7. CASE Leave
  BY <1>7 DEF Leave
<1>8. CASE Cancel
  BY <1>8 DEF Cancel
<1>9. CASE UNCHANGED vars
  BY <1>9 DEF vars
<1> QED
  BY <1>1, <1>2, <1>3, <1>4, <1>5, <1>6, <1>7, <1>8, <1>9 DEF Next, Probe, Gone

\* Every step keeps the rounds apart: a probe runs only in a round, and the
\* round ends when all have finished.
LEMMA NextRounds == TypeOK /\ RoundsDoNotOverlap /\ [Next]_vars => RoundsDoNotOverlap'
<1> SUFFICES ASSUME TypeOK, RoundsDoNotOverlap, [Next]_vars PROVE RoundsDoNotOverlap'
  OBVIOUS
<1> USE DEF TypeOK, RoundsDoNotOverlap
<1>1. ASSUME NEW e \in Endpoint, Probe(e) PROVE RoundsDoNotOverlap'
  BY <1>1 DEF Probe, Request, EmitStdout, EmitCloud, Send, Panic
<1>2. CASE RoundEnds
  BY <1>2 DEF RoundEnds
<1>3. CASE Tick \/ Leave \/ Cancel
  BY <1>3 DEF Tick, Leave, Cancel
<1>4. CASE NextRound
  BY <1>4 DEF NextRound, StartProbes
<1>5. CASE UNCHANGED vars
  BY <1>5 DEF vars
<1> QED
  BY <1>1, <1>2, <1>3, <1>4, <1>5 DEF Next, Gone

\* Every step keeps what the probes know of their answers.
LEMMA NextProbe == TypeOK /\ ProbeInv /\ [Next]_vars => ProbeInv'
<1> SUFFICES ASSUME TypeOK, ProbeInv, [Next]_vars PROVE ProbeInv'
  OBVIOUS
<1> USE DEF TypeOK, ProbeInv
<1>1. ASSUME NEW e \in Endpoint, Request(e) PROVE ProbeInv'
  BY <1>1 DEF Request, Answers
<1>2. ASSUME NEW e \in Endpoint, EmitStdout(e) \/ EmitCloud(e) \/ Send(e) \/ Panic(e) PROVE ProbeInv'
  BY <1>2 DEF EmitStdout, EmitCloud, Send, Panic
<1>3. CASE RoundEnds \/ Tick \/ Leave
  BY <1>3 DEF RoundEnds, Tick, Leave
<1>4. CASE NextRound
  BY <1>4 DEF NextRound, StartProbes
<1>5. CASE Cancel
  BY <1>5 DEF Cancel
<1>6. CASE UNCHANGED vars
  BY <1>6 DEF vars
<1> QED
  BY <1>1, <1>2, <1>3, <1>4, <1>5, <1>6 DEF Next, Probe, Gone

\* Only Send adds to what is queued.
LEMMA NextQueued == TypeOK /\ ProbeInv /\ QueuedInv /\ [Next]_vars => QueuedInv'
<1> SUFFICES ASSUME TypeOK, ProbeInv, QueuedInv, [Next]_vars PROVE QueuedInv'
  OBVIOUS
<1> USE DEF QueuedInv
<1>1. ASSUME NEW e \in Endpoint, Send(e) PROVE QueuedInv'
  <2>1. answer[e] \in Answer \ {"none", "context"}
    BY <1>1 DEF Send, ProbeInv, TypeOK
  <2>2. Result(e).status = 0 => Result(e).answer \in {"down", "error", "malformed"}
    BY <2>1 DEF Result, HealthStatus, Answer
  <2> QED
    BY <1>1, <2>2 DEF Send
<1>2. ASSUME NEW e \in Endpoint, Request(e) \/ EmitStdout(e) \/ EmitCloud(e) \/ Panic(e) PROVE QueuedInv'
  BY <1>2 DEF Request, EmitStdout, EmitCloud, Panic
<1>3. CASE RoundEnds \/ Tick \/ Leave \/ Cancel
  BY <1>3 DEF RoundEnds, Tick, Leave, Cancel
<1>4. CASE NextRound
  BY <1>4 DEF NextRound, StartProbes
<1>5. CASE UNCHANGED vars
  BY <1>5 DEF vars
<1> QED
  BY <1>1, <1>2, <1>3, <1>4, <1>5 DEF Next, Probe, Gone

LEMMA Inductive == Spec => []IndInv
<1>1. IndInv /\ [Next]_vars => IndInv'
  BY NextTypes, NextRounds, NextProbe, NextQueued DEF IndInv
<1> QED
  BY InitInv, <1>1, PTL DEF Spec

\* Runner.Run waits for the probes of a round before it looks at the ticker or
\* at its context again, for any number of endpoints.
THEOREM RoundsApart == Spec => []RoundsDoNotOverlap
BY Inductive, PTL DEF IndInv

\* The health value 0 that reaches CloudWatch is an endpoint's failure and not
\* the shutdown's, for any number of probes at any point of their way.
THEOREM NoFalseDown == Spec => []NoFalseDownInCloud
<1>1. IndInv => NoFalseDownInCloud
  BY DEF IndInv, NoFalseDownInCloud, QueuedInv
<1> QED
  BY Inductive, <1>1, PTL
=============================================================================
