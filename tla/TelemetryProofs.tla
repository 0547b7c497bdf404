-------------------------- MODULE TelemetryProofs --------------------------
(***************************************************************************)
(* Proofs about Telemetry for every set of exchanges and probes and every  *)
(* capacity: the lines on stdout are whole, and no loss goes unreported.   *)
(***************************************************************************)
EXTENDS Telemetry, SequenceTheorems, TLAPS

Part == {"body", "newline", "fragment"}
Place == {"serving", "lock", "body", "newline", "cloud", "report", "returned"}

Types ==
    /\ clock \in 0 .. MaxTime
    /\ pc \in [Caller -> Place]
    /\ time \in [Caller -> 0 .. MaxTime]
    /\ out \in Seq([by : Caller, part : Part])
    /\ refused \in [Caller -> SUBSET {"stdout", "cloud"}]
    /\ reports \subseteq Caller
    /\ accepted \in Seq(Exchange) /\ settled \in Seq(Exchange) /\ stored \in Seq(Exchange)

ErrTypes == err \in [Caller -> BOOLEAN]

\* The mutex is held by the one who writes.
MutexInv ==
    /\ mu \in Caller \cup {None}
    /\ \A c \in Caller : pc[c] \in {"body", "newline"} <=> mu = c

Body(c) == [by |-> c, part |-> "body"]
Newline(c) == [by |-> c, part |-> "newline"]

\* The lines, as LinesIntact has them; a body at the end belongs to the one who is
\* about to write the newline, or has failed to.
LineInv ==
    /\ \A i \in DOMAIN out :
           /\ out[i].part = "newline" => i > 1 /\ out[i - 1] = Body(out[i].by)
           /\ out[i].part = "body" /\ i < Len(out) /\ "stdout" \notin refused[out[i].by]
                  => out[i + 1] = Newline(out[i].by)
    /\ \A c \in Caller : pc[c] = "newline" => out # <<>> /\ out[Len(out)] = Body(c)
    /\ out # <<>> /\ out[Len(out)].part = "body" =>
           pc[out[Len(out)].by] = "newline" \/ "stdout" \in refused[out[Len(out)].by]

\* What the caller has behind it: stdout, the CloudWatch sink, the report.
StageOf(c) ==
    /\ pc[c] \in {"serving", "lock", "body", "newline"} => refused[c] = {}
    /\ pc[c] \in {"cloud", "report", "returned"} =>
          /\ "stdout" \in refused[c] \/ Newline(c) \in ToSet(out)
          /\ err[c] <=> refused[c] # {}
    /\ pc[c] \notin {"report", "returned"} => "cloud" \notin refused[c] /\ c \notin ToSet(accepted)
    /\ pc[c] \in {"report", "returned"} /\ c \in cloud \cap Exchange =>
          (("cloud" \in refused[c]) # (c \in ToSet(accepted)))
    /\ pc[c] = "returned" /\ c \notin reports => ~err[c]

StageInv == \A c \in Caller : StageOf(c)

\* The worker is finished with nothing that is neither stored nor reported.
SettledInv == ToSet(settled) \subseteq ToSet(stored) \cup reported

IndInv ==
    /\ Types
    /\ ErrTypes
    /\ MutexInv
    /\ LineInv
    /\ StageInv
    /\ SettledInv

----------------------------------------------------------------------------
(* Every step keeps the invariant. *)

LEMMA InitInv == Init => IndInv
<1> SUFFICES ASSUME Init PROVE IndInv
  OBVIOUS
<1> USE TelemetryAssumption DEF Init, Service!Init
<1>1. Types
  BY DEF Types, Place
<1>2. ErrTypes
  BY Zenon DEF ErrTypes
<1>3. MutexInv
  BY DEF MutexInv
<1>4. LineInv
  BY DEF LineInv, Body
<1>5. StageInv
  BY DEF StageInv, StageOf, ToSet
<1>6. SettledInv
  BY DEF SettledInv, ToSet
<1> QED
  BY <1>1, <1>2, <1>3, <1>4, <1>5, <1>6 DEF IndInv

\* ToSet of the library is Range of the theorems.
LEMMA Sets == \A f : ToSet(f) = Range(f) /\ Service!Range(f) = Range(f)
BY DEF ToSet, Range, Service!Range

\* The elements of a sequence that grows.
LEMMA AppendSet ==
    ASSUME NEW S, NEW s \in Seq(S), NEW x \in S
    PROVE  ToSet(Append(s, x)) = ToSet(s) \cup {x}
<1> DEFINE t == Append(s, x)
<1>1. /\ DOMAIN t = 1 .. Len(s) + 1 /\ DOMAIN s = 1 .. Len(s) /\ Len(s) \in Nat
      /\ \A i \in 1 .. Len(s) : t[i] = s[i]
      /\ t[Len(s) + 1] = x
  BY AppendProperties, LenProperties
<1> HIDE DEF t
<1>2. DOMAIN t = DOMAIN s \cup {Len(s) + 1}
  BY <1>1
<1>3. ToSet(t) = ToSet(s) \cup {x}
  BY <1>1, <1>2 DEF ToSet
<1> QED
  BY <1>3 DEF t

\* Everything on stdout has a writer.
LEMMA Writers ==
    ASSUME Types, NEW i \in DOMAIN out
    PROVE  out[i].by \in Caller
<1>1. ASSUME NEW R, out \in Seq(R) PROVE out[i] \in R
  BY <1>1
<1>2. out[i] \in [by : Caller, part : Part]
  BY <1>1 DEF Types
<1> QED
  BY <1>2

\* One caller moves.
LEMMA Moves ==
    ASSUME Types, NEW c \in Caller, NEW place \in Place, Goto(c, place)
    PROVE  /\ pc' \in [Caller -> Place] /\ pc'[c] = place
           /\ \A d \in Caller : d # c => pc'[d] = pc[d]
BY DEF Types, Goto

\* Nothing is written: whoever leaves the place before the newline has failed.
LEMMA LinesStay ==
    ASSUME Types, LineInv, out' = out,
           \A d \in Caller : refused[d] \subseteq refused'[d],
           \A d \in Caller : pc'[d] = "newline" => pc[d] = "newline",
           \A d \in Caller : pc[d] = "newline" => pc'[d] = "newline" \/ "stdout" \in refused'[d]
    PROVE  LineInv'
<1>1. \A i \in DOMAIN out : out[i].by \in Caller
  BY Writers
<1>2. out # <<>> => Len(out) \in DOMAIN out
  BY EmptySeq, LenProperties DEF Types
<1>3. ASSUME NEW i \in DOMAIN out'
      PROVE  /\ out'[i].part = "newline" => i > 1 /\ out'[i - 1] = Body(out'[i].by)
             /\ out'[i].part = "body" /\ i < Len(out') /\ "stdout" \notin refused'[out'[i].by]
                    => out'[i + 1] = Newline(out'[i].by)
  <2>1. "stdout" \notin refused'[out'[i].by] => "stdout" \notin refused[out[i].by]
    BY <1>1
  <2> QED
    BY <2>1 DEF LineInv
<1>4. \A c \in Caller : pc'[c] = "newline" => out' # <<>> /\ out'[Len(out')] = Body(c)
  BY DEF LineInv
<1>5. out' # <<>> /\ out'[Len(out')].part = "body" =>
          pc'[out'[Len(out')].by] = "newline" \/ "stdout" \in refused'[out'[Len(out')].by]
  BY <1>1, <1>2 DEF LineInv
<1> QED
  BY <1>3, <1>4, <1>5 DEF LineInv, Body, Newline

\* A part is written by the holder of the mutex.
LEMMA LinesGrow ==
    ASSUME Types, LineInv, NEW c \in Caller, NEW part \in Part, Emitted(c, part),
           \A d \in Caller : refused[d] \subseteq refused'[d],
           part = "newline" => pc[c] = "newline",
           part # "newline" => \A d \in Caller : pc[d] # "newline",
           \A d \in Caller : pc'[d] = "newline" => part = "body" /\ d = c,
           part = "body" => pc'[c] = "newline"
    PROVE  LineInv' /\ out' \in Seq([by : Caller, part : Part])
<1>0. [by |-> c, part |-> part] \in [by : Caller, part : Part]
  OBVIOUS
<1>1. /\ out' \in Seq([by : Caller, part : Part]) /\ out' # <<>>
      /\ Len(out) \in Nat /\ Len(out') = Len(out) + 1
      /\ DOMAIN out = 1 .. Len(out) /\ DOMAIN out' = 1 .. Len(out) + 1
      /\ \A i \in 1 .. Len(out) : out'[i] = out[i] /\ out[i].by \in Caller
      /\ out'[Len(out) + 1] = [by |-> c, part |-> part]
  <2>1. out \in Seq([by : Caller, part : Part])
    BY DEF Types
  <2>2. \A i \in 1 .. Len(out) : out[i].by \in Caller
    BY <2>1, Writers, LenProperties
  <2>3. out' = Append(out, [by |-> c, part |-> part])
    BY DEF Emitted
  <2>4. /\ out' \in Seq([by : Caller, part : Part]) /\ out' # <<>> /\ Len(out') = Len(out) + 1
        /\ \A i \in 1 .. Len(out) : out'[i] = out[i]
        /\ out'[Len(out) + 1] = [by |-> c, part |-> part]
    BY <1>0, <2>1, <2>3, AppendProperties
  <2> QED
    BY <2>1, <2>2, <2>4, LenProperties
<1>2. ASSUME NEW i \in DOMAIN out', out'[i].part = "newline"
      PROVE  i > 1 /\ out'[i - 1] = Body(out'[i].by)
  <2>1. CASE i \in 1 .. Len(out)
    <3>1. i > 1 /\ out[i - 1] = Body(out[i].by)
      BY <1>1, <1>2, <2>1 DEF LineInv
    <3>2. i - 1 \in 1 .. Len(out)
      BY <1>1, <2>1, <3>1
    <3> QED
      BY <1>1, <2>1, <3>1, <3>2
  <2>2. CASE i = Len(out) + 1
    <3>1. part = "newline" /\ out'[i].by = c
      BY <1>1, <1>2, <2>2
    <3>2. out # <<>> /\ out[Len(out)] = Body(c)
      BY <3>1 DEF LineInv
    <3>3. Len(out) > 0
      BY <1>1, <3>2, EmptySeq DEF Types
    <3> QED
      BY <1>1, <2>2, <3>1, <3>2, <3>3
  <2> QED
    BY <1>1, <2>1, <2>2
<1>3. ASSUME NEW i \in DOMAIN out', out'[i].part = "body", i < Len(out'),
             "stdout" \notin refused'[out'[i].by]
      PROVE  out'[i + 1] = Newline(out'[i].by)
  <2>1. i \in 1 .. Len(out) /\ out'[i] = out[i] /\ out[i].by \in Caller
    BY <1>1, <1>3
  <2>2. "stdout" \notin refused[out[i].by]
    BY <1>3, <2>1
  <2>3. CASE i < Len(out)
    <3>1. out[i + 1] = Newline(out[i].by)
      BY <1>1, <1>3, <2>1, <2>2, <2>3 DEF LineInv
    <3>2. i + 1 \in 1 .. Len(out)
      BY <1>1, <2>1, <2>3
    <3> QED
      BY <1>1, <2>1, <3>1, <3>2
  <2>4. CASE i = Len(out)
    <3>1. out # <<>>
      BY <1>1, <2>1, <2>4, EmptySeq
    <3>2. pc[out[i].by] = "newline"
      BY <1>3, <2>1, <2>2, <2>4, <3>1 DEF LineInv
    <3>3. part = "newline"
      BY <2>1, <3>2
    <3>4. out[i] = Body(c)
      BY <2>4, <3>3 DEF LineInv
    <3> QED
      BY <1>1, <2>1, <2>4, <3>3, <3>4 DEF Body, Newline
  <2> QED
    BY <1>1, <2>1, <2>3, <2>4
<1>4. ASSUME NEW d \in Caller, pc'[d] = "newline" PROVE out'[Len(out')] = Body(d)
  BY <1>1, <1>4 DEF Body
<1>5. ASSUME out'[Len(out')].part = "body"
      PROVE  pc'[out'[Len(out')].by] = "newline"
  BY <1>1, <1>5
<1> QED
  BY <1>1, <1>2, <1>3, <1>4, <1>5 DEF LineInv, Body, Newline

\* What the others have behind them stays.
LEMMA StageStays ==
    ASSUME NEW d \in Caller, StageOf(d), cloud' = cloud,
           pc'[d] = pc[d], refused'[d] = refused[d], err'[d] = err[d],
           d \in reports => d \in reports',
           ToSet(out) \subseteq ToSet(out'),
           d \in ToSet(accepted') <=> d \in ToSet(accepted)
    PROVE  StageOf(d)'
BY DEF StageOf, Newline

\* finalize and probeEndpoint.
LEMMA FinalizeInv ==
    ASSUME IndInv, NEW c \in Caller, NEW now \in 0 .. MaxTime, Finalize(c, now)
    PROVE  IndInv'
<1> USE DEF IndInv
<1>1. /\ pc[c] = "serving" /\ Goto(c, "lock") /\ clock' = now
      /\ time' = IF c \in Exchange THEN [time EXCEPT ![c] = now] ELSE time
      /\ UNCHANGED <<cloud, mu, out, refused, err, reports, sink>>
  BY DEF Finalize
<1>2. /\ pc' \in [Caller -> Place] /\ pc'[c] = "lock"
      /\ \A d \in Caller : d # c => pc'[d] = pc[d]
  BY <1>1, Moves DEF Place
<1>3. Types' /\ ErrTypes' /\ SettledInv'
  BY <1>1, <1>2 DEF Types, ErrTypes, SettledInv, sink
<1>4. MutexInv'
  BY <1>1, <1>2 DEF MutexInv
<1>5. LineInv'
  BY <1>1, <1>2, LinesStay
<1>6. StageInv'
  <2>1. ASSUME NEW d \in Caller, d # c PROVE StageOf(d)'
    BY <1>1, <1>2, <2>1, StageStays DEF StageInv, sink
  <2>2. StageOf(c)'
    BY <1>1, <1>2 DEF StageInv, StageOf, Newline, sink
  <2> QED
    BY <2>1, <2>2 DEF StageInv
<1> QED
  BY <1>3, <1>4, <1>5, <1>6

LEMMA LockInv ==
    ASSUME IndInv, NEW c \in Caller, Lock(c)
    PROVE  IndInv'
<1> USE DEF IndInv
<1>1. /\ pc[c] = "lock" /\ Goto(c, "body") /\ mu = None /\ mu' = c
      /\ UNCHANGED <<cloud, clock, time, out, refused, err, reports, sink>>
  BY DEF Lock
<1>2. /\ pc' \in [Caller -> Place] /\ pc'[c] = "body"
      /\ \A d \in Caller : d # c => pc'[d] = pc[d]
  BY <1>1, Moves DEF Place
<1>3. Types' /\ ErrTypes' /\ SettledInv'
  BY <1>1, <1>2 DEF Types, ErrTypes, SettledInv, sink
<1>4. MutexInv'
  BY <1>1, <1>2, TelemetryAssumption DEF MutexInv
<1>5. LineInv'
  BY <1>1, <1>2, LinesStay
<1>6. StageInv'
  <2>1. ASSUME NEW d \in Caller, d # c PROVE StageOf(d)'
    BY <1>1, <1>2, <2>1, StageStays DEF StageInv, sink
  <2>2. StageOf(c)'
    BY <1>1, <1>2 DEF StageInv, StageOf, Newline, sink
  <2> QED
    BY <2>1, <2>2 DEF StageInv
<1> QED
  BY <1>3, <1>4, <1>5, <1>6

\* A part written shows in the set of parts.
LEMMA OutSet ==
    ASSUME Types, NEW c \in Caller, NEW part \in Part, Emitted(c, part)
    PROVE  ToSet(out') = ToSet(out) \cup {[by |-> c, part |-> part]}
<1> DEFINE e == [by |-> c, part |-> part]
           R == [by : Caller, part : Part]
<1>1. e \in R /\ out \in Seq(R) /\ out' = Append(out, e)
  BY DEF Types, Emitted
<1>2. ASSUME NEW S, NEW x \in S, out \in Seq(S)
      PROVE  ToSet(Append(out, x)) = ToSet(out) \cup {x}
  BY <1>2, AppendSet
<1> HIDE DEF e, R
<1>3. ToSet(Append(out, e)) = ToSet(out) \cup {e}
  BY <1>1, <1>2
<1>4. ToSet(out') = ToSet(out) \cup {e}
  BY <1>1, <1>3
<1> QED
  BY <1>4 DEF e

\* The body is out, and the mutex kept.
LEMMA BodyWrittenInv ==
    ASSUME IndInv, NEW c \in Caller, pc[c] = "body", BodyWritten(c)
    PROVE  IndInv'
<1> USE DEF IndInv
<1>1. /\ Emitted(c, "body") /\ Goto(c, "newline")
      /\ UNCHANGED <<cloud, clock, time, mu, refused, err, reports, sink>>
  BY DEF BodyWritten
<1>2. /\ pc' \in [Caller -> Place] /\ pc'[c] = "newline"
      /\ \A d \in Caller : d # c => pc'[d] = pc[d]
  BY <1>1, Moves DEF Place
<1>3. \A d \in Caller : pc[d] # "newline"
  BY DEF MutexInv
<1>4. LineInv' /\ out' \in Seq([by : Caller, part : Part])
  BY <1>1, <1>2, <1>3, LinesGrow DEF Part
<1>5. Types' /\ ErrTypes' /\ SettledInv'
  BY <1>1, <1>2, <1>4 DEF Types, ErrTypes, SettledInv, sink
<1>6. MutexInv'
  BY <1>1, <1>2 DEF MutexInv
<1>7. StageInv'
  <2>1. ToSet(out) \subseteq ToSet(out')
    BY <1>1, OutSet DEF Part
  <2>2. ASSUME NEW d \in Caller, d # c PROVE StageOf(d)'
    BY <1>1, <1>2, <2>1, <2>2, StageStays DEF StageInv, sink
  <2>3. StageOf(c)'
    BY <1>1, <1>2 DEF StageInv, StageOf, Newline, sink
  <2> QED
    BY <2>2, <2>3 DEF StageInv
<1> QED
  BY <1>4, <1>5, <1>6, <1>7

\* The end of StdoutSink.write: the newline is out, or the error is noted.
LEMMA EndWriteInv ==
    ASSUME IndInv, NEW c \in Caller, pc[c] \in {"body", "newline"},
           NEW fails \in BOOLEAN, EndWrite(c, fails),
           \/ out' = out /\ fails
           \/ pc[c] = "body" /\ Emitted(c, "fragment") /\ fails
           \/ pc[c] = "newline" /\ Emitted(c, "newline") /\ ~fails
    PROVE  IndInv'
<1> USE DEF IndInv
<1>1. /\ mu' = None /\ Goto(c, AfterStdout(c, fails))
      /\ refused' = [refused EXCEPT ![c] = IF fails THEN @ \cup {"stdout"} ELSE @]
      /\ err' = [err EXCEPT ![c] = fails]
      /\ UNCHANGED <<cloud, clock, time, reports, sink>>
  BY DEF EndWrite, Unlock
<1>2. /\ pc' \in [Caller -> Place] /\ pc'[c] = IF c \in cloud THEN "cloud" ELSE "report"
      /\ \A d \in Caller : d # c => pc'[d] = pc[d]
  BY <1>1, Moves DEF Place, AfterStdout
<1>3. refused[c] = {} /\ c \notin ToSet(accepted)
  BY DEF StageInv, StageOf
<1>4. /\ refused' \in [Caller -> SUBSET {"stdout", "cloud"}]
      /\ refused'[c] = IF fails THEN {"stdout"} ELSE {}
      /\ \A d \in Caller : refused[d] \subseteq refused'[d] /\ (d # c => refused'[d] = refused[d])
  BY <1>1, <1>3 DEF Types
<1>5. err' \in [Caller -> BOOLEAN] /\ err'[c] = fails /\ \A d \in Caller : d # c => err'[d] = err[d]
  BY <1>1 DEF ErrTypes
<1>6. \A d \in Caller : d # c => pc[d] \notin {"body", "newline"}
  BY DEF MutexInv
<1>7. LineInv' /\ out' \in Seq([by : Caller, part : Part])
  <2>1. CASE out' = out /\ fails
    <3>1. out' \in Seq([by : Caller, part : Part])
      BY <2>1 DEF Types
    <3>2. \A d \in Caller : pc'[d] = "newline" => pc[d] = "newline"
      BY <1>2
    <3>3. \A d \in Caller : pc[d] = "newline" => pc'[d] = "newline" \/ "stdout" \in refused'[d]
      BY <1>4, <1>6, <2>1
    <3> QED
      BY <1>4, <2>1, <3>1, <3>2, <3>3, LinesStay
  <2>2. CASE pc[c] = "body" /\ Emitted(c, "fragment")
    <3>1. \A d \in Caller : pc[d] # "newline" /\ pc'[d] # "newline"
      BY <1>2, <1>6, <2>2
    <3> QED
      BY <1>4, <2>2, <3>1, LinesGrow DEF Part
  <2>3. CASE pc[c] = "newline" /\ Emitted(c, "newline")
    <3>1. \A d \in Caller : pc'[d] # "newline"
      BY <1>2, <1>6, <2>3
    <3> QED
      BY <1>4, <2>3, <3>1, LinesGrow DEF Part
  <2> QED
    BY <2>1, <2>2, <2>3
<1>8. Types' /\ SettledInv'
  BY <1>1, <1>2, <1>4, <1>7 DEF Types, SettledInv, sink
<1>9. MutexInv'
  BY <1>1, <1>2, <1>6, TelemetryAssumption DEF MutexInv
<1>10. StageInv'
  <2>1. ToSet(out) \subseteq ToSet(out') /\ (~fails => Newline(c) \in ToSet(out'))
    BY OutSet DEF Part, Newline
  <2>2. ASSUME NEW d \in Caller, d # c PROVE StageOf(d)'
    BY <1>1, <1>2, <1>4, <1>5, <2>1, <2>2, StageStays DEF StageInv, sink
  <2>3. StageOf(c)'
    <3>1. /\ pc'[c] \in {"cloud", "report"} /\ (pc'[c] = "report" => c \notin cloud')
          /\ c \notin ToSet(accepted')
      BY <1>1, <1>2, <1>3 DEF sink
    <3>2. "stdout" \in refused'[c] \/ Newline(c) \in ToSet(out')
      BY <1>4, <2>1
    <3>3. (err'[c] <=> refused'[c] # {}) /\ "cloud" \notin refused'[c]
      BY <1>4, <1>5
    <3> QED
      BY <3>1, <3>2, <3>3 DEF StageOf, Newline
  <2> QED
    BY <2>2, <2>3 DEF StageInv
<1> QED
  BY <1>5, <1>7, <1>8, <1>9, <1>10 DEF ErrTypes

\* The CloudWatch sink has its turn, and its error joins the one of stdout.
LEMMA EnqueueInv ==
    ASSUME IndInv, NEW c \in Caller, Enqueue(c)
    PROVE  IndInv'
<1> USE DEF IndInv
<1>1. PICK fails \in BOOLEAN :
        /\ EndCloud(c, fails)
        /\ \/ c \in Exchange /\ accepted' = Append(accepted, c) /\ ~fails
           \/ accepted' = accepted /\ (c \in Probe \/ fails)
        /\ UNCHANGED <<settled, stored, reported>>
  BY DEF Enqueue, Service!Accept, sink
<1>2. /\ pc[c] = "cloud" /\ Goto(c, "report")
      /\ refused' = [refused EXCEPT ![c] = IF fails THEN @ \cup {"cloud"} ELSE @]
      /\ err' = [err EXCEPT ![c] = err[c] \/ fails]
      /\ UNCHANGED <<cloud, clock, time, mu, out, reports>>
  BY <1>1 DEF Enqueue, EndCloud, Joined
<1>3. /\ pc' \in [Caller -> Place] /\ pc'[c] = "report"
      /\ \A d \in Caller : d # c => pc'[d] = pc[d]
  BY <1>2, Moves DEF Place
<1>4. /\ refused' \in [Caller -> SUBSET {"stdout", "cloud"}]
      /\ refused'[c] = IF fails THEN refused[c] \cup {"cloud"} ELSE refused[c]
      /\ \A d \in Caller : refused[d] \subseteq refused'[d] /\ (d # c => refused'[d] = refused[d])
  BY <1>2 DEF Types
<1>5. /\ err' \in [Caller -> BOOLEAN] /\ (err'[c] <=> err[c] \/ fails)
      /\ \A d \in Caller : d # c => err'[d] = err[d]
  BY <1>2 DEF ErrTypes
<1>6. /\ accepted' \in Seq(Exchange)
      /\ c \in Exchange => (c \in ToSet(accepted') <=> ~fails)
      /\ \A d \in Caller : d # c => (d \in ToSet(accepted') <=> d \in ToSet(accepted))
  <2>1. c \notin ToSet(accepted)
    BY <1>2 DEF StageInv, StageOf
  <2>2. CASE c \in Exchange /\ accepted' = Append(accepted, c) /\ ~fails
    <3>1. accepted' \in Seq(Exchange) /\ ToSet(accepted') = ToSet(accepted) \cup {c}
      <4>1. accepted \in Seq(Exchange) /\ c \in Exchange
        BY <2>2 DEF Types
      <4>2. Append(accepted, c) \in Seq(Exchange)
        BY <4>1, AppendProperties
      <4>3. ToSet(Append(accepted, c)) = ToSet(accepted) \cup {c}
        BY <4>1, AppendSet
      <4> QED
        BY <2>2, <4>2, <4>3
    <3> QED
      BY <2>2, <3>1
  <2>3. CASE accepted' = accepted /\ (c \in Probe \/ fails)
    BY <2>1, <2>3, TelemetryAssumption DEF Types
  <2> QED
    BY <1>1, <2>2, <2>3
<1>7. Types' /\ SettledInv'
  BY <1>1, <1>2, <1>3, <1>4, <1>6 DEF Types, SettledInv
<1>8. MutexInv'
  BY <1>2, <1>3 DEF MutexInv
<1>9. LineInv'
  BY <1>2, <1>3, <1>4, LinesStay
<1>10. StageInv'
  <2>1. ASSUME NEW d \in Caller, d # c PROVE StageOf(d)'
    BY <1>2, <1>3, <1>4, <1>5, <1>6, <2>1, StageStays DEF StageInv
  <2>2. StageOf(c)'
    <3>1. /\ "stdout" \in refused[c] \/ Newline(c) \in ToSet(out)
          /\ err[c] <=> refused[c] # {}
          /\ "cloud" \notin refused[c]
      BY <1>2 DEF StageInv, StageOf
    <3>2. "stdout" \in refused'[c] \/ Newline(c) \in ToSet(out')
      BY <1>2, <1>4, <3>1
    <3>3. err'[c] <=> refused'[c] # {}
      BY <1>4, <1>5, <3>1
    <3>4. c \in Exchange => (("cloud" \in refused'[c]) # (c \in ToSet(accepted')))
      BY <1>4, <1>6, <3>1
    <3> QED
      BY <1>3, <3>2, <3>3, <3>4 DEF StageOf, Newline
  <2> QED
    BY <2>1, <2>2 DEF StageInv
<1> QED
  BY <1>5, <1>7, <1>8, <1>9, <1>10 DEF ErrTypes

\* The report of the joined error.
LEMMA ReportInv ==
    ASSUME IndInv, NEW c \in Caller, Report(c)
    PROVE  IndInv'
<1> USE DEF IndInv
<1>1. /\ pc[c] = "report" /\ Goto(c, "returned")
      /\ reports' = IF err[c] THEN reports \cup {c} ELSE reports
      /\ UNCHANGED <<cloud, clock, time, mu, out, refused, err, sink>>
  BY DEF Report
<1>2. /\ pc' \in [Caller -> Place] /\ pc'[c] = "returned"
      /\ \A d \in Caller : d # c => pc'[d] = pc[d]
  BY <1>1, Moves DEF Place
<1>3. Types' /\ SettledInv'
  BY <1>1, <1>2 DEF Types, SettledInv, sink
<1>4. ErrTypes'
  BY <1>1 DEF ErrTypes
<1>5. MutexInv'
  BY <1>1, <1>2 DEF MutexInv
<1>6. LineInv'
  BY <1>1, <1>2, LinesStay
<1>7. StageInv'
  <2>1. ASSUME NEW d \in Caller, d # c PROVE StageOf(d)'
    BY <1>1, <1>2, <2>1, StageStays DEF StageInv, sink
  <2>2. StageOf(c)'
    BY <1>1, <1>2 DEF StageInv, StageOf, Newline, sink
  <2> QED
    BY <2>1, <2>2 DEF StageInv
<1> QED
  BY <1>3, <1>4, <1>5, <1>6, <1>7

\* The worker settles a batch.
LEMMA FlushInv ==
    ASSUME IndInv, NEW n \in 1 .. MaxBatch, Flush(n)
    PROVE  IndInv'
<1> USE DEF IndInv
<1> DEFINE b == SubSeq(accepted, Len(settled) + 1, Len(settled) + n)
<1>1. /\ UNCHANGED <<cloud, clock, pc, time, mu, out, refused, err, reports, accepted>>
      /\ Len(settled) + n =< Len(accepted)
      /\ settled' = settled \o b
      /\ \/ stored' = stored \o b /\ reported' = reported
         \/ stored' \in {stored, stored \o b} /\ reported' = reported \cup ToSet(b)
  BY Sets DEF Flush, Service!Settle
<1>2. b \in Seq(Exchange)
  <2>1. /\ accepted \in Seq(Exchange) /\ Len(settled) \in Nat /\ Len(accepted) \in Nat /\ n \in Nat
    BY LenProperties, TelemetryAssumption DEF Types
  <2>2. \A i \in Len(settled) + 1 .. Len(settled) + n : accepted[i] \in Exchange
    BY <1>1, <2>1, ElementOfSeq
  <2>3. Len(settled) + 1 \in Int /\ Len(settled) + n \in Int
    BY <2>1
  <2> QED
    BY <2>2, <2>3, SubSeqProperties
<1> HIDE DEF b
<1>3. /\ settled \o b \in Seq(Exchange) /\ stored \o b \in Seq(Exchange)
      /\ ToSet(settled \o b) = ToSet(settled) \cup ToSet(b)
      /\ ToSet(stored \o b) = ToSet(stored) \cup ToSet(b)
  <2>1. settled \o b \in Seq(Exchange) /\ stored \o b \in Seq(Exchange)
    BY <1>2, ConcatProperties DEF Types
  <2>2. Range(settled \o b) = Range(settled) \cup Range(b)
    BY <1>2, RangeConcatenation DEF Types
  <2>3. Range(stored \o b) = Range(stored) \cup Range(b)
    BY <1>2, RangeConcatenation DEF Types
  <2> QED
    BY <2>1, <2>2, <2>3, Sets
<1>4. Types'
  BY <1>1, <1>3 DEF Types
<1>5. ErrTypes' /\ MutexInv'
  BY <1>1 DEF ErrTypes, MutexInv
<1>6. LineInv'
  BY <1>1, LinesStay
<1>7. StageInv'
  BY <1>1, StageStays DEF StageInv
<1>8. SettledInv'
  BY <1>1, <1>3 DEF SettledInv
<1> QED
  BY <1>4, <1>5, <1>6, <1>7, <1>8

LEMMA StutterInv == IndInv /\ UNCHANGED vars => IndInv'
<1> SUFFICES ASSUME IndInv, UNCHANGED vars PROVE IndInv'
  OBVIOUS
<1> USE DEF IndInv, vars
<1>1. Types' /\ ErrTypes' /\ MutexInv' /\ SettledInv'
  BY DEF Types, ErrTypes, MutexInv, SettledInv, sink
<1>2. LineInv'
  BY LinesStay
<1>3. StageInv'
  BY StageStays DEF StageInv, sink
<1> QED
  BY <1>1, <1>2, <1>3

LEMMA Inductive == Spec => []IndInv
<1>1. ASSUME IndInv, [Next]_vars PROVE IndInv'
  <2>1. ASSUME NEW c \in Caller, WriteBody(c) PROVE IndInv'
    <3>1. pc[c] = "body"
      BY <2>1 DEF WriteBody
    <3>2. CASE BodyWritten(c)
      BY <1>1, <3>1, <3>2, BodyWrittenInv
    <3>3. CASE EndWrite(c, TRUE) /\ UNCHANGED out
      BY <1>1, <3>1, <3>3, EndWriteInv
    <3>4. CASE EndWrite(c, TRUE) /\ Emitted(c, "fragment")
      BY <1>1, <3>1, <3>4, EndWriteInv
    <3> QED
      BY <2>1, <3>2, <3>3, <3>4 DEF WriteBody
  <2>2. ASSUME NEW c \in Caller, WriteNewline(c) PROVE IndInv'
    <3>1. pc[c] = "newline"
      BY <2>2 DEF WriteNewline
    <3>2. CASE EndWrite(c, FALSE) /\ Emitted(c, "newline")
      BY <1>1, <3>1, <3>2, EndWriteInv
    <3>3. CASE EndWrite(c, TRUE) /\ UNCHANGED out
      BY <1>1, <3>1, <3>3, EndWriteInv
    <3> QED
      BY <2>2, <3>2, <3>3 DEF WriteNewline
  <2>3. ASSUME NEW c \in Caller, Step(c) PROVE IndInv'
    <3>1. ASSUME NEW now \in 0 .. MaxTime, Finalize(c, now) PROVE IndInv'
      BY <1>1, <3>1, FinalizeInv
    <3>2. CASE Lock(c) \/ Enqueue(c) \/ Report(c)
      BY <1>1, <3>2, LockInv, EnqueueInv, ReportInv
    <3> QED
      BY <2>1, <2>2, <2>3, <3>1, <3>2 DEF Step
  <2> QED
    BY <1>1, <2>3, FlushInv, StutterInv DEF Next
<1> QED
  BY <1>1, InitInv, PTL DEF Spec

----------------------------------------------------------------------------
(* The theorems. *)

\* StdoutSink.write: a line on stdout is one whole entry, unless a write failed.
THEOREM Lines == Spec => []LinesIntact
<1>1. IndInv => LinesIntact
  <2> SUFFICES ASSUME IndInv PROVE LinesIntact
    OBVIOUS
  <2>1. {c \in Caller : pc[c] \in {"body", "newline"}} = {mu} \ {None}
    BY TelemetryAssumption DEF IndInv, MutexInv
  <2>2. TypeOK
    BY <2>1 DEF IndInv, Types, ErrTypes, Place, Part, TypeOK
  <2> QED
    BY <2>2 DEF IndInv, LineInv, Body, Newline, LinesIntact
<1> QED
  BY <1>1, Inductive, PTL

\* MultiSink, emitTraffic and the worker: no entry is lost in either sink without
\* a report, and a failure of one sink does not touch the other.
THEOREM Losses == Spec => []LossIsReported
<1>1. IndInv => LossIsReported
  <2> SUFFICES ASSUME IndInv PROVE LossIsReported
    OBVIOUS
  <2>1. FailuresAreIndependent
    BY DEF IndInv, StageInv, StageOf, Newline, FailuresAreIndependent
  <2>2. ASSUME NEW c \in Caller, pc[c] = "returned", c \notin reports
        PROVE  /\ [by |-> c, part |-> "newline"] \in ToSet(out)
               /\ c \in cloud \cap Exchange =>
                     c \in ToSet(stored) \cup reported \/ c \in ToSet(accepted) \ ToSet(settled)
    <3>1. refused[c] = {}
      BY <2>2 DEF IndInv, StageInv, StageOf
    <3>2. Newline(c) \in ToSet(out)
      BY <2>2, <3>1 DEF IndInv, StageInv, StageOf
    <3>3. c \in cloud \cap Exchange => c \in ToSet(accepted)
      BY <2>2, <3>1 DEF IndInv, StageInv, StageOf
    <3> QED
      BY <3>2, <3>3 DEF Newline, IndInv, SettledInv
  <2> QED
    BY <2>1, <2>2 DEF LossIsReported
<1> QED
  BY <1>1, Inductive, PTL
=============================================================================
