-------------------------- MODULE SequentialProofs --------------------------
(***************************************************************************)
(* Proofs about the algorithms of Sequential, a section for each, for      *)
(* every set of data and every limit.  Each states an invariant of its     *)
(* subject's module; by Turns a step of Sequential is one of the subject's *)
(* module or leaves its variables alone.                                   *)
(*                                                                         *)
(* EMF events.  canAdd and add work datum by datum on two maps.  Fits says *)
(* the same of a batch as a whole, datum against datum, so that no         *)
(* induction over the batch is needed: Allowed and Extended go from one to *)
(* the other.                                                              *)
(***************************************************************************)
EXTENDS Sequential, SequenceTheorems, FiniteSetTheorems, WellFoundedInduction, TLAPS

\* The subject stays, and only it takes steps.
LEMMA Turns ==
    ASSUME [Next]_vars
    PROVE  /\ subject' = subject
           /\ subject = "emf" => Metrics!Next \/ UNCHANGED Metrics!vars
           /\ subject = "parser" => Body!Next \/ UNCHANGED Body!vars
           /\ subject = "text" => Cloud!Next \/ UNCHANGED Cloud!vars
           /\ subject = "signature" => Shape!Next \/ UNCHANGED Shape!vars
           /\ subject = "startup" => Start!Next \/ UNCHANGED Start!vars
           /\ subject = "retry" => Retry!Next \/ UNCHANGED Retry!vars
           /\ subject = "health" => Health!Next \/ UNCHANGED Health!vars
BY DEF Next, vars, emf, parser, text, signature, startup, retry, health, Metrics!vars,
       Body!vars, Cloud!vars, Shape!vars, Start!vars, Retry!vars, Health!vars

LEMMA Counts == \A S : Metrics!Cardinality(S) = Cardinality(S)
BY DEF Metrics!Cardinality, Cardinality, Metrics!IsFiniteSet, IsFiniteSet

----------------------------------------------------------------------------
Before(b, i) == {b[j].name : j \in 1 .. i - 1}

\* Two data that one event may carry.
Agree(d, e) ==
    /\ e.name \notin DOMAIN d.dims
    /\ d.name \notin DOMAIN e.dims
    /\ d.name = e.name => Metrics!SameMetric(d, e)
    /\ \A k \in DOMAIN d.dims \cap DOMAIN e.dims : d.dims[k] = e.dims[k]

\* A datum that an event may carry, with these keys reserved.
Sound(d, reserved) ==
    /\ d.name # EmptyName /\ d.name \notin reserved
    /\ Cardinality(DOMAIN d.dims) =< MaxDimensions
    /\ \A k \in DOMAIN d.dims : k # EmptyName /\ k \notin reserved

Fits(b, reserved) ==
    \A i \in DOMAIN b :
        /\ Sound(b[i], reserved)
        /\ Cardinality(Before(b, i)) < MaxMetrics
        /\ \A j \in 1 .. i - 1 : Agree(b[j], b[i])

\* The maps of an emfBatchState hold what its data say.
Noted(s) ==
    /\ Metrics!BatchState(s)
    /\ \A i \in DOMAIN s.datums :
           /\ s.metrics[s.datums[i].name].value = s.datums[i].value
           /\ s.metrics[s.datums[i].name].unit = s.datums[i].unit
           /\ \A k \in DOMAIN s.datums[i].dims : s.dims[k] = s.datums[i].dims[k]

Prefix(s, b) == Len(s) =< Len(b) /\ \A i \in 1 .. Len(s) : s[i] = b[i]

----------------------------------------------------------------------------
(* canAdd and add. *)

LEMMA NewBatch == Noted(Metrics!newBatchState) /\ \A R : Fits(Metrics!newBatchState.datums, R)
BY DEF Noted, Metrics!BatchState, Metrics!Names, Metrics!DimKeys, Fits, Metrics!newBatchState

\* A batch that fits can be built up again datum by datum, also with fewer reserved keys.
LEMMA Allowed ==
    ASSUME NEW s, Noted(s), NEW b \in Seq(Data), NEW R, NEW Q, Q \subseteq R, Fits(b, R),
           Prefix(s.datums, b), Len(s.datums) < Len(b)
    PROVE  Metrics!canAdd(s, b[Len(s.datums) + 1], Q)
<1> DEFINE p == Len(s.datums)
           d == b[p + 1]
<1>1. /\ p \in Nat /\ DOMAIN s.datums = 1 .. p /\ p + 1 \in DOMAIN b
      /\ \A i \in 1 .. p : s.datums[i] = b[i]
  BY LenProperties DEF Noted, Metrics!BatchState, Prefix
<1>2. /\ Sound(d, R) /\ Cardinality(Before(b, p + 1)) < MaxMetrics
      /\ \A i \in 1 .. p : Agree(s.datums[i], d)
  <2>1. (p + 1) - 1 = p
    BY <1>1
  <2> QED
    BY <1>1, <2>1 DEF Fits
<1>3. DOMAIN s.metrics = Before(b, p + 1)
  <2>1. (p + 1) - 1 = p
    BY <1>1
  <2> QED
    BY <1>1, <2>1 DEF Noted, Metrics!BatchState, Metrics!Names, Before
<1> HIDE DEF p, d
<1>4. d.name \notin DOMAIN s.dims
  BY <1>1, <1>2 DEF Noted, Metrics!BatchState, Metrics!DimKeys, Agree
<1>5. ASSUME d.name \in DOMAIN s.metrics PROVE Metrics!SameMetric(s.metrics[d.name], d)
  <2>1. PICK i \in 1 .. p : s.datums[i].name = d.name
    BY <1>1, <1>5 DEF Noted, Metrics!BatchState, Metrics!Names
  <2> QED
    BY <1>1, <1>2, <2>1 DEF Noted, Agree, Metrics!SameMetric
<1>6. ASSUME NEW k \in DOMAIN d.dims
      PROVE  k \notin DOMAIN s.metrics /\ (k \in DOMAIN s.dims => s.dims[k] = d.dims[k])
  <2>1. k \notin DOMAIN s.metrics
    BY <1>1, <1>2, <1>6 DEF Noted, Metrics!BatchState, Metrics!Names, Agree
  <2>2. ASSUME k \in DOMAIN s.dims PROVE s.dims[k] = d.dims[k]
    <3>1. PICK i \in 1 .. p : k \in DOMAIN s.datums[i].dims
      BY <1>1, <2>2 DEF Noted, Metrics!BatchState, Metrics!DimKeys
    <3> QED
      BY <1>1, <1>2, <1>6, <3>1 DEF Noted, Agree
  <2> QED
    BY <2>1, <2>2
<1>7. Metrics!canAdd(s, d, Q)
  BY <1>2, <1>3, <1>4, <1>5, <1>6, Counts DEF Metrics!canAdd, Sound
<1> QED
  BY <1>7 DEF p, d

\* What canAdd lets in keeps the batch one that fits, and add notes it.
LEMMA Extended ==
    ASSUME NEW s, Noted(s), NEW R, Fits(s.datums, R), NEW d \in Data, Metrics!canAdd(s, d, R)
    PROVE  /\ Noted(Metrics!add(s, d)) /\ Fits(Metrics!add(s, d).datums, R)
           /\ Metrics!add(s, d).datums = Append(s.datums, d)
<1> DEFINE p == Len(s.datums)
           t == Metrics!add(s, d)
<1>0. s.datums \in Seq(Data)
  BY DEF Noted, Metrics!BatchState
<1>1. /\ t.datums = Append(s.datums, d) /\ t.datums \in Seq(Data)
      /\ p \in Nat /\ DOMAIN s.datums = 1 .. p /\ DOMAIN t.datums = 1 .. p + 1
      /\ \A i \in 1 .. p : t.datums[i] = s.datums[i]
      /\ t.datums[p + 1] = d
  BY <1>0, AppendProperties, LenProperties DEF Metrics!add
<1>2. /\ DOMAIN t.metrics = DOMAIN s.metrics \cup {d.name}
      /\ t.metrics[d.name].value = d.value /\ t.metrics[d.name].unit = d.unit
      /\ \A n \in DOMAIN s.metrics : n # d.name => t.metrics[n] = s.metrics[n]
  BY DEF Metrics!add
<1>3. /\ DOMAIN t.dims = DOMAIN s.dims \cup DOMAIN d.dims
      /\ \A k \in DOMAIN d.dims : t.dims[k] = d.dims[k]
      /\ \A k \in DOMAIN s.dims : k \notin DOMAIN d.dims => t.dims[k] = s.dims[k]
  BY DEF Metrics!add
<1>4. /\ \A i \in 1 .. p : s.datums[i].name \in DOMAIN s.metrics
      /\ \A i \in 1 .. p : DOMAIN s.datums[i].dims \subseteq DOMAIN s.dims
  BY <1>1 DEF Noted, Metrics!BatchState, Metrics!Names, Metrics!DimKeys
<1> HIDE DEF p, t
<1>5. DOMAIN t.datums = DOMAIN s.datums \cup {p + 1}
  BY <1>1
<1>6. Metrics!Names(t.datums) = Metrics!Names(s.datums) \cup {d.name}
  BY <1>1, <1>5 DEF Metrics!Names
<1>7. Metrics!DimKeys(t.datums) = Metrics!DimKeys(s.datums) \cup DOMAIN d.dims
  BY <1>1, <1>5 DEF Metrics!DimKeys
<1>8. Metrics!BatchState(t)
  BY <1>1, <1>2, <1>3, <1>6, <1>7 DEF Noted, Metrics!BatchState
<1>9. ASSUME NEW i \in DOMAIN t.datums
      PROVE  /\ t.metrics[t.datums[i].name].value = t.datums[i].value
             /\ t.metrics[t.datums[i].name].unit = t.datums[i].unit
             /\ \A k \in DOMAIN t.datums[i].dims : t.dims[k] = t.datums[i].dims[k]
  <2>1. CASE i = p + 1
    BY <1>1, <1>2, <1>3, <2>1
  <2>2. CASE i \in 1 .. p
    <3>1. /\ s.metrics[s.datums[i].name].value = s.datums[i].value
          /\ s.metrics[s.datums[i].name].unit = s.datums[i].unit
          /\ \A k \in DOMAIN s.datums[i].dims : s.dims[k] = s.datums[i].dims[k]
      BY <1>1, <2>2 DEF Noted
    <3>2. s.datums[i].name = d.name => s.datums[i].value = d.value /\ s.datums[i].unit = d.unit
      BY <1>4, <2>2, <3>1 DEF Metrics!canAdd, Metrics!SameMetric
    <3>3. /\ t.metrics[s.datums[i].name].value = s.datums[i].value
          /\ t.metrics[s.datums[i].name].unit = s.datums[i].unit
      BY <1>2, <1>4, <2>2, <3>1, <3>2
    <3>4. ASSUME NEW k \in DOMAIN s.datums[i].dims PROVE t.dims[k] = s.datums[i].dims[k]
      BY <1>3, <1>4, <2>2, <3>1, <3>4 DEF Metrics!canAdd
    <3> QED
      BY <1>1, <2>2, <3>3, <3>4
  <2> QED
    BY <1>1, <2>1, <2>2
<1>10. Noted(t)
  BY <1>8, <1>9 DEF Noted
<1>11. ASSUME NEW i \in DOMAIN t.datums
       PROVE  /\ Sound(t.datums[i], R)
              /\ Cardinality(Before(t.datums, i)) < MaxMetrics
              /\ \A j \in 1 .. i - 1 : Agree(t.datums[j], t.datums[i])
  <2>1. CASE i \in 1 .. p
    <3>1. \A j \in 1 .. i - 1 : j \in 1 .. p
      BY <1>1, <2>1
    <3>2. Before(t.datums, i) = Before(s.datums, i)
      BY <1>1, <3>1 DEF Before
    <3> QED
      BY <1>1, <2>1, <3>1, <3>2 DEF Fits
  <2>2. CASE i = p + 1
    <3>1. i - 1 = p
      BY <1>1, <2>2
    <3>2. Before(t.datums, i) = DOMAIN s.metrics
      <4>1. DOMAIN s.metrics = {s.datums[j].name : j \in 1 .. p}
        BY <1>1 DEF Noted, Metrics!BatchState, Metrics!Names
      <4>2. Before(t.datums, i) = {t.datums[j].name : j \in 1 .. p}
        BY <3>1 DEF Before
      <4>3. {t.datums[j].name : j \in 1 .. p} = {s.datums[j].name : j \in 1 .. p}
        BY <1>1
      <4> QED
        BY <4>1, <4>2, <4>3
    <3>3. ASSUME NEW j \in 1 .. p PROVE Agree(s.datums[j], d)
      <4>1. d.name \notin DOMAIN s.datums[j].dims /\ s.datums[j].name \notin DOMAIN d.dims
        BY <1>4 DEF Metrics!canAdd
      <4>2. ASSUME s.datums[j].name = d.name PROVE Metrics!SameMetric(s.datums[j], d)
        <5>1. Metrics!SameMetric(s.metrics[s.datums[j].name], d)
          BY <1>4, <4>2 DEF Metrics!canAdd
        <5>2. /\ s.metrics[s.datums[j].name].value = s.datums[j].value
              /\ s.metrics[s.datums[j].name].unit = s.datums[j].unit
          BY <1>1 DEF Noted
        <5> QED
          BY <5>1, <5>2 DEF Metrics!SameMetric
      <4>3. \A k \in DOMAIN s.datums[j].dims \cap DOMAIN d.dims : s.datums[j].dims[k] = d.dims[k]
        BY <1>1, <1>4 DEF Metrics!canAdd, Noted
      <4> QED
        BY <4>1, <4>2, <4>3 DEF Agree
    <3>4. Sound(d, R)
      BY Counts DEF Sound, Metrics!canAdd
    <3>5. Cardinality(Before(t.datums, i)) < MaxMetrics
      BY <3>2, Counts DEF Metrics!canAdd
    <3> QED
      BY <1>1, <2>2, <3>1, <3>3, <3>4, <3>5
  <2> QED
    BY <1>1, <2>1, <2>2
<1>12. Fits(t.datums, R)
  BY <1>11 DEF Fits
<1> QED
  BY <1>1, <1>10, <1>12 DEF t

----------------------------------------------------------------------------
(* A batch that fits, as a whole. *)

LEMMA OwnName == ASSUME Metrics!EmfAssumption, NEW d \in Data PROVE d.name \notin DOMAIN d.dims
BY DEF Metrics!EmfAssumption

\* Fits is Compatible, what SPEC.md asks for, whose limit looks at all but the last.
LEMMA FitsIsCompatible ==
    ASSUME Metrics!EmfAssumption, NEW s \in Seq(Data), s # <<>>, NEW R
    PROVE  Fits(s, R) <=> Metrics!Compatible(s, R)
<1>1. /\ Len(s) \in Nat /\ Len(s) > 0 /\ DOMAIN s = 1 .. Len(s) /\ Len(s) \in DOMAIN s
      /\ \A i \in DOMAIN s : s[i] \in Data
  BY EmptySeq, LenProperties, ElementOfSeq
<1>2. Metrics!Names(SubSeq(s, 1, Len(s) - 1)) = Before(s, Len(s))
  <2> DEFINE q == SubSeq(s, 1, Len(s) - 1)
  <2>1. DOMAIN q = 1 .. Len(s) - 1 /\ \A i \in 1 .. Len(s) - 1 : q[i] = s[i]
    BY <1>1
  <2> HIDE DEF q
  <2>2. Metrics!Names(q) = Before(s, Len(s))
    BY <2>1 DEF Metrics!Names, Before
  <2> QED
    BY <2>2 DEF q
<1>3. ASSUME NEW i \in DOMAIN s
      PROVE  /\ Cardinality(Before(s, i)) =< Cardinality(Before(s, Len(s)))
             /\ Cardinality(Before(s, i)) \in Nat
  <2>1. Before(s, i) \subseteq Before(s, Len(s))
    BY <1>1 DEF Before
  <2>2. IsFiniteSet(Before(s, Len(s)))
    <3>1. IsFiniteSet(1 .. Len(s) - 1)
      BY <1>1, FS_Interval
    <3>2. 1 .. Len(s) - 1 \subseteq DOMAIN s
      BY <1>1
    <3> DEFINE f == [j \in 1 .. Len(s) - 1 |-> s[j].name]
    <3>3. f \in Surjection(1 .. Len(s) - 1, Before(s, Len(s)))
      BY DEF Surjection, Before
    <3> QED
      BY <3>1, <3>3, FS_Surjection
  <2> QED
    BY <2>1, <2>2, FS_Subset, FS_CardinalityType
<1>4. (\A i \in DOMAIN s : Cardinality(Before(s, i)) < MaxMetrics)
         <=> Cardinality(Metrics!Names(SubSeq(s, 1, Len(s) - 1))) < MaxMetrics
  BY <1>1, <1>2, <1>3 DEF Metrics!EmfAssumption
<1>5. (\A i \in DOMAIN s : Sound(s[i], R))
         <=> /\ (Metrics!Names(s) \cup Metrics!DimKeys(s)) \cap (R \cup {EmptyName}) = {}
             /\ \A d \in Metrics!Range(s) : Cardinality(DOMAIN d.dims) =< MaxDimensions
  BY DEF Sound, Metrics!Names, Metrics!DimKeys, Metrics!Range
<1>6. (\A i \in DOMAIN s : \A j \in 1 .. i - 1 : Agree(s[j], s[i]))
         <=> /\ Metrics!Names(s) \cap Metrics!DimKeys(s) = {}
             /\ \A i, j \in DOMAIN s :
                    /\ i # j /\ s[i].name = s[j].name => Metrics!SameMetric(s[i], s[j])
                    /\ \A k \in DOMAIN s[i].dims \cap DOMAIN s[j].dims : s[i].dims[k] = s[j].dims[k]
  <2>1. ASSUME \A i \in DOMAIN s : \A j \in 1 .. i - 1 : Agree(s[j], s[i]),
               NEW i \in DOMAIN s, NEW j \in DOMAIN s
        PROVE  /\ s[i].name \notin DOMAIN s[j].dims
               /\ i # j /\ s[i].name = s[j].name => Metrics!SameMetric(s[i], s[j])
               /\ \A k \in DOMAIN s[i].dims \cap DOMAIN s[j].dims : s[i].dims[k] = s[j].dims[k]
    <3>1. CASE i = j
      BY <1>1, <3>1, OwnName
    <3>2. CASE i < j
      <4>1. Agree(s[i], s[j])
        BY <1>1, <2>1, <3>2
      <4> QED
        BY <3>2, <4>1 DEF Agree
    <3>3. CASE j < i
      <4>1. Agree(s[j], s[i])
        BY <1>1, <2>1, <3>3
      <4> QED
        BY <3>3, <4>1 DEF Agree, Metrics!SameMetric
    <3> QED
      BY <1>1, <3>1, <3>2, <3>3
  <2>2. ASSUME Metrics!Names(s) \cap Metrics!DimKeys(s) = {},
               \A i, j \in DOMAIN s :
                    /\ i # j /\ s[i].name = s[j].name => Metrics!SameMetric(s[i], s[j])
                    /\ \A k \in DOMAIN s[i].dims \cap DOMAIN s[j].dims : s[i].dims[k] = s[j].dims[k],
               NEW i \in DOMAIN s, NEW j \in 1 .. i - 1
        PROVE  Agree(s[j], s[i])
    <3>1. j \in DOMAIN s /\ i # j
      BY <1>1
    <3>2. s[i].name \notin DOMAIN s[j].dims /\ s[j].name \notin DOMAIN s[i].dims
      BY <2>2, <3>1 DEF Metrics!Names, Metrics!DimKeys
    <3> QED
      BY <2>2, <3>1, <3>2 DEF Agree
  <2>3. (\A i, j \in DOMAIN s : s[i].name \notin DOMAIN s[j].dims) => Metrics!Names(s) \cap Metrics!DimKeys(s) = {}
    BY DEF Metrics!Names, Metrics!DimKeys
  <2> QED
    BY <2>1, <2>2, <2>3
<1>7. Fits(s, R) <=> /\ \A i \in DOMAIN s : Sound(s[i], R)
                     /\ \A i \in DOMAIN s : Cardinality(Before(s, i)) < MaxMetrics
                     /\ \A i \in DOMAIN s : \A j \in 1 .. i - 1 : Agree(s[j], s[i])
  BY DEF Fits
<1> QED
  BY <1>4, <1>5, <1>6, <1>7, Counts DEF Metrics!Compatible

\* The first and the last of some positions are among them.
LEMMA LeastIn == ASSUME NEW S, S \subseteq Nat, S # {} PROVE Metrics!Least(S) \in S
<1>1. PICK x \in S : \A y \in S : ~(<<y, x>> \in OpToRel(<, Nat))
  BY WFMin, NatLessThanWellFounded
<1>2. \A y \in S : ~(y < x)
  BY <1>1, Zenon DEF OpToRel
<1>3. \A y \in S : x =< y
  BY <1>2
<1> QED
  BY <1>3 DEF Metrics!Least

LEMMA MostIn == ASSUME NEW n \in Nat, NEW S, S \subseteq 1 .. n, S # {} PROVE Metrics!Most(S) \in S
<1> DEFINE T == {n - i : i \in S}
<1>1. T \subseteq Nat /\ T # {}
  <2>1. \A i \in S : n - i \in Nat
    OBVIOUS
  <2> QED
    BY <2>1
<1> HIDE DEF T
<1>2. PICK x \in T : \A y \in T : ~(<<y, x>> \in OpToRel(<, Nat))
  BY <1>1, WFMin, NatLessThanWellFounded
<1>3. \A y \in T : x =< y
  <2>1. \A y \in T : ~(y < x)
    BY <1>1, <1>2, Zenon DEF OpToRel
  <2> QED
    BY <1>1, <2>1
<1>4. PICK i \in S : x = n - i
  BY DEF T
<1>5. \A j \in S : i >= j
  BY <1>3, <1>4 DEF T
<1> QED
  BY <1>5 DEF Metrics!Most

\* From the fields and directives of an event CloudWatch reads the data it was built from.
LEMMA GivesBack ==
    ASSUME Metrics!EmfAssumption, NEW b \in Seq(Data), NEW R, Fits(b, R)
    PROVE  Metrics!Extracted(Metrics!buildEMFParts(b)) = Metrics!Range(b)
<1>1. Len(b) \in Nat /\ DOMAIN b = 1 .. Len(b) /\ \A i \in DOMAIN b : b[i] \in Data
  BY LenProperties, ElementOfSeq
<1>2. ASSUME NEW i \in DOMAIN b, NEW j \in DOMAIN b
      PROVE  /\ b[i].name \notin DOMAIN b[j].dims
             /\ b[i].name = b[j].name => b[i].value = b[j].value /\ b[i].unit = b[j].unit
             /\ \A k \in DOMAIN b[i].dims \cap DOMAIN b[j].dims : b[i].dims[k] = b[j].dims[k]
  <2>1. CASE i = j
    BY <1>1, <2>1, OwnName
  <2>2. CASE i < j
    <3>1. Agree(b[i], b[j])
      BY <1>1, <2>2 DEF Fits
    <3> QED
      BY <3>1 DEF Agree, Metrics!SameMetric
  <2>3. CASE j < i
    <3>1. Agree(b[j], b[i])
      BY <1>1, <2>3 DEF Fits
    <3> QED
      BY <3>1 DEF Agree, Metrics!SameMetric
  <2> QED
    BY <1>1, <2>1, <2>2, <2>3
<1>3. ASSUME NEW i \in DOMAIN b PROVE b[i].name \in Metrics!Names(b) /\ Metrics!metricFields(b)[b[i].name] = b[i].value
  <2> DEFINE S == {j \in DOMAIN b : b[j].name = b[i].name}
  <2>1. S \subseteq Nat /\ S # {}
    BY <1>1
  <2>2. Metrics!Least(S) \in S
    BY <2>1, LeastIn
  <2>3. b[i].name \in Metrics!Names(b) /\ Metrics!metricFields(b)[b[i].name] = b[Metrics!Least(S)].value
    BY DEF Metrics!metricFields, Metrics!Names
  <2> HIDE DEF S
  <2>4. Metrics!Least(S) \in DOMAIN b /\ b[Metrics!Least(S)].name = b[i].name
    BY <2>2 DEF S
  <2> QED
    BY <1>2, <2>3, <2>4
<1>4. ASSUME NEW i \in DOMAIN b, NEW k \in DOMAIN b[i].dims
      PROVE  k \notin Metrics!Names(b) /\ Metrics!dimensionFields(b)[k] = b[i].dims[k]
  <2> DEFINE S == {j \in DOMAIN b : k \in DOMAIN b[j].dims}
  <2>1. S \subseteq 1 .. Len(b) /\ S # {}
    BY <1>1
  <2>2. Metrics!Most(S) \in S
    BY <1>1, <2>1, MostIn
  <2>3. k \in Metrics!DimKeys(b) /\ Metrics!dimensionFields(b)[k] = b[Metrics!Most(S)].dims[k]
    BY DEF Metrics!dimensionFields, Metrics!DimKeys
  <2> HIDE DEF S
  <2>4. Metrics!Most(S) \in DOMAIN b /\ k \in DOMAIN b[Metrics!Most(S)].dims
    BY <2>2 DEF S
  <2> QED
    BY <1>2, <2>3, <2>4 DEF Metrics!Names
<1> DEFINE parts == Metrics!buildEMFParts(b)
           KeySets == {DOMAIN b[i].dims : i \in DOMAIN b}
           Unit(K, n) == b[Metrics!Least({i \in DOMAIN b : DOMAIN b[i].dims = K /\ b[i].name = n})].unit
           With(K) == {b[i].name : i \in {j \in DOMAIN b : DOMAIN b[j].dims = K}}
           Directive(K) == [keys |-> K, metrics |-> {[name |-> n, unit |-> Unit(K, n)] : n \in With(K)}]
           root(k) == IF k \in DOMAIN parts.metrics THEN parts.metrics[k] ELSE parts.dims[k]
           Read(m, K) == Metrics!datum(m.name, root(m.name), m.unit, [k \in K |-> root(k)])
<1>5. ASSUME NEW i \in DOMAIN b PROVE Unit(DOMAIN b[i].dims, b[i].name) = b[i].unit
  <2> DEFINE S == {j \in DOMAIN b : DOMAIN b[j].dims = DOMAIN b[i].dims /\ b[j].name = b[i].name}
  <2>1. S \subseteq Nat /\ S # {}
    BY <1>1
  <2>2. Metrics!Least(S) \in S
    BY <2>1, LeastIn
  <2>3. Metrics!Least(S) \in DOMAIN b /\ b[Metrics!Least(S)].name = b[i].name
    BY <2>2
  <2>4. Unit(DOMAIN b[i].dims, b[i].name) = b[Metrics!Least(S)].unit
    OBVIOUS
  <2> HIDE DEF S
  <2> QED
    BY <1>2, <2>3, <2>4
<1>6. ASSUME NEW i \in DOMAIN b, NEW m, m.name = b[i].name, m.unit = b[i].unit
      PROVE  Read(m, DOMAIN b[i].dims) = b[i]
  <2>1. parts.metrics = Metrics!metricFields(b) /\ parts.dims = Metrics!dimensionFields(b) /\ DOMAIN parts.metrics = Metrics!Names(b)
    BY DEF Metrics!buildEMFParts, Metrics!metricFields
  <2> HIDE DEF parts
  <2>2. root(m.name) = b[i].value
    BY <1>3, <1>6, <2>1
  <2>3. \A k \in DOMAIN b[i].dims : root(k) = b[i].dims[k]
    BY <1>4, <2>1
  <2> HIDE DEF root
  <2>4. [k \in DOMAIN b[i].dims |-> root(k)] = [k \in DOMAIN b[i].dims |-> b[i].dims[k]]
    BY <2>3
  <2>5. b[i] = Metrics!datum(b[i].name, b[i].value, b[i].unit, [k \in DOMAIN b[i].dims |-> b[i].dims[k]])
    BY <1>1 DEF Metrics!EmfAssumption
  <2> QED
    BY <1>6, <2>2, <2>4, <2>5
<1>7. parts.directives = {Directive(K) : K \in KeySets}
  BY DEF Metrics!buildEMFParts, Metrics!directives
<1>8. Metrics!Extracted(parts) = UNION {{Read(m, D.keys) : m \in D.metrics} : D \in parts.directives}
  BY Zenon DEF Metrics!Extracted
<1> HIDE DEF parts, Unit, Read
<1>9. ASSUME NEW x \in Metrics!Extracted(parts) PROVE x \in Metrics!Range(b)
  <2>1. PICK K \in KeySets : \E m \in Directive(K).metrics : x = Read(m, K)
    BY <1>7, <1>8
  <2> PICK m \in Directive(K).metrics : x = Read(m, K)
    BY <2>1
  <2>2. PICK i \in DOMAIN b : DOMAIN b[i].dims = K /\ m = [name |-> b[i].name, unit |-> Unit(K, b[i].name)]
    OBVIOUS
  <2>3. x = b[i]
    BY <1>5, <1>6, <2>1, <2>2
  <2> QED
    BY <2>3 DEF Metrics!Range
<1>10. ASSUME NEW x \in Metrics!Range(b) PROVE x \in Metrics!Extracted(parts)
  <2>1. PICK i \in DOMAIN b : x = b[i]
    BY DEF Metrics!Range
  <2> DEFINE K == DOMAIN b[i].dims
             m == [name |-> b[i].name, unit |-> Unit(K, b[i].name)]
  <2>2. K \in KeySets /\ m \in Directive(K).metrics
    OBVIOUS
  <2>3. x = Read(m, K)
    BY <1>5, <1>6, <2>1
  <2>4. Directive(K).keys = K /\ Directive(K) \in parts.directives
    BY <1>7, <2>2
  <2> HIDE DEF K, m, Directive
  <2> QED
    BY <1>8, <2>2, <2>3, <2>4
<1> QED
  BY <1>9, <1>10 DEF parts

----------------------------------------------------------------------------
(* The inductive invariant. *)

EmfTypes ==
    /\ op \in {"Log", "Publish"}
    /\ input \in Input
    /\ pos \in 0 .. Len(input)
    /\ batches \in Seq(Seq(Data))
    /\ phase \in {"partition", "encode", "returned"}
    /\ current \in 1 .. Len(batches) + 1
    /\ Noted(batch) /\ Noted(again)

\* What partitionDatums has put together may be together.
BatchesFit ==
    /\ Fits(batch.datums, Metrics!PartitionKeys)
    /\ \A k \in DOMAIN batches : Fits(batches[k], Metrics!PartitionKeys)

\* A batch was closed before the end of the data only because they do not all fit
\* in one event.
Whole ==
    /\ phase = "partition" =>
          /\ failed = {}
          /\ batches = <<>> => Len(batch.datums) = pos /\ Prefix(batch.datums, input)
          /\ batches # <<>> => ~Fits(input, Metrics!PartitionKeys)
    /\ phase # "partition" /\ input # <<>> =>
          /\ Fits(input, Metrics!PartitionKeys) <=> Len(batches) = 1 /\ 0 \notin failed
          /\ Len(batches) = 1 /\ 0 \notin failed => batches[1] = input

\* Every datum looked at has gone into a batch, and every batch into an event.
Kept ==
    /\ BatchesAreTheData
    /\ phase = "partition" /\ pos > 0 => batch.datums # <<>>
    /\ failed = {} /\ phase # "partition" => Len(events) = current - 1
    /\ failed = {} /\ phase = "returned" /\ input # <<>> => current = Len(batches) + 1

Event == {[batch |-> k, emf |-> Metrics!buildEMFParts(batches[k])] : k \in DOMAIN batches}

\* buildEMF goes through the current batch again, and has written the batches
\* it has written.
Encoded ==
    /\ phase = "partition" => events = <<>> /\ current = 1 /\ again = Metrics!newBatchState
    /\ phase = "encode" => current \in DOMAIN batches /\ Prefix(again.datums, batches[current])
    /\ events \in Seq(Event)
    /\ \A k \in failed : k = 0 \/ (k \in DOMAIN batches /\ ~Metrics!Expressible(batches[k]))

EmfInv ==
    /\ EmfTypes
    /\ BatchesFit
    /\ Whole
    /\ Kept
    /\ Encoded

LEMMA EmfInit == Metrics!EmfAssumption /\ Metrics!Init => EmfInv
<1> SUFFICES ASSUME Metrics!EmfAssumption, Metrics!Init PROVE EmfInv
  OBVIOUS
<1> USE DEF Metrics!Init
<1>1. Len(input) \in Nat /\ Len(Metrics!newBatchState.datums) = 0 /\ batch.datums = <<>>
  BY LenProperties DEF Metrics!EmfAssumption, Metrics!newBatchState
<1>2. EmfTypes
  BY <1>1, NewBatch DEF EmfTypes
<1>3. BatchesFit
  BY NewBatch DEF BatchesFit
<1>4. Whole
  BY <1>1 DEF Whole, Prefix
<1>5. Encoded
  BY DEF Encoded
<1>6. Kept
  <2> DEFINE none == [k \in 0 .. 0 |-> 0]
  <2>1. Len(batches) = 0 /\ DOMAIN batches = {} /\ pos = 0
    OBVIOUS
  <2>2. none \in [0 .. Len(batches) -> 0 .. pos] /\ none[0] = 0 /\ none[Len(batches)] = 0
    BY <2>1
  <2>3. batch.datums = SubSeq(input, 1, 0)
    BY <1>1
  <2>4. BatchesAreTheData
    <3> HIDE DEF none
    <3> QED
      BY <2>1, <2>2, <2>3 DEF BatchesAreTheData
  <2> QED
    BY <2>4 DEF Kept
<1> QED
  BY <1>2, <1>3, <1>4, <1>5, <1>6 DEF EmfInv

\* The next datum.
LEMMA Looks ==
    ASSUME Metrics!EmfAssumption, EmfTypes, Metrics!Looking
    PROVE  /\ input \in Seq(Data) /\ Len(input) \in Nat /\ pos \in Nat /\ phase = "partition"
           /\ pos + 1 \in DOMAIN input /\ input[pos + 1] \in Data /\ pos + 1 \in 0 .. Len(input)
           /\ input # <<>>
<1>1. input \in Seq(Data)
  BY DEF Metrics!EmfAssumption, EmfTypes
<1>2. Len(input) \in Nat /\ pos \in Nat /\ pos + 1 \in 1 .. Len(input) /\ phase = "partition"
  BY <1>1, LenProperties DEF EmfTypes, Metrics!Looking
<1> QED
  BY <1>1, <1>2, LenProperties, ElementOfSeq, EmptySeq

\* The data behind a place, with one more.
LEMMA OneMore ==
    ASSUME NEW S, NEW s \in Seq(S), NEW a \in Nat, NEW p \in Nat, a =< p, p < Len(s)
    PROVE  /\ Append(SubSeq(s, a + 1, p), s[p + 1]) = SubSeq(s, a + 1, p + 1)
           /\ SubSeq(s, p + 1, p + 1) = <<s[p + 1]>>
           /\ (SubSeq(s, a + 1, p) = <<>> <=> a = p)
<1> DEFINE b == SubSeq(s, a + 1, p)
           c == SubSeq(s, a + 1, p + 1)
           x == s[p + 1]
<1>1. Len(s) \in Nat /\ p + 1 \in 1 .. Len(s) /\ x \in S
  BY LenProperties, ElementOfSeq
<1>2. /\ b \in Seq(S) /\ Len(b) = p - a
      /\ \A i \in 1 .. p - a : b[i] = s[a + i]
  BY <1>1
<1>3. /\ c \in Seq(S) /\ Len(c) = p - a + 1
      /\ \A i \in 1 .. p - a + 1 : c[i] = s[a + i]
  BY <1>1
<1>4. b = <<>> <=> a = p
  BY <1>2, EmptySeq
<1>5. SubSeq(s, p + 1, p + 1) = <<x>>
  <2> DEFINE e == SubSeq(s, p + 1, p + 1)
  <2>1. e \in Seq(S) /\ Len(e) = 1 /\ e[1] = x
    BY <1>1
  <2>2. <<x>> \in Seq(S) /\ Len(<<x>>) = 1 /\ <<x>>[1] = x
    BY <1>1
  <2> HIDE DEF e, x
  <2>3. e = <<x>>
    BY <2>1, <2>2, SeqEqual
  <2> QED
    BY <2>3 DEF e
<1> HIDE DEF b, c
<1>6. Append(b, x) = c
  <2>1. /\ Append(b, x) \in Seq(S) /\ Len(Append(b, x)) = p - a + 1
        /\ \A i \in 1 .. p - a : Append(b, x)[i] = b[i]
        /\ Append(b, x)[p - a + 1] = x
    BY <1>1, <1>2, AppendProperties
  <2>2. ASSUME NEW i \in 1 .. p - a + 1 PROVE Append(b, x)[i] = c[i]
    <3>1. CASE i \in 1 .. p - a
      BY <1>2, <1>3, <2>1, <3>1
    <3>2. CASE i = p - a + 1
      BY <1>3, <2>1, <3>2
    <3>3. i \in 1 .. p - a \/ i = p - a + 1
      BY <1>1
    <3> QED
      BY <3>1, <3>2, <3>3
  <2> QED
    BY <1>3, <2>1, <2>2, SeqEqual
<1> QED
  BY <1>4, <1>5, <1>6 DEF b, c

\* Steps that leave the partition alone.
LEMMA SameBatches ==
    ASSUME BatchesAreTheData, UNCHANGED <<input, pos, batch, batches>>, 0 \in failed' <=> 0 \in failed
    PROVE  BatchesAreTheData'
BY DEF BatchesAreTheData

LEMMA JoinInv == ASSUME Metrics!EmfAssumption, EmfInv, Metrics!Join PROVE EmfInv'
<1> USE DEF EmfInv
<1> DEFINE d == input[pos + 1]
<1>1. /\ input \in Seq(Data) /\ Len(input) \in Nat /\ pos \in Nat /\ phase = "partition"
      /\ pos + 1 \in DOMAIN input /\ d \in Data /\ pos + 1 \in 0 .. Len(input)
  BY Looks DEF Metrics!Join
<1>2. /\ Metrics!canAdd(batch, d, Metrics!PartitionKeys) /\ pos' = pos + 1 /\ batch' = Metrics!add(batch, d)
      /\ UNCHANGED <<op, input, batches, phase, current, again, events, failed>>
  BY DEF Metrics!Join
<1>3. Noted(batch) /\ Fits(batch.datums, Metrics!PartitionKeys) /\ batch.datums \in Seq(Data)
  BY DEF EmfTypes, BatchesFit, Noted, Metrics!BatchState
<1> HIDE DEF d
<1>4. /\ Noted(batch') /\ Fits(batch'.datums, Metrics!PartitionKeys)
      /\ batch'.datums = Append(batch.datums, d)
  BY <1>1, <1>2, <1>3, Extended
<1>5. EmfTypes'
  BY <1>1, <1>2, <1>4 DEF EmfTypes
<1>6. BatchesFit'
  BY <1>2, <1>4 DEF BatchesFit, Metrics!PartitionKeys
<1>7. ASSUME batches' = <<>> PROVE Len(batch'.datums) = pos' /\ Prefix(batch'.datums, input')
  <2>1. Len(batch.datums) = pos /\ Prefix(batch.datums, input)
    BY <1>1, <1>2, <1>7 DEF Whole
  <2>2. /\ Len(batch'.datums) = pos + 1 /\ batch'.datums[pos + 1] = d
        /\ \A i \in 1 .. pos : batch'.datums[i] = batch.datums[i]
    BY <1>1, <1>3, <1>4, <2>1, AppendProperties
  <2> QED
    BY <1>1, <1>2, <2>1, <2>2 DEF Prefix, d
<1>8. Whole'
  BY <1>1, <1>2, <1>7 DEF Whole, Metrics!PartitionKeys
<1>9. Encoded'
  BY <1>1, <1>2 DEF Encoded, Event
<1>10. Kept'
  <2>1. PICK end \in [0 .. Len(batches) -> 0 .. pos] :
            /\ end[0] = 0
            /\ \A k \in DOMAIN batches :
                   end[k - 1] < end[k] /\ batches[k] = SubSeq(input, end[k - 1] + 1, end[k])
            /\ batch.datums = SubSeq(input, end[Len(batches)] + 1, pos)
    BY <1>1 DEF Kept, Whole, BatchesAreTheData
  <2>2. Len(batches) \in Nat /\ end[Len(batches)] \in 0 .. pos /\ pos < Len(input)
    <3>1. Len(batches) \in Nat
      BY LenProperties DEF EmfTypes
    <3>2. Len(batches) \in 0 .. Len(batches)
      BY <3>1
    <3>3. end[Len(batches)] \in 0 .. pos
      BY <3>2
    <3>4. pos < Len(input)
      BY <1>1, LenProperties
    <3> QED
      BY <3>1, <3>3, <3>4
  <2>3. batch'.datums = SubSeq(input, end[Len(batches)] + 1, pos + 1)
    <3> DEFINE a == end[Len(batches)]
    <3>1. a \in Nat /\ a =< pos /\ batch.datums = SubSeq(input, a + 1, pos)
      BY <1>1, <2>1, <2>2
    <3> HIDE DEF a
    <3>2. Append(SubSeq(input, a + 1, pos), input[pos + 1]) = SubSeq(input, a + 1, pos + 1)
      BY <1>1, <2>2, <3>1, OneMore
    <3> QED
      BY <1>4, <3>1, <3>2 DEF a, d
  <2>4. end \in [0 .. Len(batches) -> 0 .. pos + 1]
    BY <1>1
  <2>5. BatchesAreTheData'
    BY <1>2, <2>1, <2>3, <2>4 DEF BatchesAreTheData
  <2>6. batch'.datums # <<>>
    <3>1. Append(batch.datums, d) # <<>>
      BY <1>1, <1>3, AppendProperties
    <3> QED
      BY <1>4, <3>1
  <2> QED
    BY <1>1, <1>2, <2>5, <2>6 DEF Kept
<1> QED
  BY <1>5, <1>6, <1>8, <1>9, <1>10

\* A batch closed.
LEMMA Closed ==
    ASSUME EmfTypes, BatchesFit, NEW b \in Seq(Data), Fits(b, Metrics!PartitionKeys)
    PROVE  /\ Append(batches, b) \in Seq(Seq(Data)) /\ Len(Append(batches, b)) = Len(batches) + 1
           /\ Len(batches) \in Nat /\ Append(batches, b) # <<>>
           /\ \A k \in DOMAIN Append(batches, b) : Fits(Append(batches, b)[k], Metrics!PartitionKeys)
           /\ Append(batches, b)[Len(batches) + 1] = b
<1> DEFINE t == Append(batches, b)
<1>1. /\ t \in Seq(Seq(Data)) /\ Len(t) = Len(batches) + 1 /\ t # <<>>
      /\ DOMAIN t = 1 .. Len(batches) + 1 /\ DOMAIN batches = 1 .. Len(batches) /\ Len(batches) \in Nat
      /\ \A k \in 1 .. Len(batches) : t[k] = batches[k]
      /\ t[Len(batches) + 1] = b
  BY AppendProperties, LenProperties DEF EmfTypes
<1> HIDE DEF t
<1>2. ASSUME NEW k \in DOMAIN t PROVE Fits(t[k], Metrics!PartitionKeys)
  <2>1. k = Len(batches) + 1 \/ k \in 1 .. Len(batches)
    BY <1>1
  <2> QED
    BY <1>1, <2>1 DEF BatchesFit
<1> QED
  BY <1>1, <1>2 DEF t

\* If the next datum does not fit the data before it, they do not all fit.
LEMMA Split1 ==
    ASSUME Metrics!EmfAssumption, EmfInv, Metrics!Looking, ~Metrics!canAdd(batch, input[pos + 1], Metrics!PartitionKeys)
    PROVE  ~Fits(input, Metrics!PartitionKeys)
<1>1. CASE batches # <<>>
  BY <1>1, Looks DEF EmfInv, Whole
<1>2. CASE batches = <<>>
  <2>1. Len(batch.datums) = pos /\ Prefix(batch.datums, input) /\ Noted(batch)
    BY <1>2, Looks DEF EmfInv, EmfTypes, Whole
  <2>2. input \in Seq(Data) /\ pos < Len(input)
    BY Looks DEF EmfInv, Metrics!Looking
  <2>3. Fits(input, Metrics!PartitionKeys) => Metrics!canAdd(batch, input[Len(batch.datums) + 1], Metrics!PartitionKeys)
    BY <2>1, <2>2, Allowed
  <2> QED
    BY <2>1, <2>3
<1> QED
  BY <1>1, <1>2

\* The batch ends where the partition is.
LEMMA ClosedHere ==
    ASSUME Metrics!EmfAssumption, EmfInv, phase = "partition", batch.datums # <<>>,
           pos' = pos \/ pos' = pos + 1, input' = input,
           batches' = Append(batches, batch.datums), batch'.datums = SubSeq(input, pos + 1, pos')
    PROVE  BatchesAreTheData'
<1> DEFINE n == Len(batches)
<1>1. PICK end \in [0 .. n -> 0 .. pos] :
          /\ end[0] = 0
          /\ \A k \in DOMAIN batches :
                 end[k - 1] < end[k] /\ batches[k] = SubSeq(input, end[k - 1] + 1, end[k])
          /\ batch.datums = SubSeq(input, end[n] + 1, pos)
  BY DEF EmfInv, Kept, Whole, BatchesAreTheData
<1>2. /\ n \in Nat /\ DOMAIN batches = 1 .. n /\ pos \in Nat /\ pos' \in Nat /\ end[n] \in 0 .. pos
      /\ input \in Seq(Data) /\ Len(input) \in Nat /\ pos =< Len(input)
      /\ batches \in Seq(Seq(Data)) /\ batch.datums \in Seq(Data)
  <2>1. input \in Seq(Data) /\ batches \in Seq(Seq(Data)) /\ batch.datums \in Seq(Data)
    BY DEF EmfInv, EmfTypes, Noted, Metrics!BatchState, Metrics!EmfAssumption
  <2>2. n \in Nat /\ DOMAIN batches = 1 .. n /\ Len(input) \in Nat
    BY <2>1, LenProperties
  <2>3. pos \in Nat /\ pos' \in Nat /\ pos =< Len(input)
    BY <2>2 DEF EmfInv, EmfTypes
  <2>4. n \in 0 .. n
    BY <2>2
  <2> HIDE DEF n
  <2>5. end[n] \in 0 .. pos
    BY <2>4
  <2> QED
    BY <2>1, <2>2, <2>3, <2>5
<1> HIDE DEF n
<1>3. end[n] < pos
  <2>1. SubSeq(input, pos + 1, pos) = <<>>
    BY <1>2, EmptySeq
  <2> QED
    BY <1>1, <1>2, <2>1
<1>4. /\ Len(batches') = n + 1 /\ DOMAIN batches' = 1 .. n + 1 /\ batches'[n + 1] = batch.datums
      /\ \A k \in 1 .. n : batches'[k] = batches[k]
  BY <1>2, AppendProperties DEF n
<1> DEFINE fin == [k \in 0 .. n + 1 |-> IF k = n + 1 THEN pos ELSE end[k]]
<1>5. fin \in [0 .. n + 1 -> 0 .. pos'] /\ fin[0] = 0 /\ fin[n + 1] = pos
  <2>1. \A k \in 0 .. n + 1 : k # n + 1 => k \in 0 .. n
    BY <1>2
  <2>2. pos \in 0 .. pos' /\ \A k \in 0 .. n : end[k] \in 0 .. pos'
    BY <1>2
  <2>3. 0 \in 0 .. n + 1 /\ n + 1 \in 0 .. n + 1 /\ 0 # n + 1
    BY <1>2
  <2> QED
    BY <1>1, <2>1, <2>2, <2>3
<1>6. ASSUME NEW k \in 1 .. n + 1
      PROVE  fin[k - 1] < fin[k] /\ batches'[k] = SubSeq(input, fin[k - 1] + 1, fin[k])
  <2>1. CASE k = n + 1
    <3>1. fin[k] = pos /\ fin[k - 1] = end[n]
      <4>1. k - 1 = n /\ n # n + 1 /\ n \in 0 .. n + 1 /\ k \in 0 .. n + 1
        BY <1>2, <2>1
      <4> QED
        BY <2>1, <4>1
    <3> QED
      BY <1>1, <1>3, <1>4, <2>1, <3>1
  <2>2. CASE k \in 1 .. n
    <3>1. fin[k] = end[k] /\ fin[k - 1] = end[k - 1]
      <4>1. k # n + 1 /\ k - 1 # n + 1 /\ k \in 0 .. n + 1 /\ k - 1 \in 0 .. n + 1
        BY <1>2, <2>2
      <4> QED
        BY <4>1
    <3> QED
      BY <1>1, <1>2, <1>4, <2>2, <3>1
  <2>3. k = n + 1 \/ k \in 1 .. n
    BY <1>2
  <2> QED
    BY <2>1, <2>2, <2>3
<1> HIDE DEF fin
<1> QED
  BY <1>4, <1>5, <1>6 DEF BatchesAreTheData

LEMMA SplitInv == ASSUME Metrics!EmfAssumption, EmfInv, Metrics!Split PROVE EmfInv'
<1> USE DEF EmfInv
<1> DEFINE d == input[pos + 1]
<1>1. /\ input \in Seq(Data) /\ Len(input) \in Nat /\ pos \in Nat /\ phase = "partition"
      /\ pos + 1 \in DOMAIN input /\ d \in Data /\ pos + 1 \in 0 .. Len(input)
  BY Looks DEF Metrics!Split
<1>2. /\ Metrics!canAdd(Metrics!newBatchState, d, Metrics!PartitionKeys) /\ pos' = pos + 1 /\ batch' = Metrics!add(Metrics!newBatchState, d)
      /\ batches' = Append(batches, batch.datums)
      /\ UNCHANGED <<op, input, phase, current, again, events, failed>>
  BY DEF Metrics!Split
<1>3. ~Fits(input, Metrics!PartitionKeys)
  BY Split1 DEF Metrics!Split
<1>4. Fits(batch.datums, Metrics!PartitionKeys) /\ batch.datums \in Seq(Data)
  BY DEF EmfTypes, BatchesFit, Noted, Metrics!BatchState
<1> HIDE DEF d
<1>5. Noted(batch') /\ Fits(batch'.datums, Metrics!PartitionKeys)
  BY <1>1, <1>2, NewBatch, Extended
<1>6. /\ batches' \in Seq(Seq(Data)) /\ Len(batches') = Len(batches) + 1 /\ Len(batches) \in Nat
      /\ batches' # <<>> /\ \A k \in DOMAIN batches' : Fits(batches'[k], Metrics!PartitionKeys)
  BY <1>2, <1>4, Closed
<1>7. EmfTypes'
  BY <1>1, <1>2, <1>5, <1>6 DEF EmfTypes
<1>8. BatchesFit'
  BY <1>2, <1>5, <1>6 DEF BatchesFit, Metrics!PartitionKeys
<1>9. Whole'
  BY <1>1, <1>2, <1>3, <1>6 DEF Whole, Metrics!PartitionKeys
<1>10. Encoded'
  <2>1. failed' = {} /\ events' = <<>>
    BY <1>1, <1>2 DEF Whole, Encoded
  <2> QED
    BY <1>1, <1>2, <2>1 DEF Encoded
<1>11. Kept'
  <2>1. batch'.datums = <<d>>
    BY <1>2 DEF Metrics!add, Metrics!newBatchState
  <2>2. batch'.datums = SubSeq(input, pos + 1, pos')
    BY <1>1, <1>2, <2>1, OneMore DEF d
  <2>3. batch.datums # <<>>
    BY DEF Metrics!Split
  <2>4. BatchesAreTheData'
    BY <1>1, <1>2, <2>2, <2>3, ClosedHere
  <2> QED
    BY <1>1, <1>2, <2>1, <2>4 DEF Kept
<1> QED
  BY <1>7, <1>8, <1>9, <1>10, <1>11

LEMMA RejectInv == ASSUME Metrics!EmfAssumption, EmfInv, Metrics!Reject PROVE EmfInv'
<1> USE DEF EmfInv
<1>1. ~Fits(input, Metrics!PartitionKeys)
  BY Split1 DEF Metrics!Reject
<1>2. /\ phase' = "returned" /\ failed' = {0}
      /\ UNCHANGED <<op, input, pos, batch, batches, current, again, events>>
  BY DEF Metrics!Reject
<1>3. EmfTypes' /\ BatchesFit'
  BY <1>2 DEF EmfTypes, BatchesFit, Metrics!PartitionKeys
<1>4. Whole'
  BY <1>1, <1>2 DEF Whole, Metrics!PartitionKeys
<1>5. Encoded'
  BY <1>2 DEF Encoded, Event
<1>6. Kept'
  BY <1>2 DEF Kept, BatchesAreTheData
<1> QED
  BY <1>3, <1>4, <1>5, <1>6

LEMMA EndOfDataInv == ASSUME Metrics!EmfAssumption, EmfInv, Metrics!EndOfData PROVE EmfInv'
<1> USE DEF EmfInv
<1>1. /\ phase = "partition" /\ pos = Len(input) /\ batch' = Metrics!newBatchState
      /\ phase' = IF input = <<>> THEN "returned" ELSE "encode"
      /\ batches' = IF input = <<>> THEN batches ELSE Append(batches, batch.datums)
      /\ UNCHANGED <<op, input, pos, current, again, events, failed>>
  BY DEF Metrics!EndOfData
<1>2. failed = {} /\ events = <<>> /\ current = 1 /\ again = Metrics!newBatchState
  BY <1>1 DEF Whole, Encoded
<1>3. Noted(batch') /\ Fits(batch'.datums, Metrics!PartitionKeys)
  BY <1>1, NewBatch
<1>4. CASE input = <<>>
  <2>1. EmfTypes' /\ BatchesFit'
    BY <1>1, <1>3, <1>4 DEF EmfTypes, BatchesFit, Metrics!PartitionKeys
  <2>2. Whole' /\ Encoded'
    BY <1>1, <1>2, <1>4 DEF Whole, Encoded
  <2>3. PICK end \in [0 .. Len(batches) -> 0 .. pos] :
            /\ end[0] = 0
            /\ \A k \in DOMAIN batches :
                   end[k - 1] < end[k] /\ batches[k] = SubSeq(input, end[k - 1] + 1, end[k])
    BY <1>2 DEF Kept, BatchesAreTheData
  <2>4. Len(batches) \in Nat /\ pos = 0
    BY <1>1, <1>4, LenProperties DEF EmfTypes
  <2>5. end[Len(batches)] = 0
    BY <2>3, <2>4
  <2>6. batch'.datums = SubSeq(input, 1, 0)
    BY <1>1, <1>4 DEF Metrics!newBatchState
  <2>7. BatchesAreTheData'
    BY <1>1, <1>4, <2>3, <2>4, <2>5, <2>6 DEF BatchesAreTheData
  <2>8. Kept'
    BY <1>1, <1>2, <1>4, <2>7 DEF Kept
  <2> QED
    BY <2>1, <2>2, <2>8
<1>5. CASE input # <<>>
  <2>1. Fits(batch.datums, Metrics!PartitionKeys) /\ batch.datums \in Seq(Data) /\ input \in Seq(Data)
    BY DEF EmfTypes, BatchesFit, Noted, Metrics!BatchState, Metrics!EmfAssumption
  <2>2. /\ batches' \in Seq(Seq(Data)) /\ Len(batches') = Len(batches) + 1 /\ Len(batches) \in Nat
        /\ \A k \in DOMAIN batches' : Fits(batches'[k], Metrics!PartitionKeys)
    BY <1>1, <1>5, <2>1, Closed
  <2>3. EmfTypes'
    BY <1>1, <1>3, <1>5, <2>2 DEF EmfTypes
  <2>4. BatchesFit'
    BY <1>1, <1>3, <2>2 DEF BatchesFit, Metrics!PartitionKeys
  <2>5. /\ Fits(input, Metrics!PartitionKeys) <=> Len(batches') = 1
        /\ Len(batches') = 1 => batches'[1] = input
    <3>1. CASE batches = <<>>
      <4>1. Len(batch.datums) = Len(input) /\ Prefix(batch.datums, input)
        BY <1>1, <3>1 DEF Whole
      <4>2. batch.datums = input
        BY <2>1, <4>1, SeqEqual, LenProperties DEF Prefix
      <4>3. Append(batches, batch.datums) = <<input>>
        BY <3>1, <4>2
      <4> QED
        BY <1>1, <1>5, <2>1, <2>2, <3>1, <4>2, <4>3, EmptySeq
    <3>2. CASE batches # <<>>
      <4>1. ~Fits(input, Metrics!PartitionKeys)
        BY <1>1, <3>2 DEF Whole
      <4>2. Len(batches) # 0
        BY <3>2, EmptySeq DEF EmfTypes
      <4> QED
        BY <2>2, <4>1, <4>2
    <3> QED
      BY <3>1, <3>2
  <2>6. Whole'
    BY <1>1, <1>2, <1>5, <2>5 DEF Whole, Metrics!PartitionKeys
  <2>7. Encoded'
    <3>1. /\ phase' = "encode" /\ events' = <<>> /\ failed' = {} /\ current' = 1
          /\ again' = Metrics!newBatchState
      BY <1>1, <1>2, <1>5
    <3>2. 1 \in DOMAIN batches' /\ Len(batches'[1]) \in Nat
      BY <2>2, LenProperties, ElementOfSeq
    <3>3. Prefix(Metrics!newBatchState.datums, batches'[1])
      BY <3>2 DEF Prefix, Metrics!newBatchState
    <3> QED
      BY <3>1, <3>2, <3>3 DEF Encoded
  <2>8. Kept'
    <3>1. pos > 0
      BY <1>1, <1>5, <2>1, EmptySeq, LenProperties
    <3>2. batch.datums # <<>>
      BY <1>1, <3>1 DEF Kept
    <3>3. batch'.datums = SubSeq(input, pos + 1, pos')
      <4>1. SubSeq(input, pos + 1, pos) = <<>>
        BY <1>1, <2>1, LenProperties, EmptySeq
      <4> QED
        BY <1>1, <4>1 DEF Metrics!newBatchState
    <3>4. BatchesAreTheData'
      BY <1>1, <1>5, <3>2, <3>3, ClosedHere
    <3> QED
      BY <1>1, <1>2, <1>5, <3>4 DEF Kept
  <2> QED
    BY <2>3, <2>4, <2>6, <2>7, <2>8
<1> QED
  BY <1>4, <1>5

\* What holds while the batches are encoded.
LEMMA Encodes ==
    ASSUME EmfInv, Metrics!Encoding
    PROVE  /\ phase = "encode" /\ current \in DOMAIN batches /\ current \in Nat /\ current > 0
           /\ batches[current] \in Seq(Data) /\ Fits(batches[current], Metrics!PartitionKeys)
           /\ Prefix(again.datums, batches[current]) /\ Noted(again)
           /\ again.datums \in Seq(Data) /\ Metrics!Redone \in Nat /\ DOMAIN batches = 1 .. Len(batches)
<1>1. /\ phase = "encode" /\ current \in DOMAIN batches /\ batches \in Seq(Seq(Data))
      /\ Prefix(again.datums, batches[current]) /\ Noted(again)
      /\ Fits(batches[current], Metrics!PartitionKeys)
  BY DEF EmfInv, Metrics!Encoding, EmfTypes, BatchesFit, Encoded
<1>2. again.datums \in Seq(Data)
  BY <1>1 DEF Noted, Metrics!BatchState
<1> QED
  BY <1>1, <1>2, LenProperties, ElementOfSeq DEF Metrics!Redone

\* On to the next batch, with or without a failure.
LEMMA Advance ==
    ASSUME EmfInv, Metrics!Encoding, Metrics!NextBatch, UNCHANGED <<op, input, pos, batch, batches>>,
           events' \in Seq(Event),
           failed' = failed \/ (failed' = failed \cup {current} /\ ~Metrics!Expressible(batches[current])),
           failed' = {} => Len(events') = current
    PROVE  EmfInv'
<1> USE DEF EmfInv
<1>1. /\ current \in DOMAIN batches /\ current \in Nat /\ current > 0 /\ DOMAIN batches = 1 .. Len(batches)
      /\ batches \in Seq(Seq(Data)) /\ phase = "encode"
  BY Encodes DEF EmfTypes
<1>2. /\ phase' = IF current = Len(batches) THEN "returned" ELSE "encode"
      /\ current' = current + 1 /\ again' = Metrics!newBatchState
  BY DEF Metrics!NextBatch
<1>3. Noted(again')
  BY <1>2, NewBatch
<1>4. EmfTypes' /\ BatchesFit'
  BY <1>1, <1>2, <1>3 DEF EmfTypes, BatchesFit, Metrics!PartitionKeys
<1>5. 0 \in failed' <=> 0 \in failed
  BY <1>1
<1>6. Whole'
  BY <1>1, <1>2, <1>5 DEF Whole, Metrics!PartitionKeys
<1>7. Encoded'
  <2>1. ASSUME phase' = "encode" PROVE current' \in DOMAIN batches' /\ Prefix(again'.datums, batches'[current'])
    <3>1. current + 1 \in DOMAIN batches /\ batches[current + 1] \in Seq(Data)
      BY <1>1, <1>2, <2>1, ElementOfSeq
    <3>2. Prefix(Metrics!newBatchState.datums, batches[current + 1])
      BY <3>1, LenProperties DEF Prefix, Metrics!newBatchState
    <3> QED
      BY <1>2, <3>1, <3>2
  <2>2. events' \in Seq(Event')
    BY DEF Event
  <2>3. phase' # "partition"
    BY <1>2
  <2>4. \A k \in failed' : k = 0 \/ (k \in DOMAIN batches' /\ ~Metrics!Expressible(batches'[k]))
    BY <1>1 DEF Encoded
  <2> QED
    BY <2>1, <2>2, <2>3, <2>4 DEF Encoded, Metrics!Expressible
<1>8. Kept'
  <2>1. BatchesAreTheData'
    BY <1>5, SameBatches DEF Kept
  <2> QED
    BY <1>1, <1>2, <2>1 DEF Kept
<1> QED
  BY <1>4, <1>6, <1>7, <1>8

\* buildEMF's own partition never ends early: the batch was let in datum by datum
\* with at least the keys reserved that are reserved now.
LEMMA RepartitionInv == ASSUME Metrics!EmfAssumption, EmfInv, Metrics!Repartition PROVE EmfInv'
<1> USE DEF EmfInv
<1> DEFINE b == batches[current]
           d == b[Metrics!Redone + 1]
<1>0. Metrics!Encoding
  BY DEF Metrics!Repartition
<1>1. /\ phase = "encode" /\ current \in DOMAIN batches /\ b \in Seq(Data) /\ Fits(b, Metrics!PartitionKeys)
      /\ Prefix(again.datums, b) /\ Noted(again) /\ again.datums \in Seq(Data) /\ Metrics!Redone \in Nat
  BY <1>0, Encodes
<1>2. Metrics!Redone < Len(b)
  BY DEF Metrics!Repartition
<1>3. Metrics!EncodeKeys(current) \subseteq Metrics!PartitionKeys
  BY DEF Metrics!EncodeKeys, Metrics!PartitionKeys, Metrics!EmfAssumption
<1>4. Metrics!canAdd(again, d, Metrics!EncodeKeys(current)) /\ Metrics!canAdd(again, d, Metrics!PartitionKeys)
  BY <1>1, <1>2, <1>3, Allowed DEF Metrics!Redone
<1>5. /\ again' = Metrics!add(again, d) /\ UNCHANGED <<phase, current, failed>>
      /\ UNCHANGED <<op, input, pos, batch, batches, events>>
  BY <1>4 DEF Metrics!Repartition
<1>6. d \in Data
  BY <1>1, <1>2, ElementOfSeq
<1>7. Noted(again') /\ again'.datums = Append(again.datums, d)
  <2>1. Fits(again.datums, Metrics!PartitionKeys)
    <3>1. DOMAIN again.datums = 1 .. Metrics!Redone /\ DOMAIN b = 1 .. Len(b) /\ Len(b) \in Nat
      BY <1>1, LenProperties DEF Metrics!Redone
    <3>2. \A i \in 1 .. Metrics!Redone : again.datums[i] = b[i]
      BY <1>1 DEF Prefix, Metrics!Redone
    <3> HIDE DEF b
    <3>3. ASSUME NEW i \in 1 .. Metrics!Redone
          PROVE  /\ Sound(again.datums[i], Metrics!PartitionKeys)
                 /\ Cardinality(Before(again.datums, i)) < MaxMetrics
                 /\ \A j \in 1 .. i - 1 : Agree(again.datums[j], again.datums[i])
      <4>1. i \in DOMAIN b /\ \A j \in 1 .. i - 1 : j \in 1 .. Metrics!Redone
        BY <1>1, <1>2, <3>1
      <4>2. Before(again.datums, i) = Before(b, i)
        BY <3>2, <4>1 DEF Before
      <4> QED
        BY <1>1, <3>2, <4>1, <4>2 DEF Fits
    <3> QED
      BY <3>1, <3>3 DEF Fits
  <2> HIDE DEF d
  <2> QED
    BY <1>1, <1>4, <1>5, <1>6, <2>1, Extended
<1>8. Prefix(again'.datums, b)
  <2> HIDE DEF b
  <2>1. /\ Len(again'.datums) = Metrics!Redone + 1 /\ again'.datums[Metrics!Redone + 1] = d
        /\ \A i \in 1 .. Metrics!Redone : again'.datums[i] = again.datums[i]
    BY <1>1, <1>6, <1>7, AppendProperties DEF Metrics!Redone
  <2>2. Len(b) \in Nat
    BY <1>1, LenProperties
  <2> QED
    BY <1>1, <1>2, <2>1, <2>2 DEF Prefix, Metrics!Redone
<1> HIDE DEF d
<1>9. EmfTypes' /\ BatchesFit'
  BY <1>5, <1>7 DEF EmfTypes, BatchesFit, Metrics!PartitionKeys
<1>10. Whole'
  BY <1>1, <1>5 DEF Whole, Metrics!PartitionKeys
<1>11. Encoded'
  BY <1>1, <1>5, <1>8 DEF Encoded, Event
<1>12. Kept'
  <2>1. BatchesAreTheData'
    BY <1>5, SameBatches DEF Kept
  <2> QED
    BY <1>1, <1>5, <2>1 DEF Kept
<1> QED
  BY <1>9, <1>10, <1>11, <1>12

LEMMA WriteEventInv == ASSUME EmfInv, Metrics!WriteEvent PROVE EmfInv'
<1>1. Metrics!Encoding /\ Metrics!NextBatch /\ UNCHANGED <<op, input, pos, batch, batches, failed>>
  BY DEF Metrics!WriteEvent
<1>2. current \in DOMAIN batches
  BY <1>1, Encodes
<1> DEFINE e == [batch |-> current, emf |-> Metrics!buildEMFParts(batches[current])]
<1>3. e \in Event
  BY <1>2 DEF Event
<1>4. events' = Append(events, e) /\ events \in Seq(Event)
  BY DEF Metrics!WriteEvent, EmfInv, Encoded
<1> HIDE DEF e
<1>5. events' \in Seq(Event)
  BY <1>3, <1>4, AppendProperties
<1>6. failed' = {} => Len(events') = current
  <2>1. Len(events') = Len(events) + 1 /\ Len(events) \in Nat
    BY <1>3, <1>4, AppendProperties, LenProperties
  <2>2. failed = {} => Len(events) = current - 1
    BY <1>1 DEF EmfInv, Kept, Metrics!Encoding
  <2>3. current \in Nat
    BY <1>1, Encodes
  <2> QED
    BY <1>1, <2>1, <2>2, <2>3
<1> QED
  BY <1>1, <1>5, <1>6, Advance

LEMMA WriteFailsInv == ASSUME EmfInv, Metrics!WriteFails PROVE EmfInv'
<1>1. /\ Metrics!Encoding /\ ~Metrics!Expressible(batches[current]) /\ failed' = failed \cup {current}
      /\ UNCHANGED <<op, input, pos, batch, batches, events>>
  BY DEF Metrics!WriteFails, Metrics!BatchFails
<1>2. CASE Metrics!NextBatch
  <2>1. events' \in Seq(Event)
    BY <1>1 DEF EmfInv, Encoded
  <2>2. failed' # {}
    BY <1>1
  <2> QED
    BY <1>1, <1>2, <2>1, <2>2, Advance
<1>3. CASE phase' = "returned" /\ UNCHANGED <<current, again>>
  <2> USE DEF EmfInv
  <2>1. current \in DOMAIN batches /\ current > 0 /\ current \in Nat /\ phase = "encode"
    BY <1>1, Encodes
  <2>2. EmfTypes' /\ BatchesFit'
    BY <1>1, <1>3 DEF EmfTypes, BatchesFit, Metrics!PartitionKeys
  <2>3. 0 \in failed' <=> 0 \in failed
    BY <1>1, <2>1
  <2>4. Whole'
    BY <1>1, <1>3, <2>1, <2>3 DEF Whole, Metrics!PartitionKeys
  <2>5. Encoded'
    <3>1. \A k \in failed' : k = 0 \/ (k \in DOMAIN batches' /\ ~Metrics!Expressible(batches'[k]))
      BY <1>1, <2>1 DEF Encoded
    <3> QED
      BY <1>1, <1>3, <3>1 DEF Encoded, Event, Metrics!Expressible
  <2>6. Kept'
    <3>1. BatchesAreTheData' /\ failed' # {} /\ phase' # "partition"
      BY <1>1, <1>3, <2>3, SameBatches DEF Kept
    <3> QED
      BY <3>1 DEF Kept
  <2> QED
    BY <2>2, <2>4, <2>5, <2>6
<1> QED
  BY <1>2, <1>3 DEF Metrics!WriteFails, Metrics!BatchFails

LEMMA EmfInductive == Spec => [](subject = "emf" => EmfInv)
<1>1. Init => (subject = "emf" => EmfInv)
  BY EmfInit, InputAssumption DEF Init
<1>2. ASSUME subject = "emf" => EmfInv, [Next]_vars PROVE (subject = "emf" => EmfInv)'
  <2> SUFFICES ASSUME subject' = "emf" PROVE EmfInv'
    OBVIOUS
  <2>0. EmfInv /\ (Metrics!Next \/ UNCHANGED Metrics!vars) /\ Metrics!EmfAssumption
    BY <1>2, Turns, InputAssumption
  <2>1. CASE Metrics!Next
    BY <2>0, <2>1, JoinInv, SplitInv, RejectInv, EndOfDataInv, RepartitionInv, WriteEventInv, WriteFailsInv
       DEF Metrics!Next
  <2>2. CASE UNCHANGED Metrics!vars
    BY <2>0, <2>2 DEF EmfInv, EmfTypes, BatchesFit, Whole, Kept, BatchesAreTheData, Encoded, Event,
       Metrics!PartitionKeys, Metrics!vars
  <2> QED
    BY <2>0, <2>1, <2>2
<1> QED
  BY <1>1, <1>2, PTL DEF Spec

\* What partitionDatums has let into one batch, buildEMF encodes as one event, also
\* when it was formed for a log event and is written as a metric event: a batch
\* fails only for a value JSON cannot express.
THEOREM Encodable == Spec => []EncodingSucceeds
<1>1. (subject = "emf" => EmfInv) => EncodingSucceeds
  <2> SUFFICES ASSUME EmfInv PROVE Metrics!TypeOK /\ Metrics!EncodingSucceeds
    BY DEF EncodingSucceeds
  <2>1. failed \subseteq 0 .. Len(batches)
    BY LenProperties DEF EmfInv, EmfTypes, Encoded
  <2> QED
    BY <2>1 DEF EmfInv, EmfTypes, Encoded, Noted, Metrics!TypeOK, Metrics!EncodingSucceeds
<1> QED
  BY <1>1, EmfInductive, PTL

\* Data with these names and dimensions, whose values, units and dimension values
\* depend on the names alone.
ByName(s, N, K, value, unit, dim) ==
    \A i \in DOMAIN s :
        /\ s[i].name \in N /\ s[i].value = value[s[i].name] /\ s[i].unit = unit[s[i].name]
        /\ s[i].value # NaN
        /\ DOMAIN s[i].dims \subseteq K
        /\ \A k \in DOMAIN s[i].dims : s[i].dims[k] = dim[k]

\* Such data fit in one event when there are few names and dimensions, none reserved.
LEMMA Uniform ==
    ASSUME Metrics!EmfAssumption, ExchangeAssumption, NEW s \in Seq(Data), NEW R,
           NEW N, IsFiniteSet(N), Cardinality(N) =< 5,
           NEW K, IsFiniteSet(K), Cardinality(K) =< 3, NEW value, NEW unit, NEW dim,
           (N \cup K) \cap (R \cup {EmptyName}) = {}, N \cap K = {},
           ByName(s, N, K, value, unit, dim)
    PROVE  Fits(s, R) /\ Metrics!Expressible(s)
<1> USE DEF ByName
<1>1. ASSUME NEW i \in DOMAIN s
      PROVE  /\ Sound(s[i], R)
             /\ Cardinality(Before(s, i)) < MaxMetrics
             /\ \A j \in 1 .. i - 1 : Agree(s[j], s[i])
  <2>1. DOMAIN s = 1 .. Len(s) /\ Len(s) \in Nat
    BY LenProperties
  <2>2. 1 .. i - 1 \subseteq DOMAIN s
    BY <2>1
  <2>3. Sound(s[i], R)
    <3>1. Cardinality(DOMAIN s[i].dims) =< MaxDimensions
      <4>1. Cardinality(DOMAIN s[i].dims) =< Cardinality(K) /\ IsFiniteSet(DOMAIN s[i].dims)
        BY FS_Subset
      <4> QED
        BY <4>1, FS_CardinalityType DEF ExchangeAssumption, Metrics!EmfAssumption
    <3> QED
      BY <3>1 DEF Sound
  <2>4. Cardinality(Before(s, i)) < MaxMetrics
    <3>1. Before(s, i) \subseteq N
      BY <2>2 DEF Before
    <3>2. Cardinality(Before(s, i)) =< Cardinality(N) /\ IsFiniteSet(Before(s, i))
      BY <3>1, FS_Subset
    <3> QED
      BY <3>2, FS_CardinalityType DEF ExchangeAssumption, Metrics!EmfAssumption
  <2>5. ASSUME NEW j \in 1 .. i - 1 PROVE Agree(s[j], s[i])
    BY <2>2 DEF Agree, Metrics!SameMetric
  <2> QED
    BY <2>3, <2>4, <2>5
<1> QED
  BY <1>1 DEF Fits, Metrics!Expressible

LEMMA SmallSets ==
    /\ \A a, b, c : IsFiniteSet({a, b, c}) /\ Cardinality({a, b, c}) =< 3
    /\ \A a, b, c, d, e : IsFiniteSet({a, b, c, d, e}) /\ Cardinality({a, b, c, d, e}) =< 5
<1>1. ASSUME NEW T, IsFiniteSet(T), NEW x, NEW U, U = T \cup {x}
      PROVE  IsFiniteSet(U) /\ Cardinality(U) \in Nat
  BY <1>1, FS_AddElement, FS_CardinalityType, Zenon
<1>2. ASSUME NEW T, IsFiniteSet(T), Cardinality(T) \in Nat, NEW n \in Nat, Cardinality(T) =< n,
             NEW x, NEW U, U = T \cup {x}, NEW m \in Nat, m = n + 1
      PROVE  Cardinality(U) =< m
  <2>1. Cardinality(U) = Cardinality(T) \/ Cardinality(U) = Cardinality(T) + 1
    BY <1>2, FS_AddElement, Zenon
  <2> QED
    BY <1>2, <2>1
<1>3. ASSUME NEW a, NEW b, NEW c, NEW d, NEW e
      PROVE  /\ IsFiniteSet({a, b, c}) /\ Cardinality({a, b, c}) =< 3
             /\ IsFiniteSet({a, b, c, d, e}) /\ Cardinality({a, b, c, d, e}) =< 5
  <2> DEFINE A == {a}
             B == {a, b}
             C == {a, b, c}
             D == {a, b, c, d}
             E == {a, b, c, d, e}
  <2>1. IsFiniteSet(A)
    BY FS_Singleton, Zenon
  <2>2. Cardinality(A) = 1
    BY FS_Singleton, Zenon
  <2>3. B = A \cup {b} /\ C = B \cup {c} /\ D = C \cup {d} /\ E = D \cup {e}
    OBVIOUS
  <2> HIDE DEF A, B, C, D, E
  <2>4. IsFiniteSet(B) /\ Cardinality(B) \in Nat
    BY <1>1, <2>1, <2>3, Zenon
  <2>5. IsFiniteSet(C) /\ Cardinality(C) \in Nat
    BY <1>1, <2>3, <2>4, Zenon
  <2>6. IsFiniteSet(D) /\ Cardinality(D) \in Nat
    BY <1>1, <2>3, <2>5, Zenon
  <2>7. IsFiniteSet(E) /\ Cardinality(E) \in Nat
    BY <1>1, <2>3, <2>6, Zenon
  <2>8. Cardinality(A) \in Nat /\ Cardinality(A) =< 1
    BY <2>2
  <2>9. Cardinality(B) =< 2
    <3>1. 1 \in Nat /\ 2 \in Nat /\ 2 = 1 + 1
      OBVIOUS
    <3> QED
      BY <1>2, <2>1, <2>3, <2>8, <3>1, Zenon
  <2>10. Cardinality(C) =< 3
    <3>1. 2 \in Nat /\ 3 \in Nat /\ 3 = 2 + 1
      OBVIOUS
    <3> QED
      BY <1>2, <2>3, <2>4, <2>9, <3>1, Zenon
  <2>11. Cardinality(D) =< 4
    <3>1. 3 \in Nat /\ 4 \in Nat /\ 4 = 3 + 1
      OBVIOUS
    <3> QED
      BY <1>2, <2>3, <2>5, <2>10, <3>1, Zenon
  <2>12. Cardinality(E) =< 5
    <3>1. 4 \in Nat /\ 5 \in Nat /\ 5 = 4 + 1
      OBVIOUS
    <3> QED
      BY <1>2, <2>3, <2>6, <2>11, <3>1, Zenon
  <2> QED
    BY <2>5, <2>7, <2>10, <2>12, Zenon DEF C, E
<1> QED
  BY <1>3, Zenon

\* The status metric of an exchange: none, or the one of its range.
LEMMA OneStatusMetric ==
    ASSUME NEW status \in Nat
    PROVE  /\ statusBucketMetricName(status) = {StatusMetric[c] : c \in {2, 4, 5} \cap {status \div 100}}
           /\ \/ statusBucketMetricName(status) = {}
              \/ \E n \in {"2XXStatusCode", "4XXStatusCode", "5XXStatusCode"} : statusBucketMetricName(status) = {n}
<1>1. /\ status \div 100 = 2 <=> status \in 200 .. 299
      /\ status \div 100 = 4 <=> status \in 400 .. 499
      /\ status \div 100 = 5 <=> status \in 500 .. 599
  OBVIOUS
<1>2. /\ StatusMetric[2] = "2XXStatusCode" /\ StatusMetric[4] = "4XXStatusCode"
      /\ StatusMetric[5] = "5XXStatusCode"
  BY DEF StatusMetric
<1>3. CASE status \in 200 .. 299
  <2>1. statusBucketMetricName(status) = {"2XXStatusCode"}
    BY <1>3 DEF statusBucketMetricName
  <2>2. {2, 4, 5} \cap {status \div 100} = {2}
    BY <1>1, <1>3
  <2> QED
    BY <1>2, <2>1, <2>2
<1>4. CASE status \in 400 .. 499
  <2>1. statusBucketMetricName(status) = {"4XXStatusCode"}
    BY <1>4 DEF statusBucketMetricName
  <2>2. {2, 4, 5} \cap {status \div 100} = {4}
    BY <1>1, <1>4
  <2> QED
    BY <1>2, <2>1, <2>2
<1>5. CASE status \in 500 .. 599
  <2>1. statusBucketMetricName(status) = {"5XXStatusCode"}
    BY <1>5 DEF statusBucketMetricName
  <2>2. {2, 4, 5} \cap {status \div 100} = {5}
    BY <1>1, <1>5
  <2> QED
    BY <1>2, <2>1, <2>2
<1>6. CASE status \notin 200 .. 299 /\ status \notin 400 .. 499 /\ status \notin 500 .. 599
  <2>1. statusBucketMetricName(status) = {}
    BY <1>6 DEF statusBucketMetricName
  <2>2. {2, 4, 5} \cap {status \div 100} = {}
    BY <1>1, <1>6
  <2> QED
    BY <2>1, <2>2
<1> QED
  BY <1>3, <1>4, <1>5, <1>6

LEMMA RangeOf ==
    ASSUME NEW S
    PROVE  /\ <<>> \in Seq(S) /\ Range(<<>>) = {}
           /\ \A a, b \in S : <<a, b>> \in Seq(S) /\ Range(<<a, b>>) = {a, b}
           /\ \A s, t \in Seq(S) : s \o t \in Seq(S) /\ Range(s \o t) = Range(s) \cup Range(t)
<1>1. <<>> \in Seq(S) /\ Range(<<>>) = {}
  BY DEF Range
<1>2. ASSUME NEW a \in S, NEW b \in S PROVE <<a, b>> \in Seq(S) /\ Range(<<a, b>>) = {a, b}
  <2> DEFINE q == <<a, b>>
  <2>1. q \in Seq(S) /\ DOMAIN q = {1, 2} /\ q[1] = a /\ q[2] = b
    OBVIOUS
  <2> HIDE DEF q
  <2>2. q \in Seq(S) /\ Range(q) = {a, b}
    BY <2>1 DEF Range
  <2> QED
    BY <2>2 DEF q
<1>3. ASSUME NEW s \in Seq(S), NEW t \in Seq(S)
      PROVE  s \o t \in Seq(S) /\ Range(s \o t) = Range(s) \cup Range(t)
  <2> DEFINE q == s \o t
  <2>1. /\ q \in Seq(S) /\ Len(q) = Len(s) + Len(t) /\ Len(s) \in Nat /\ Len(t) \in Nat
        /\ DOMAIN q = 1 .. Len(s) + Len(t) /\ DOMAIN s = 1 .. Len(s) /\ DOMAIN t = 1 .. Len(t)
        /\ \A i \in 1 .. Len(s) + Len(t) : q[i] = IF i <= Len(s) THEN s[i] ELSE t[i - Len(s)]
    BY ConcatProperties, LenProperties
  <2> HIDE DEF q
  <2>2. ASSUME NEW i \in DOMAIN q PROVE q[i] \in Range(s) \cup Range(t)
    <3>1. CASE i <= Len(s)
      BY <2>1, <3>1 DEF Range
    <3>2. CASE ~(i <= Len(s))
      <4>1. i - Len(s) \in DOMAIN t /\ q[i] = t[i - Len(s)]
        BY <2>1, <3>2
      <4> QED
        BY <4>1 DEF Range
    <3> QED
      BY <3>1, <3>2
  <2>3. ASSUME NEW i \in DOMAIN s PROVE s[i] \in Range(q)
    BY <2>1 DEF Range
  <2>4. ASSUME NEW i \in DOMAIN t PROVE t[i] \in Range(q)
    <3>1. i + Len(s) \in DOMAIN q /\ q[i + Len(s)] = t[i]
      BY <2>1
    <3> QED
      BY <3>1 DEF Range
  <2>5. Range(q) = Range(s) \cup Range(t)
    BY <2>2, <2>3, <2>4 DEF Range
  <2> QED
    BY <2>1, <2>5 DEF q
<1> QED
  BY <1>1, <1>2, <1>3

\* The data of an exchange, each for both sets of dimensions.
LEMMA TrafficData ==
    ASSUME NEW status \in Nat, NEW t, NEW n, NEW m
    PROVE  Range(buildMetrics(status, t, n, m)) =
               UNION {{ datum("RequestCount", 1, "Count", D), datum("Latency", t, "Milliseconds", D),
                        datum("RequestBodySize", n, "Bytes", D), datum("ResponseBodySize", m, "Bytes", D) }
                      \cup {datum(x, 1, "Count", D) : x \in statusBucketMetricName(status)} :
                      D \in {AggregateDims, RequestDims}}
<1> DEFINE a(D) == datum("RequestCount", 1, "Count", D)
           b(D) == datum("Latency", t, "Milliseconds", D)
           c(D) == datum("RequestBodySize", n, "Bytes", D)
           d(D) == datum("ResponseBodySize", m, "Bytes", D)
           e(D, x) == datum(x, 1, "Count", D)
           Names == statusBucketMetricName(status)
           name == CHOOSE x \in Names : TRUE
           last == IF Names = {} THEN <<>> ELSE <<e(AggregateDims, name), e(RequestDims, name)>>
           S == UNION {{a(D), b(D), c(D), d(D), e(D, name)} : D \in {AggregateDims, RequestDims}}
           four(D) == <<a(D), b(D), c(D), d(D)>>
<1>1. buildMetrics(status, t, n, m) = four(AggregateDims) \o four(RequestDims) \o last
  BY DEF buildMetrics, buildTrafficMetricSet
<1>2. Names = {} \/ Names = {name}
  <2> HIDE DEF Names
  <2>1. ASSUME NEW x, Names = {x} PROVE Names = {name}
    <3>1. x \in Names
      BY <2>1
    <3>2. name \in Names
      BY <3>1
    <3> QED
      BY <2>1, <3>2
  <2> QED
    BY <2>1, OneStatusMetric DEF Names
<1> HIDE DEF a, b, c, d, e, Names, name
<1>3. ASSUME NEW D \in {AggregateDims, RequestDims}
      PROVE  a(D) \in S /\ b(D) \in S /\ c(D) \in S /\ d(D) \in S /\ e(D, name) \in S
  OBVIOUS
<1> HIDE DEF S
<1>4. ASSUME NEW D \in {AggregateDims, RequestDims}
      PROVE  four(D) \in Seq(S) /\ Range(four(D)) = {a(D), b(D), c(D), d(D)}
  <2> DEFINE q == four(D)
  <2>1. a(D) \in S /\ b(D) \in S /\ c(D) \in S /\ d(D) \in S
    BY <1>3, Zenon
  <2>2. q \in Seq(S) /\ DOMAIN q = {1, 2, 3, 4} /\ q[1] = a(D) /\ q[2] = b(D) /\ q[3] = c(D) /\ q[4] = d(D)
    BY <2>1
  <2> HIDE DEF q
  <2>3. q \in Seq(S) /\ Range(q) = {a(D), b(D), c(D), d(D)}
    BY <2>2 DEF Range
  <2> QED
    BY <2>3 DEF q
<1>5. last \in Seq(S) /\ Range(last) = {e(D, x) : D \in {AggregateDims, RequestDims}, x \in Names}
  <2>1. CASE Names = {}
    BY <2>1, RangeOf
  <2>2. CASE Names # {}
    <3>1. e(AggregateDims, name) \in S /\ e(RequestDims, name) \in S
      BY <1>3
    <3>2. last \in Seq(S) /\ Range(last) = {e(AggregateDims, name), e(RequestDims, name)}
      BY <2>2, <3>1, RangeOf
    <3> QED
      BY <1>2, <2>2, <3>2
  <2> QED
    BY <2>1, <2>2
<1> HIDE DEF four, last
<1>6. Range(four(AggregateDims) \o four(RequestDims) \o last)
         = Range(four(AggregateDims)) \cup Range(four(RequestDims)) \cup Range(last)
  <2>1. four(AggregateDims) \in Seq(S) /\ four(RequestDims) \in Seq(S)
    BY <1>4
  <2> QED
    <3>1. \A u, v \in Seq(S) : u \o v \in Seq(S) /\ Range(u \o v) = Range(u) \cup Range(v)
      BY RangeOf, Zenon
    <3>2. last \in Seq(S)
      BY <1>5
    <3> DEFINE p == four(AggregateDims)
               q == four(RequestDims)
    <3>3. p \in Seq(S) /\ q \in Seq(S)
      BY <2>1
    <3> HIDE DEF p, q
    <3>4. p \o q \in Seq(S) /\ Range(p \o q) = Range(p) \cup Range(q)
      BY <3>1, <3>3, Zenon
    <3>5. Range((p \o q) \o last) = Range(p \o q) \cup Range(last)
      BY <3>1, <3>2, <3>4, Zenon
    <3>6. Range((p \o q) \o last) = (Range(p) \cup Range(q)) \cup Range(last)
      BY <3>4, <3>5, Zenon
    <3> QED
      BY <3>6, Zenon DEF p, q
<1>7. Range(buildMetrics(status, t, n, m)) =
          UNION {{a(D), b(D), c(D), d(D)} \cup {e(D, x) : x \in Names} : D \in {AggregateDims, RequestDims}}
  BY <1>1, <1>4, <1>5, <1>6
<1> QED
  BY <1>7, Zenon DEF a, b, c, d, e, Names

\* The data of an exchange fit in one event.
LEMMA ExchangeFits ==
    ASSUME Metrics!EmfAssumption, NEW s \in Seq(Data), s \in Traffic, NEW R, R \subseteq LogReserved
    PROVE  Fits(s, R) /\ Metrics!Expressible(s)
<1>1. PICK status \in Nat, t \in Nat, n \in Nat, m \in Nat : s = buildMetrics(status, t, n, m)
  BY ExchangeAssumption DEF Traffic
<1>2. PICK x \in {"2XXStatusCode", "4XXStatusCode", "5XXStatusCode"} : statusBucketMetricName(status) \subseteq {x}
  BY <1>1, OneStatusMetric
<1> DEFINE N == {"RequestCount", "Latency", "RequestBodySize", "ResponseBodySize", x}
           K == {"AppName", "Endpoint", "Method"}
           value == [y \in N |-> CASE y = "Latency" -> t [] y = "RequestBodySize" -> n
                                   [] y = "ResponseBodySize" -> m [] OTHER -> 1]
           unit == [y \in N |-> CASE y = "Latency" -> "Milliseconds"
                                  [] y \in {"RequestBodySize", "ResponseBodySize"} -> "Bytes" [] OTHER -> "Count"]
           dim == [y \in K |-> CASE y = "AppName" -> "app" [] y = "Endpoint" -> "/path" [] OTHER -> "GET"]
           Fine(d) == /\ d.name \in N /\ d.value = value[d.name] /\ d.unit = unit[d.name]
                      /\ d.value # NaN
                      /\ DOMAIN d.dims \subseteq K
                      /\ \A k \in DOMAIN d.dims : d.dims[k] = dim[k]
<1>3. ASSUME NEW D \in {AggregateDims, RequestDims}
      PROVE  DOMAIN D \subseteq K /\ \A k \in DOMAIN D : D[k] = dim[k]
  BY DEF AggregateDims, RequestDims
<1>4. \A y \in Nat : y # NaN
  BY ExchangeAssumption
<1>5. /\ value["RequestCount"] = 1 /\ value["Latency"] = t /\ value["RequestBodySize"] = n
      /\ value["ResponseBodySize"] = m /\ value[x] = 1
      /\ unit["RequestCount"] = "Count" /\ unit["Latency"] = "Milliseconds" /\ unit["RequestBodySize"] = "Bytes"
      /\ unit["ResponseBodySize"] = "Bytes" /\ unit[x] = "Count"
  OBVIOUS
<1>6. N \subseteq MetricNames /\ N \cap K = {}
  BY DEF MetricNames
<1>7. /\ "RequestCount" \in N /\ "Latency" \in N /\ "RequestBodySize" \in N /\ "ResponseBodySize" \in N /\ x \in N
  OBVIOUS
<1>8. IsFiniteSet(N) /\ Cardinality(N) =< 5 /\ IsFiniteSet(K) /\ Cardinality(K) =< 3
  BY SmallSets
<1>9. (N \cup K) \cap (R \cup {EmptyName}) = {}
  BY <1>6, ExchangeAssumption
<1> HIDE DEF value, unit, dim, N, K
<1>10. ASSUME NEW D \in {AggregateDims, RequestDims}
       PROVE  /\ Fine(datum("RequestCount", 1, "Count", D)) /\ Fine(datum("Latency", t, "Milliseconds", D))
              /\ Fine(datum("RequestBodySize", n, "Bytes", D)) /\ Fine(datum("ResponseBodySize", m, "Bytes", D))
              /\ Fine(datum(x, 1, "Count", D))
  BY <1>3, <1>4, <1>5, <1>7 DEF datum
<1>11. \A d \in Range(s) : Fine(d)
  <2> HIDE DEF Fine
  <2> SUFFICES ASSUME NEW d \in Range(s) PROVE Fine(d)
    OBVIOUS
  <2>1. PICK D \in {AggregateDims, RequestDims} :
            d \in { datum("RequestCount", 1, "Count", D), datum("Latency", t, "Milliseconds", D),
                    datum("RequestBodySize", n, "Bytes", D), datum("ResponseBodySize", m, "Bytes", D) }
                  \cup {datum(y, 1, "Count", D) : y \in statusBucketMetricName(status)}
    BY <1>1, TrafficData
  <2> QED
    BY <1>2, <1>10, <2>1
<1>12. \A i \in DOMAIN s : Fine(s[i])
  <2> HIDE DEF Fine
  <2> QED
    BY <1>11 DEF Range
<1> QED
  <2>1. ByName(s, N, K, value, unit, dim)
    BY <1>12, Zenon DEF ByName
  <2> QED
    BY <1>6, <1>8, <1>9, <2>1, Uniform, ExchangeAssumption, Zenon

\* So do those of a probe.
LEMMA ProbeFits ==
    ASSUME Metrics!EmfAssumption, NEW s \in Seq(Data), s \in Probes, NEW R, R \subseteq LogReserved
    PROVE  Fits(s, R) /\ Metrics!Expressible(s)
<1>1. PICK up \in BOOLEAN, t \in Nat : s = healthMetrics(up, t)
  BY ExchangeAssumption DEF Probes
<1> DEFINE D == [AppName |-> "app", Endpoint |-> "http://host/health"]
           N == {"HealthStatus", "HealthLatency"}
           K == {"AppName", "Endpoint", "Method"}
           status == IF up THEN 1 ELSE 0
           value == [y \in N |-> IF y = "HealthStatus" THEN status ELSE t]
           unit == [y \in N |-> IF y = "HealthStatus" THEN "Count" ELSE "Milliseconds"]
           dim == [y \in K |-> IF y = "AppName" THEN "app" ELSE "http://host/health"]
           a == datum("HealthStatus", status, "Count", D)
           b == datum("HealthLatency", t, "Milliseconds", D)
           Fine(d) == /\ d.name \in N /\ d.value = value[d.name] /\ d.unit = unit[d.name]
                      /\ d.value # NaN
                      /\ DOMAIN d.dims \subseteq K
                      /\ \A k \in DOMAIN d.dims : d.dims[k] = dim[k]
<1>2. s = <<a, b>>
  BY <1>1 DEF healthMetrics
<1>3. DOMAIN D \subseteq K /\ \A k \in DOMAIN D : D[k] = dim[k]
  OBVIOUS
<1>4. \A y \in Nat : y # NaN
  BY ExchangeAssumption
<1>5. status \in Nat
  OBVIOUS
<1>6. N \subseteq MetricNames /\ N \cap K = {}
  BY DEF MetricNames
<1>7. IsFiniteSet(N) /\ Cardinality(N) =< 5 /\ IsFiniteSet(K) /\ Cardinality(K) =< 3
  <2>1. N = {"HealthStatus", "HealthLatency", "HealthLatency"}
    OBVIOUS
  <2>2. IsFiniteSet(N) /\ Cardinality(N) =< 3 /\ Cardinality(N) \in Nat
    BY <2>1, SmallSets, FS_CardinalityType
  <2> QED
    BY <2>2, SmallSets
<1>8. (N \cup K) \cap (R \cup {EmptyName}) = {}
  BY <1>6, ExchangeAssumption
<1>9. Fine(a) /\ Fine(b)
  <2>1. value["HealthStatus"] = status /\ value["HealthLatency"] = t
        /\ unit["HealthStatus"] = "Count" /\ unit["HealthLatency"] = "Milliseconds"
    OBVIOUS
  <2> HIDE DEF value, unit, dim, D, K, status
  <2> QED
    BY <1>3, <1>4, <1>5, <2>1 DEF datum
<1>10. \A i \in DOMAIN s : Fine(s[i])
  <2> HIDE DEF Fine, a, b
  <2> QED
    BY <1>2, <1>9
<1> HIDE DEF value, unit, dim, N, K
<1> QED
  <2>1. ByName(s, N, K, value, unit, dim)
    BY <1>10, Zenon DEF ByName
  <2> QED
    BY <1>6, <1>7, <1>8, <2>1, Uniform, ExchangeAssumption, Zenon

LEMMA NotNothing == ASSUME NEW s \in Traffic \cup Probes PROVE s # <<>>
<1>1. Range(<<>>) = {}
  BY DEF Range
<1>2. ASSUME NEW status \in Nat, NEW t, NEW n, NEW m PROVE buildMetrics(status, t, n, m) # <<>>
  <2> DEFINE four(D) == { datum("RequestCount", 1, "Count", D), datum("Latency", t, "Milliseconds", D),
                          datum("RequestBodySize", n, "Bytes", D), datum("ResponseBodySize", m, "Bytes", D) }
             last(D) == {datum(x, 1, "Count", D) : x \in statusBucketMetricName(status)}
             one == datum("RequestCount", 1, "Count", AggregateDims)
             All == Range(buildMetrics(status, t, n, m))
  <2>1. one \in All
    <3>1. All = UNION {four(D) \cup last(D) : D \in {AggregateDims, RequestDims}}
      BY TrafficData
    <3>2. one \in four(AggregateDims)
      OBVIOUS
    <3> HIDE DEF four, last, one, All
    <3> QED
      BY <3>1, <3>2
  <2> QED
    BY <1>1, <2>1
<1>3. ASSUME NEW up, NEW t PROVE healthMetrics(up, t) # <<>>
  BY DEF healthMetrics
<1> QED
  BY <1>2, <1>3, ExchangeAssumption DEF Traffic, Probes

\* A call with data that fit in one event and are expressible writes that event.
LEMMA OneEvent ==
    ASSUME Metrics!EmfAssumption, EmfInv, phase = "returned", input # <<>>,
           Fits(input, Metrics!PartitionKeys), Metrics!Expressible(input)
    PROVE  /\ failed = {} /\ Len(events) = 1
           /\ Metrics!Extracted(events[1].emf) = Metrics!Range(input)
<1>1. Len(batches) = 1 /\ 0 \notin failed /\ batches[1] = input
  BY DEF EmfInv, Whole
<1>2. batches \in Seq(Seq(Data)) /\ DOMAIN batches = {1}
  BY <1>1, LenProperties DEF EmfInv, EmfTypes
<1>3. failed = {}
  BY <1>1, <1>2 DEF EmfInv, Encoded
<1>4. Len(events) = 1
  BY <1>1, <1>3 DEF EmfInv, Kept
<1>5. events[1] \in Event
  BY <1>4, ElementOfSeq, LenProperties DEF EmfInv, Encoded
<1>6. events[1] = [batch |-> 1, emf |-> Metrics!buildEMFParts(input)]
  BY <1>1, <1>2, <1>5 DEF Event
<1>7. input \in Seq(Data)
  BY DEF EmfInv, EmfTypes, Metrics!EmfAssumption
<1>8. Metrics!Extracted(Metrics!buildEMFParts(input)) = Metrics!Range(input)
  BY <1>7, GivesBack
<1> QED
  BY <1>3, <1>4, <1>6, <1>8

\* Which metrics an exchange has, and for which dimensions.
LEMMA TrafficListed ==
    ASSUME NEW status \in Nat, NEW t, NEW n, NEW m
    PROVE  {<<d.name, DOMAIN d.dims>> : d \in Range(buildMetrics(status, t, n, m))} = Listed(status)
<1> DEFINE four(D) == { datum("RequestCount", 1, "Count", D), datum("Latency", t, "Milliseconds", D),
                        datum("RequestBodySize", n, "Bytes", D), datum("ResponseBodySize", m, "Bytes", D) }
           last(D) == {datum(x, 1, "Count", D) : x \in statusBucketMetricName(status)}
           named(S) == {<<d.name, DOMAIN d.dims>> : d \in S}
           Four == {"RequestCount", "Latency", "RequestBodySize", "ResponseBodySize"}
           All == Range(buildMetrics(status, t, n, m))
<1>1. All = four(AggregateDims) \cup last(AggregateDims) \cup four(RequestDims) \cup last(RequestDims)
  <2> HIDE DEF four, last
  <2>1. All = UNION {four(D) \cup last(D) : D \in {AggregateDims, RequestDims}}
    BY TrafficData DEF four, last
  <2> HIDE DEF All
  <2> QED
    BY <2>1
<1>2. ASSUME NEW D PROVE named(four(D)) = Four \X {DOMAIN D}
  BY DEF datum
<1>3. ASSUME NEW D PROVE named(last(D)) = statusBucketMetricName(status) \X {DOMAIN D}
  <2>1. ASSUME NEW x PROVE <<datum(x, 1, "Count", D).name, DOMAIN datum(x, 1, "Count", D).dims>> = <<x, DOMAIN D>>
    BY DEF datum
  <2>2. named(last(D)) = {<<x, DOMAIN D>> : x \in statusBucketMetricName(status)}
    BY <2>1
  <2> QED
    BY <2>2
<1>4. DOMAIN AggregateDims = {"AppName"} /\ DOMAIN RequestDims = {"AppName", "Endpoint", "Method"}
  BY DEF AggregateDims, RequestDims
<1>5. Listed(status) = (Four \cup statusBucketMetricName(status))
                          \X {DOMAIN AggregateDims, DOMAIN RequestDims}
  BY <1>4, OneStatusMetric DEF Listed
<1>6. named(All) = named(four(AggregateDims)) \cup named(last(AggregateDims))
                     \cup named(four(RequestDims)) \cup named(last(RequestDims))
  <2> HIDE DEF All, four, last
  <2> QED
    BY <1>1, Zenon
<1>7. named(four(AggregateDims)) = Four \X {DOMAIN AggregateDims}
      /\ named(four(RequestDims)) = Four \X {DOMAIN RequestDims}
      /\ named(last(AggregateDims)) = statusBucketMetricName(status) \X {DOMAIN AggregateDims}
      /\ named(last(RequestDims)) = statusBucketMetricName(status) \X {DOMAIN RequestDims}
  <2> HIDE DEF four, last, named, Four
  <2> QED
    BY <1>2, <1>3
<1>8. named(All) = (Four \cup statusBucketMetricName(status)) \X {DOMAIN AggregateDims, DOMAIN RequestDims}
  <2> HIDE DEF four, last, named, Four, All
  <2> QED
    BY <1>6, <1>7
<1> QED
  BY <1>5, <1>8

\* The events of a call carry its data, all of them, unchanged and in as few events
\* as SPEC.md asks for: canAdd keeps apart what buildEMFParts would overwrite, no
\* datum is lost where a batch ends, and an exchange or a probe is one event.
THEOREM DataCarried == Spec => []EventsCarryTheData
<1>1. (subject = "emf" => EmfInv) => EventsCarryTheData
  <2> SUFFICES ASSUME EmfInv
               PROVE  /\ Metrics!NothingOverwritten
                      /\ Metrics!OneEventWhenPossible
                      /\ BatchesAreTheData
                      /\ ExchangeIsOneEvent
    BY DEF EventsCarryTheData
  <2>0. Metrics!EmfAssumption /\ input \in Seq(Data)
    BY InputAssumption DEF EmfInv, EmfTypes, Metrics!EmfAssumption
  <2>1. Metrics!NothingOverwritten
    <3>1. ASSUME NEW i \in DOMAIN events
          PROVE  Metrics!Extracted(events[i].emf) = Metrics!Range(batches[events[i].batch])
      <4>1. events[i] \in Event
        BY ElementOfSeq, LenProperties DEF EmfInv, Encoded
      <4>2. PICK k \in DOMAIN batches : events[i] = [batch |-> k, emf |-> Metrics!buildEMFParts(batches[k])]
        BY <4>1 DEF Event
      <4>3. batches[k] \in Seq(Data) /\ Fits(batches[k], Metrics!PartitionKeys)
        BY ElementOfSeq, LenProperties DEF EmfInv, EmfTypes, BatchesFit
      <4>4. Metrics!Extracted(Metrics!buildEMFParts(batches[k])) = Metrics!Range(batches[k])
        BY <2>0, <4>3, GivesBack
      <4> QED
        BY <4>2, <4>4
    <3> QED
      BY <3>1 DEF Metrics!NothingOverwritten
  <2>2. Metrics!OneEventWhenPossible
    <3>1. input # <<>> => (Fits(input, Metrics!PartitionKeys) <=> Metrics!Compatible(input, Metrics!PartitionKeys))
      BY <2>0, FitsIsCompatible
    <3> QED
      BY <3>1 DEF EmfInv, Whole, Metrics!OneEventWhenPossible
  <2>3. BatchesAreTheData
    BY DEF EmfInv, Kept
  <2>4. ExchangeIsOneEvent
    <3> SUFFICES ASSUME phase = "returned", input \in Traffic \cup Probes
                 PROVE  /\ Len(events) = 1
                        /\ failed = {}
                        /\ \A status \in Status, t \in Latency, n, m \in Bytes :
                               input = buildMetrics(status, t, n, m)
                                   => {<<d.name, DOMAIN d.dims>> : d \in Metrics!Extracted(events[1].emf)} = Listed(status)
      BY DEF ExchangeIsOneEvent
    <3>1. Metrics!PartitionKeys \subseteq LogReserved
      BY <2>0 DEF Metrics!PartitionKeys, Metrics!EmfAssumption
    <3>2. Fits(input, Metrics!PartitionKeys) /\ Metrics!Expressible(input)
      BY <2>0, <3>1, ExchangeFits, ProbeFits
    <3>3. input # <<>>
      BY NotNothing
    <3>4. /\ failed = {} /\ Len(events) = 1
          /\ Metrics!Extracted(events[1].emf) = Metrics!Range(input)
      BY <2>0, <3>2, <3>3, OneEvent
    <3>5. ASSUME NEW status \in Status, NEW t \in Latency, NEW n \in Bytes, NEW m \in Bytes,
                 input = buildMetrics(status, t, n, m)
          PROVE  {<<d.name, DOMAIN d.dims>> : d \in Metrics!Extracted(events[1].emf)} = Listed(status)
      <4>1. {<<d.name, DOMAIN d.dims>> : d \in Range(buildMetrics(status, t, n, m))} = Listed(status)
        BY TrafficListed, ExchangeAssumption
      <4>2. Metrics!Extracted(events[1].emf) = Range(buildMetrics(status, t, n, m))
        BY <3>4, <3>5 DEF Range, Metrics!Range
      <4> QED
        BY <4>1, <4>2
    <3> QED
      BY <3>4, <3>5
  <2> QED
    BY <2>1, <2>2, <2>3, <2>4
<1> QED
  BY <1>1, EmfInductive, PTL

----------------------------------------------------------------------------
(* HealthURLs: the resolved URLs are a function of the list. *)

HealthInv == entries \in Seq(Entry) /\ urls = Health!ResolveHealthURLs(entries)

\* A resolved list has all its parts, with the defaults of SPEC.md.
LEMMA Resolved ==
    ASSUME Health!EntryAssumption, HealthInv
    PROVE  Health!TypeOK /\ Health!DefaultsAsSpecified /\ Health!ProbesAreNotMetered
<1> DEFINE list == IF entries = <<>> THEN <<Health!DefaultEntry>> ELSE entries
           scheme(i) == Health!Lower(Health!OrElse(list[i].scheme, "http"))
           bad == \E i \in DOMAIN list : ~Health!Parses(list[i]) \/ scheme(i) \notin {"http", "https"}
           complete(i) == [scheme |-> scheme(i),
                           host   |-> Health!OrElse(list[i].host, AppHost),
                           port   |-> Health!OrElse(list[i].port, Health!DefaultPort(scheme(i), i)),
                           path   |-> Health!OrElse(list[i].path, Health!BasePath(list)),
                           query  |-> list[i].query]
<1>1. urls = IF bad THEN Failed ELSE [i \in DOMAIN list |-> complete(i)]
  BY DEF HealthInv, Health!ResolveHealthURLs
<1>2. CASE bad
  <2>1. urls = Failed
    BY <1>1, <1>2
  <2> QED
    BY <2>1 DEF Health!TypeOK, Health!DefaultsAsSpecified, Health!ProbesAreNotMetered
<1>3. CASE ~bad
  <2>1. ASSUME NEW i \in DOMAIN list
        PROVE  list[i].port = None \/ list[i].port \in 1 .. Health!MaxPort
    <3>1. Health!Parses(list[i])
      <4> HIDE DEF list, scheme
      <4> QED
        BY <1>3
    <3> HIDE DEF list
    <3> QED
      BY <3>1 DEF Health!Parses, Health!parsePort
  <2>2. ASSUME NEW i \in DOMAIN list PROVE scheme(i) \in {"http", "https"}
    BY <1>3
  <2> HIDE DEF bad, list, scheme
  <2>3. DOMAIN urls = DOMAIN list
    BY <1>1, <1>3
  <2>4. ASSUME NEW i \in DOMAIN list
        PROVE  /\ urls[i].scheme = scheme(i)
               /\ urls[i].host = Health!OrElse(list[i].host, AppHost)
               /\ urls[i].port = Health!OrElse(list[i].port, Health!DefaultPort(scheme(i), i))
               /\ urls[i].path = Health!OrElse(list[i].path, Health!BasePath(list))
    BY <1>1, <1>3
  <2> HIDE DEF complete
  <2>5. Health!TypeOK
    <3> SUFFICES ASSUME NEW i \in DOMAIN urls
                 PROVE  /\ urls[i].scheme \in {"http", "https"}
                        /\ urls[i].port \in 1 .. Health!MaxPort
                        /\ None \notin {urls[i].host, urls[i].path}
      BY DEF Health!TypeOK
    <3>1. urls[i].scheme \in {"http", "https"}
      BY <2>2, <2>3, <2>4
    <3>2. urls[i].port \in 1 .. Health!MaxPort
      <4>1. Health!DefaultPort(scheme(i), i) \in 1 .. Health!MaxPort
        <5>1. Health!MaxPort \in Nat /\ Health!MaxPort >= 443
          BY DEF Health!MaxPort
        <5> QED
          BY <5>1 DEF Health!DefaultPort, Health!EntryAssumption
      <4> QED
        BY <2>1, <2>3, <2>4, <4>1 DEF Health!OrElse
    <3>3. urls[i].host # None
      BY <2>3, <2>4 DEF Health!OrElse, Health!EntryAssumption
    <3>4. urls[i].path # None
      <4>1. Health!BasePath(list) # None
        BY DEF Health!BasePath, Health!OrElse, Health!EntryAssumption, Health!DefaultHealthPath
      <4> QED
        BY <2>3, <2>4, <4>1 DEF Health!OrElse
    <3> QED
      BY <3>1, <3>2, <3>3, <3>4
  <2>6. Health!DefaultsAsSpecified
    <3> SUFFICES ASSUME entries # <<>>, NEW i \in DOMAIN urls
                 PROVE  /\ entries[i].port = None => urls[i].port =
                               (IF urls[i].scheme = "https" THEN 443 ELSE IF i = 1 THEN TargetPort ELSE 80)
                        /\ entries[i].host = None => urls[i].host = AppHost
                        /\ entries[i].path = None => urls[i].path = urls[1].path
      BY DEF Health!DefaultsAsSpecified
    <3>1. list = entries /\ 1 \in DOMAIN list
      BY EmptySeq, LenProperties DEF HealthInv, list
    <3>2. entries[i].port = None => urls[i].port =
              (IF urls[i].scheme = "https" THEN 443 ELSE IF i = 1 THEN TargetPort ELSE 80)
      BY <2>3, <2>4, <3>1 DEF Health!OrElse, Health!DefaultPort
    <3>3. entries[i].host = None => urls[i].host = AppHost
      BY <2>3, <2>4, <3>1 DEF Health!OrElse
    <3>4. entries[i].path = None => urls[i].path = urls[1].path
      BY <2>3, <2>4, <3>1 DEF Health!OrElse, Health!BasePath
    <3> QED
      BY <3>2, <3>3, <3>4
  <2>7. Health!ProbesAreNotMetered
    BY DEF Health!ProbesAreNotMetered, Health!isHealthPath, Health!healthPathSet
  <2> QED
    BY <2>5, <2>6, <2>7
<1> QED
  BY <1>2, <1>3

\* HEALTH_URLS are completed as SPEC.md says, every part of a resolved URL is there,
\* and the handler does not meter what the runner probes (ResolveHealthURLs, isHealthPath).
THEOREM URLsResolved == Spec => []HealthURLsAsSpecified
<1>1. Init => (subject = "health" => HealthInv)
  BY DEF Init, Health!Init, HealthInv
<1>2. (subject = "health" => HealthInv) /\ [Next]_vars => (subject = "health" => HealthInv)'
  <2> SUFFICES ASSUME subject = "health" => HealthInv, [Next]_vars, subject' = "health" PROVE HealthInv'
    OBVIOUS
  <2>1. HealthInv /\ (Health!Next \/ UNCHANGED Health!vars)
    BY Turns
  <2> QED
    BY <2>1 DEF HealthInv, Health!Next, Health!AddEntry, Health!vars
<1>3. (subject = "health" => HealthInv) => HealthURLsAsSpecified
  BY Resolved, InputAssumption DEF HealthURLsAsSpecified
<1> QED
  BY <1>1, <1>2, <1>3, PTL DEF Spec

----------------------------------------------------------------------------
(* Startup: what each stage knows of the stages before it. *)

Document == [loaded : BOOLEAN, family : {Start!Empty, "family"}, region : Region \cup {Start!Empty}, zone : Region \cup {Start!Empty}]

\* What names are made of.
Word == STRING \cup {"name", "family", "host", "cwproxy", "/app/log", "health"}

StartTypes ==
    /\ phase \in {"task", "container", "eks", "ec2", "child", "config", "region", "ready", "failed"}
    /\ spent \in 0 .. Budget
    /\ task \in Document /\ container \in Document
    /\ ec2 \in Region \cup {Start!Empty} /\ region \in Region \cup {Start!Empty, "env"}
    /\ {child, detected} \subseteq Port \cup {0}
    /\ portEnv \in Port \cup {Unset, Blank}

\* The answers that came are kept: every region they named is still there to be asked for.
Answered ==
    /\ phase = "task" => task = Start!Nothing /\ container = Start!Nothing
    /\ phase \in {"task", "container"} => told = {}
    /\ phase \in {"task", "container", "eks", "ec2"} => ec2 = Start!Empty
    /\ phase \notin {"task", "container"} =>
           told = (IF Start!ECS THEN {task.region, task.zone, container.region} \ {Start!Empty} ELSE {})
                      \cup ({ec2} \ {Start!Empty})
    /\ phase = "ready" /\ region = Start!Empty => told = {}

\* A deployment is inferred only where Kubernetes was detected.
Detected ==
    phase \notin {"task", "container", "eks"} =>
        /\ eks.found => signs
        /\ eks.deployment \in Seq(Word)

PortFound ==
    phase \in {"config", "region", "ready"} =>
        detected = IF child # 0 /\ portEnv = Unset THEN child ELSE 0

Configured ==
    phase \in {"region", "ready"} =>
        /\ <<>> \notin {cfg.appName, cfg.logGroup, cfg.healthLogGroup}
        /\ ~signs => cfg.appName \in {<<"name">>, <<"family">>, <<"host">>, <<"cwproxy">>}
        /\ cfg.appPort = Start!AppPort

StartInv == StartTypes /\ Answered /\ Detected /\ PortFound /\ Configured

LEMMA StartInit == Start!StartupAssumption /\ Start!Init => StartInv
BY DEF Start!StartupAssumption, Start!Init, Start!Nothing, Start!ECS, StartInv, StartTypes, Document,
       Answered, Detected, PortFound, Configured

\* A request ends at the deadline at the latest, and its answer is a document.
LEMMA Requests ==
    ASSUME Start!StartupAssumption, spent \in 0 .. Budget, NEW delay \in Delays
    PROVE  /\ Start!SpentAfter(delay) \in 0 .. Budget
           /\ \A kind \in Start!Kinds, family \in {Start!Empty, "family"}, r, zone \in Region \cup {Start!Empty} :
                  Start!Answer(delay, kind, family, r, zone) \in Document
<1>1. Start!SpentAfter(delay) \in 0 .. Budget
  BY DEF Start!SpentAfter, Start!StartupAssumption
<1> QED
  BY <1>1 DEF Start!Answer, Start!Nothing, Document

LEMMA NoECSInv == ASSUME StartInv, Start!NoECS PROVE StartInv'
<1> USE DEF StartInv, Start!NoECS
<1>1. StartTypes'
  BY DEF StartTypes
<1>2. Answered'
  BY DEF Answered, Start!ECS, Start!Nothing
<1> QED
  BY <1>1, <1>2 DEF Detected, PortFound, Configured

LEMMA ReadTaskInv ==
    ASSUME Start!StartupAssumption, StartInv, NEW delay \in Delays, NEW kind \in Start!Kinds, NEW family \in {Start!Empty, "family"},
           NEW r \in Region \cup {Start!Empty}, NEW zone \in Region \cup {Start!Empty},
           Start!readTask(delay, kind, family, r, zone)
    PROVE  StartInv'
<1> USE DEF StartInv, Start!readTask
<1>1. StartTypes'
  BY Requests DEF StartTypes
<1>2. Answered'
  BY DEF Answered
<1> QED
  BY <1>1, <1>2 DEF Detected, PortFound, Configured

LEMMA ReadContainerInv ==
    ASSUME Start!StartupAssumption, StartInv, NEW delay \in Delays, NEW kind \in Start!Kinds,
           NEW r \in Region \cup {Start!Empty}, Start!readContainer(delay, kind, r)
    PROVE  StartInv'
<1> USE DEF StartInv, Start!readContainer
<1>1. StartTypes'
  BY Requests DEF StartTypes
<1>2. Answered'
  BY DEF Answered, Start!ECS
<1> QED
  BY <1>1, <1>2 DEF Detected, PortFound, Configured

\* Sequences of words.
LEMMA Texts ==
    /\ <<>> \in Seq(Word) /\ Seq(STRING) \subseteq Seq(Word)
    /\ \A x \in Word : <<x>> \in Seq(Word) /\ <<x>> # <<>>
    /\ \A p, q \in Seq(Word) : p \o q \in Seq(Word) /\ (p # <<>> => p \o q # <<>>)
    /\ \A p \in Seq(Word) : Start!inferDeploymentName(p) \in Seq(Word)
<1>1. ASSUME NEW S, NEW x \in S PROVE <<>> \in Seq(S) /\ <<x>> \in Seq(S) /\ <<x>> # <<>>
  OBVIOUS
<1>2. ASSUME NEW S, NEW p \in Seq(S), NEW q \in Seq(S) PROVE p \o q \in Seq(S) /\ (p # <<>> => p \o q # <<>>)
  <2>1. p \o q \in Seq(S) /\ Len(p \o q) = Len(p) + Len(q) /\ Len(p) \in Nat /\ Len(q) \in Nat
    BY ConcatProperties, LenProperties
  <2> QED
    BY <2>1, EmptySeq
<1>3. ASSUME NEW S, NEW p \in Seq(S) PROVE Start!inferDeploymentName(p) \in Seq(S)
  BY DEF Start!inferDeploymentName, Start!looksLikeDeployment
<1>4. \A x \in Word : <<x>> \in Seq(Word) /\ <<x>> # <<>>
  BY <1>1, Zenon
<1>5. \A p, q \in Seq(Word) : p \o q \in Seq(Word) /\ (p # <<>> => p \o q # <<>>)
  BY <1>2, Zenon
<1>6. \A p \in Seq(Word) : Start!inferDeploymentName(p) \in Seq(Word)
  BY <1>3, Zenon
<1>7. <<>> \in Seq(Word)
  <2>1. "name" \in Word
    BY DEF Word
  <2> QED
    BY <1>1, <2>1, Zenon
<1>8. Seq(STRING) \subseteq Seq(Word)
  <2>1. ASSUME NEW S, NEW T, S \subseteq T PROVE Seq(S) \subseteq Seq(T)
    BY <2>1
  <2>2. STRING \subseteq Word
    BY Zenon DEF Word
  <2> QED
    BY <2>1, <2>2, Zenon
<1> QED
  BY <1>4, <1>5, <1>6, <1>7, <1>8, Zenon

LEMMA LoadEKSInv ==
    ASSUME Start!StartupAssumption, StartInv, NEW env \in PodName \cup {<<>>}, NEW token \in PodName \cup {<<>>},
           NEW marker \in BOOLEAN, NEW host \in PodName \cup {<<>>}, Start!loadEKS(env, token, marker, host)
    PROVE  StartInv'
<1> USE DEF StartInv, Start!loadEKS
<1> DEFINE found == Start!PodOf(env, token, marker, host)
<1>1. StartTypes'
  BY DEF StartTypes
<1>2. Answered'
  BY DEF Answered, Start!ECS
<1>3. Detected'
  <2>1. found.detected => signs'
    BY DEF Start!PodOf, Start!FirstOf
  <2>2. found.pod \in Seq(Word)
    <3>1. {env, token, host, <<>>} \subseteq Seq(Word)
      BY Texts, Zenon DEF Start!StartupAssumption
    <3>2. found.pod \in {env, token, host, <<>>}
      BY DEF Start!PodOf, Start!FirstOf
    <3> HIDE DEF found
    <3> QED
      BY <3>1, <3>2, Zenon
  <2>3. Start!inferDeploymentName(found.pod) \in Seq(Word)
    BY <2>2, Texts, Zenon
  <2>4. eks'.found = found.detected /\ eks'.deployment = Start!inferDeploymentName(found.pod)
    BY Zenon
  <2> QED
    BY <2>1, <2>3, <2>4 DEF Detected
<1> QED
  BY <1>1, <1>2, <1>3 DEF PortFound, Configured

LEMMA LoadEC2Inv ==
    ASSUME Start!StartupAssumption, StartInv, NEW delay \in Delays, NEW r \in Region \cup {Start!Empty},
           Start!loadEC2(delay, r)
    PROVE  StartInv'
<1> USE DEF StartInv, Start!loadEC2
<1>1. StartTypes'
  BY Requests DEF StartTypes
<1>2. Answered'
  BY DEF Answered, Start!ECS
<1> QED
  BY <1>1, <1>2 DEF Detected, PortFound, Configured

LEMMA DetectPortInv == ASSUME StartInv, Start!DetectPort PROVE StartInv'
<1> USE DEF StartInv, Start!DetectPort
<1>1. StartTypes'
  BY DEF StartTypes
<1>2. Answered'
  BY DEF Answered, Start!ECS
<1> QED
  BY <1>1, <1>2 DEF Detected, PortFound, Configured

LEMMA BadSettingInv == ASSUME StartInv, Start!BadSetting PROVE StartInv'
<1> USE DEF StartInv, Start!BadSetting
<1>1. StartTypes'
  BY DEF StartTypes
<1>2. Answered'
  BY DEF Answered, Start!ECS
<1> QED
  BY <1>1, <1>2 DEF Detected, PortFound, Configured

\* The name is never empty, and none of a pod where there is no sign of one.
LEMMA Named ==
    ASSUME StartTypes, Detected, phase = "config", NEW name \in {Start!Empty, "name"}, NEW host \in {Start!Empty, "host"}
    PROVE  /\ Start!AppName(name, host) \in Seq(Word) /\ Start!AppName(name, host) # <<>>
           /\ ~signs => Start!AppName(name, host) \in {<<"name">>, <<"family">>, <<"host">>, <<"cwproxy">>}
<1>1. Start!InferDefaultAppName \in {<<>>, <<"family">>} \cup (IF eks.found THEN {eks.deployment} ELSE {})
  BY DEF Start!InferDefaultAppName, StartTypes, Document
<1>2. eks.deployment \in Seq(Word) /\ (eks.found => signs)
  BY DEF Detected
<1>3. \/ Start!AppName(name, host) = Start!InferDefaultAppName /\ Start!InferDefaultAppName # <<>>
      \/ Start!AppName(name, host) \in {<<"name">>, <<"host">>, <<"cwproxy">>}
  BY DEF Start!AppName
<1>4. \A x \in {"name", "family", "host", "cwproxy"} : <<x>> \in Seq(Word) /\ <<x>> # <<>>
  <2>1. {"name", "family", "host", "cwproxy"} \subseteq Word
    BY DEF Word
  <2> QED
    BY <2>1, Texts, Zenon
<1>5. CASE Start!AppName(name, host) \in {<<"name">>, <<"host">>, <<"cwproxy">>}
  BY <1>4, <1>5, Zenon
<1>6. CASE Start!AppName(name, host) = Start!InferDefaultAppName /\ Start!InferDefaultAppName # <<>>
  <2>1. Start!InferDefaultAppName = <<"family">> \/ (eks.found /\ Start!InferDefaultAppName = eks.deployment)
    BY <1>1, <1>6
  <2> QED
    BY <1>2, <1>4, <1>6, <2>1, Zenon
<1> QED
  BY <1>3, <1>5, <1>6, Zenon

LEMMA LoadFromEnvInv ==
    ASSUME StartInv, NEW name \in {Start!Empty, "name"}, NEW host \in {Start!Empty, "host"}, NEW group, NEW healthGroup,
           Start!LoadFromEnv(name, host, group, healthGroup)
    PROVE  StartInv'
<1> USE DEF StartInv, Start!LoadFromEnv
<1> DEFINE app == Start!AppName(name, host)
<1>1. StartTypes'
  BY DEF StartTypes
<1>2. Answered'
  BY DEF Answered, Start!ECS
<1>3. app \in Seq(Word) /\ app # <<>>
      /\ (~signs => app \in {<<"name">>, <<"family">>, <<"host">>, <<"cwproxy">>})
  BY Named
<1>4. Configured'
  <2>1. ASSUME NEW g PROVE <<g>> # <<>>
    OBVIOUS
  <2>2. <<"/app/log">> \o app # <<>> /\ <<"/app/log">> \o app \o <<"health">> # <<>>
    <3> HIDE DEF app
    <3>1. "/app/log" \in Word /\ "health" \in Word
      BY DEF Word
    <3> QED
      BY <1>3, <3>1, Texts, Zenon
  <2>3. Start!AppPort' = Start!AppPort
    BY DEF Start!AppPort
  <2>4. /\ cfg'.appName = app
        /\ cfg'.logGroup = Start!LogGroup(group, <<"/app/log">> \o app)
        /\ cfg'.healthLogGroup = Start!LogGroup(healthGroup, <<"/app/log">> \o app \o <<"health">>)
        /\ cfg'.appPort = Start!AppPort
        /\ signs' = signs
    <3> HIDE DEF StartInv
    <3> QED
      BY Zenon
  <2>5. cfg'.logGroup # <<>> /\ cfg'.healthLogGroup # <<>>
    BY <2>1, <2>2, <2>4 DEF Start!LogGroup
  <2> HIDE DEF app, StartInv, Start!LoadFromEnv
  <2> QED
    BY <1>3, <2>3, <2>4, <2>5 DEF Configured
<1> QED
  BY <1>1, <1>2, <1>4 DEF Detected, PortFound

LEMMA ResolveInv ==
    ASSUME Start!StartupAssumption, StartInv, NEW env \in {Start!Empty, "env"}, Start!resolveAWSRegion(env)
    PROVE  StartInv'
<1> USE DEF StartInv, Start!resolveAWSRegion
<1>1. Start!InferAWSRegion \in Region \cup {Start!Empty}
  BY DEF Start!InferAWSRegion, StartTypes, Document
<1>2. Start!InferAWSRegion = Start!Empty => told = {}
  BY DEF Start!InferAWSRegion, Answered, StartTypes
<1>3. StartTypes'
  BY <1>1 DEF StartTypes
<1>4. Answered'
  BY <1>2 DEF Answered, Start!ECS
<1> QED
  BY <1>3, <1>4 DEF Detected, PortFound, Configured, Start!AppPort

\* However slow, wrong or incomplete the metadata are, cwproxy starts within the deadline, with
\* a region if any answer named one, under a name that is no pod's where Kubernetes was not
\* detected, and with the port the child listens on, unless APP_PORT is set and blank
\* (metadata.Load, LoadFromEnv, resolveAWSRegion).
THEOREM PlaceFound == Spec => []StartupFindsItsPlace
<1>1. Init => (subject = "startup" => StartInv)
  BY StartInit, InputAssumption DEF Init
<1>2. (subject = "startup" => StartInv) /\ [Next]_vars => (subject = "startup" => StartInv)'
  <2> SUFFICES ASSUME subject = "startup" => StartInv, [Next]_vars, subject' = "startup" PROVE StartInv'
    OBVIOUS
  <2>1. StartInv /\ (Start!Next \/ UNCHANGED Start!vars) /\ Start!StartupAssumption
    BY Turns, InputAssumption
  <2>2. CASE UNCHANGED Start!vars
    BY <2>1, <2>2 DEF Start!vars, StartInv, StartTypes, Answered, Detected, PortFound, Configured,
       Start!ECS, Start!AppPort
  <2>3. CASE Start!Next
    BY <2>1, <2>3, NoECSInv, ReadTaskInv, ReadContainerInv, LoadEKSInv, LoadEC2Inv, DetectPortInv, BadSettingInv,
       LoadFromEnvInv, ResolveInv DEF Start!Next
  <2> QED
    BY <2>1, <2>2, <2>3
<1>3. (subject = "startup" => StartInv) => StartupFindsItsPlace
  <2> SUFFICES ASSUME StartInv
               PROVE  /\ Start!TypeOK
                      /\ Start!StartsInTime
                      /\ Start!RegionFromAnySource
                      /\ Start!NoFalseDeployment
                      /\ Start!PortOfTheChild
    BY DEF StartupFindsItsPlace
  <2> USE DEF StartInv
  <2>1. Start!TypeOK
    BY DEF Start!TypeOK, StartTypes, Configured
  <2>2. Start!StartsInTime
    BY InputAssumption DEF Start!StartsInTime, StartTypes, Start!StartupAssumption
  <2>3. Start!RegionFromAnySource
    BY DEF Start!RegionFromAnySource, Answered
  <2>4. Start!NoFalseDeployment
    BY DEF Start!NoFalseDeployment, Configured
  <2>5. Start!PortOfTheChild
    BY InputAssumption DEF Start!PortOfTheChild, Configured, PortFound, StartTypes, Start!AppPort,
       Start!StartupAssumption
  <2> QED
    BY <2>1, <2>2, <2>3, <2>4, <2>5
<1> QED
  BY <1>1, <1>2, <1>3, PTL DEF Spec

----------------------------------------------------------------------------
(* RetryPolicy.  Recursive functions on the naturals exist; the library's theorem *)
(* about them takes an operator, so this one is about a function g instead.       *)

LEMMA LeastElement ==
    ASSUME NEW T, T \subseteq Nat, T # {}
    PROVE  \E x \in T : \A y \in T : x =< y
<1>1. PICK x \in T : \A y \in T : ~(<<y, x>> \in OpToRel(<, Nat))
  BY WFMin, NatLessThanWellFounded
<1>2. \A y \in T : ~(y < x)
  BY <1>1, Zenon DEF OpToRel
<1> QED
  BY <1>2

\* f begins with a and goes on with g, up to n.
Approximates(f, n, a, g) == f[0] = a /\ \A i \in 1 .. n : f[i] = g[i - 1][f[i - 1]]

Unfolds(F, a, g) == F[0] = a /\ \A n \in Nat : F[n + 1] = g[n][F[n]]

LEMMA Recursion ==
    ASSUME NEW S, NEW a \in S, NEW g \in [Nat -> [S -> S]]
    PROVE  \E F \in [Nat -> S] : Unfolds(F, a, g)
<1> DEFINE A(n) == {f \in [0 .. n -> S] : Approximates(f, n, a, g)}
           Missing == {n \in Nat : A(n) = {}}
           F == [n \in Nat |-> (CHOOSE f \in A(n) : TRUE)[n]]
<1>1. Missing = {}
  <2> SUFFICES ASSUME Missing # {} PROVE FALSE
    OBVIOUS
  <2>1. PICK n \in Missing : \A k \in Missing : n =< k
    <3> HIDE DEF Missing
    <3>1. Missing \subseteq Nat
      BY DEF Missing
    <3> QED
      BY <3>1, LeastElement
  <2>2. CASE n = 0
    <3> DEFINE f == [i \in 0 .. 0 |-> a]
    <3>1. f \in [0 .. 0 -> S] /\ Approximates(f, 0, a, g)
      BY DEF Approximates
    <3> QED
      BY <2>2, <3>1
  <2>3. CASE n # 0
    <3>1. n - 1 \in Nat /\ n - 1 \notin Missing
      BY <2>1, <2>3
    <3>2. PICK f \in [0 .. n - 1 -> S] : Approximates(f, n - 1, a, g)
      BY <3>1
    <3> DEFINE h == [i \in 0 .. n |-> IF i = n THEN g[n - 1][f[n - 1]] ELSE f[i]]
    <3>3. f[n - 1] \in S
      BY <3>1, <3>2
    <3>4. h \in [0 .. n -> S]
      BY <3>1, <3>2, <3>3
    <3>5. Approximates(h, n, a, g)
      BY <2>1, <2>3, <3>1, <3>2 DEF Approximates
    <3> QED
      BY <3>4, <3>5
  <2> QED
    BY <2>2, <2>3
<1>2. ASSUME NEW n \in Nat PROVE (CHOOSE f \in A(n) : TRUE) \in A(n)
  BY <1>1
<1>3. ASSUME NEW n \in Nat, NEW m \in Nat, NEW f, NEW h, Approximates(f, n, a, g), Approximates(h, m, a, g),
             NEW i \in Nat, i =< n, i =< m
      PROVE  f[i] = h[i]
  <2> DEFINE T == {j \in 0 .. i : f[j] # h[j]}
  <2> SUFFICES ASSUME T # {} PROVE FALSE
    OBVIOUS
  <2>1. PICK j \in T : \A k \in T : j =< k
    <3>1. T \subseteq Nat
      OBVIOUS
    <3> HIDE DEF T
    <3> QED
      BY <3>1, LeastElement
  <2>2. j # 0 /\ j - 1 \in 0 .. i /\ j - 1 \notin T /\ j \in 1 .. n /\ j \in 1 .. m
    BY <1>3, <2>1 DEF Approximates
  <2> QED
    BY <1>3, <2>1, <2>2 DEF Approximates
<1> HIDE DEF A
<1>4. ASSUME NEW n \in Nat PROVE F[n] \in S
  BY <1>2 DEF A
<1>5. F[0] = a
  BY <1>2 DEF A, Approximates
<1>6. ASSUME NEW n \in Nat PROVE F[n + 1] = g[n][F[n]]
  <2> DEFINE f == CHOOSE x \in A(n) : TRUE
             h == CHOOSE x \in A(n + 1) : TRUE
  <2>1. f \in A(n) /\ h \in A(n + 1)
    BY <1>2
  <2>2. F[n] = f[n] /\ F[n + 1] = h[n + 1]
    OBVIOUS
  <2> HIDE DEF f, h
  <2>3. Approximates(f, n, a, g) /\ Approximates(h, n + 1, a, g)
    BY <2>1 DEF A
  <2>4. f[n] = h[n]
    BY <1>3, <2>3
  <2>5. h[n + 1] = g[n][h[n]]
    BY <2>3 DEF Approximates
  <2> QED
    BY <2>2, <2>4, <2>5
<1>7. F \in [Nat -> S] /\ Unfolds(F, a, g)
  BY <1>4, <1>5, <1>6 DEF Unfolds
<1> QED
  BY <1>7

\* What the definition of Power says of it.
LEMMA Powers ==
    \A n \in Nat :
        /\ Retry!Power[n] \in [Nat -> Nat] /\ Retry!Power[n][2] > 0
        /\ Retry!Power[0] = [b \in Nat |-> 1]
        /\ Retry!Power[n + 1] = [b \in Nat |-> b * Retry!Power[n][b]]
<1> DEFINE Step(p) == [n \in Nat |-> [b \in Nat |-> IF n = 0 THEN 1 ELSE b * p[n - 1][b]]]
           S == {f \in [Nat -> Nat] : f[2] > 0}
           a == [b \in Nat |-> 1]
           g == [n \in Nat |-> [f \in S |-> [b \in Nat |-> b * f[b]]]]
<1>1. a \in S /\ g \in [Nat -> [S -> S]]
  OBVIOUS
<1>2. PICK F \in [Nat -> S] : F[0] = a /\ \A n \in Nat : F[n + 1] = g[n][F[n]]
  <2> HIDE DEF S, a, g
  <2>1. PICK F \in [Nat -> S] : Unfolds(F, a, g)
    BY <1>1, Recursion
  <2> QED
    BY <2>1 DEF Unfolds
<1>3. F = Step(F)
  <2> SUFFICES ASSUME NEW n \in Nat PROVE F[n] = [b \in Nat |-> IF n = 0 THEN 1 ELSE b * F[n - 1][b]]
    BY <1>2
  <2>1. CASE n = 0
    BY <1>2, <2>1
  <2>2. CASE n # 0
    <3>1. n - 1 \in Nat /\ F[n - 1] \in S /\ F[n] = g[n - 1][F[n - 1]]
      <4> HIDE DEF S, g, a
      <4>1. n - 1 \in Nat /\ (n - 1) + 1 = n
        BY <2>2
      <4> QED
        BY <1>2, <4>1
    <3> QED
      BY <2>2, <3>1
  <2> QED
    BY <2>1, <2>2
<1> HIDE DEF Step
<1>4. Retry!Power = Step(Retry!Power)
  BY <1>3, Zenon DEF Retry!Power, Step
<1>5. ASSUME NEW n \in Nat
      PROVE  Retry!Power[0] = a /\ Retry!Power[n + 1] = [b \in Nat |-> b * Retry!Power[n][b]]
  <2>1. \A k \in Nat : Retry!Power[k] = [b \in Nat |-> IF k = 0 THEN 1 ELSE b * Retry!Power[k - 1][b]]
    BY <1>4, Zenon DEF Step
  <2>2. n + 1 \in Nat /\ n + 1 # 0 /\ (n + 1) - 1 = n /\ 0 \in Nat
    OBVIOUS
  <2>3. Retry!Power[n + 1] = [b \in Nat |-> IF n + 1 = 0 THEN 1 ELSE b * Retry!Power[(n + 1) - 1][b]]
    BY <2>1, <2>2, Zenon
  <2>4. Retry!Power[n + 1] = [b \in Nat |-> b * Retry!Power[n][b]]
    BY <2>2, <2>3
  <2>5. Retry!Power[0] = [b \in Nat |-> IF 0 = 0 THEN 1 ELSE b * Retry!Power[0 - 1][b]]
    BY <2>1, <2>2, Zenon
  <2> QED
    BY <2>4, <2>5
<1>6. \A n \in Nat : Retry!Power[n] \in S
  <2> DEFINE T == {n \in Nat : Retry!Power[n] \notin S}
  <2> SUFFICES ASSUME T # {} PROVE FALSE
    OBVIOUS
  <2>1. PICK n \in T : \A k \in T : n =< k
    <3>1. T \subseteq Nat
      OBVIOUS
    <3> HIDE DEF T
    <3> QED
      BY <3>1, LeastElement
  <2>2. n # 0
    BY <1>1, <1>5, <2>1
  <2>3. n - 1 \in Nat /\ Retry!Power[n - 1] \in S /\ n = (n - 1) + 1
    <3> HIDE DEF S
    <3> QED
      BY <2>1, <2>2
  <2>4. Retry!Power[n] = [b \in Nat |-> b * Retry!Power[n - 1][b]]
    BY <1>5, <2>3
  <2>5. Retry!Power[n] = g[n - 1][Retry!Power[n - 1]]
    BY <2>3, <2>4
  <2>6. Retry!Power[n] \in S
    <3> HIDE DEF S, g
    <3> QED
      BY <1>1, <2>3, <2>5
  <2> QED
    BY <2>1, <2>6
<1> QED
  BY <1>5, <1>6

\* A value that the loader has let through.
Acceptable(key, value) ==
    /\ key = "MAX_ATTEMPTS" => value \in Nat \ {0}
    /\ key \in {"INITIAL_BACKOFF", "MAX_BACKOFF", "BODY_BUFFER_BYTES"} => value \in Nat
    /\ key = "BACKOFF_MULTIPLIER" => value \in (Nat \ {0, 1}) \cup {NaN, Inf}
    /\ key = "STATUS_CODES" => value \subseteq Retry!StatusCode

PolicyTypes ==
    /\ phase \in {"load", "failed", "loaded", "attempting", "direct"}
    /\ next \in 1 .. 9
    /\ phase = "load" => next =< 8
    /\ phase \in {"loaded", "attempting", "direct"} => next = 9
    /\ DOMAIN policy = {Retry!Keys[i] : i \in 1 .. (IF phase = "failed" THEN next - 2 ELSE next - 1)}
    /\ \A key \in DOMAIN policy : Acceptable(key, policy[key])

InOrder == "MAX_BACKOFF" \in DOMAIN policy => policy.INITIAL_BACKOFF =< policy.MAX_BACKOFF

\* The waits are those of the policy, one less than the attempts at most.
Waited ==
    /\ phase \in {"attempting", "direct"} => used = Retry!normalize(policy)
    /\ waits \in Seq(Nat)
    /\ phase # "attempting" => waits = <<>>
    /\ Len(waits) > 0 => Len(waits) < policy.MAX_ATTEMPTS
    /\ \A i \in DOMAIN waits :
           /\ waits[i] \in Retry!retryBackoff(used, i)
           /\ policy.BACKOFF_MULTIPLIER # NaN => waits[i] >= policy.INITIAL_BACKOFF

RetryInv == PolicyTypes /\ InOrder /\ Waited

LEMMA KeyList ==
    /\ Len(Retry!Keys) = 8
    /\ \A i \in 1 .. 8 : Retry!Keys[i] \in Retry!Key
    /\ \A i \in 1 .. 8 : /\ Retry!Keys[i] = "INITIAL_BACKOFF" <=> i = 2
                         /\ Retry!Keys[i] = "MAX_BACKOFF" <=> i = 3
    /\ Retry!Key = {Retry!Keys[i] : i \in 1 .. 8}
    /\ Retry!Key = {"MAX_ATTEMPTS", "INITIAL_BACKOFF", "MAX_BACKOFF", "BACKOFF_MULTIPLIER", "METHODS",
                    "STATUS_CODES", "ON_TRANSPORT_ERRORS", "BODY_BUFFER_BYTES"}
BY DEF Retry!Keys, Retry!Key

\* What a parser accepts has the form the transport needs.
LEMMA Accepted ==
    ASSUME Retry!PolicyAssumption, NEW key \in Retry!Key, NEW raw \in Setting[key],
           raw \in {Absent, Blank} \/ Retry!Accepts(key, raw)
    PROVE  Acceptable(key, Retry!Parsed(key, raw))
<1>1. CASE raw \in {Absent, Blank}
  <2>1. Retry!Parsed(key, raw) = IF raw = Blank /\ key = "STATUS_CODES" THEN {} ELSE Default[key]
    BY <1>1 DEF Retry!Parsed
  <2> QED
    BY <2>1 DEF Acceptable, Retry!PolicyAssumption
<1>2. CASE raw \notin {Absent, Blank}
  <2>1. Retry!Accepts(key, raw) /\ raw # Garbage
    BY <1>2 DEF Retry!Accepts
  <2>2. CASE key = "STATUS_CODES"
    <3>1. Retry!Parsed(key, raw) = UNION {Retry!StatusOf(raw[i]) : i \in DOMAIN raw}
      BY <1>2, <2>2 DEF Retry!Parsed
    <3>2. ASSUME NEW i \in DOMAIN raw PROVE Retry!StatusOf(raw[i]) \subseteq Retry!StatusCode
      <4>1. raw[i][1] \in Retry!StatusCode /\ raw[i][2] \in Retry!StatusCode
        BY <2>1, <2>2 DEF Retry!Accepts, Retry!StatusToken
      <4>2. ASSUME NEW low \in Int, NEW high \in Int, NEW x \in low .. high, NEW y \in low .. high
            PROVE  LET c == IF x =< y THEN x ELSE y IN c .. (x + y - c) \subseteq low .. high
        OBVIOUS
      <4>3. PICK low \in Int, high \in Int : Retry!StatusCode = low .. high
        <5>1. 100 \in Int /\ 599 \in Int
          OBVIOUS
        <5> QED
          BY <5>1, Zenon DEF Retry!StatusCode
      <4> QED
        BY <4>1, <4>2, <4>3, Zenon DEF Retry!StatusOf
    <3> QED
      BY <2>2, <3>1, <3>2 DEF Acceptable
  <2>3. CASE key # "STATUS_CODES"
    <3>1. Retry!Parsed(key, raw) = raw
      BY <1>2, <2>3 DEF Retry!Parsed
    <3>2. key \in DOMAIN Retry!Minimum => ~Retry!Less(raw, Retry!Minimum[key])
      BY <2>1 DEF Retry!Accepts
    <3>3. CASE key \in {"MAX_ATTEMPTS", "INITIAL_BACKOFF", "MAX_BACKOFF", "BODY_BUFFER_BYTES"}
      <4>1. raw \in Int
        BY <1>2, <2>1, <3>3 DEF Retry!PolicyAssumption
      <4>2. key \in DOMAIN Retry!Minimum /\ Retry!Minimum[key] = IF key = "MAX_ATTEMPTS" THEN 1 ELSE 0
        BY <3>3 DEF Retry!Minimum
      <4>3. raw \notin {NaN, Inf}
        BY <4>1 DEF Retry!PolicyAssumption
      <4>4. raw >= Retry!Minimum[key]
        BY <3>2, <4>1, <4>2, <4>3 DEF Retry!Less
      <4> QED
        BY <3>1, <3>3, <4>1, <4>2, <4>4 DEF Acceptable
    <3>4. CASE key = "BACKOFF_MULTIPLIER"
      <4>1. raw \in Int \cup {NaN, Inf}
        BY <1>2, <2>1, <3>4 DEF Retry!PolicyAssumption
      <4> QED
        BY <3>1, <3>2, <3>4, <4>1 DEF Acceptable, Retry!Minimum, Retry!Less
    <3> QED
      BY <2>3, <3>3, <3>4 DEF Acceptable
  <2> QED
    BY <2>2, <2>3
<1> QED
  BY <1>1, <1>2

\* normalize finds nothing to repair but the case of the methods.
LEMMA NothingToRepair ==
    ASSUME Retry!PolicyAssumption, PolicyTypes, InOrder, next = 9, phase # "failed"
    PROVE  /\ DOMAIN policy = Retry!Key
           /\ \A key \in Retry!Key \ {"METHODS"} : Retry!normalize(policy)[key] = policy[key]
<1>1. DOMAIN policy = Retry!Key
  BY KeyList DEF PolicyTypes
<1>2. \A key \in Retry!Key : Acceptable(key, policy[key])
  BY <1>1 DEF PolicyTypes
<1>3. policy["INITIAL_BACKOFF"] =< policy["MAX_BACKOFF"]
  BY <1>1, KeyList DEF InOrder
<1>4. /\ policy["MAX_ATTEMPTS"] \in Nat \ {0} /\ policy["INITIAL_BACKOFF"] \in Nat /\ policy["MAX_BACKOFF"] \in Nat
      /\ policy["BODY_BUFFER_BYTES"] \in Nat /\ policy["STATUS_CODES"] \cap Retry!StatusCode = policy["STATUS_CODES"]
  BY <1>2, KeyList DEF Acceptable
<1>5. ~Retry!Less(policy["BACKOFF_MULTIPLIER"], 2)
  BY <1>2, KeyList DEF Acceptable, Retry!Less
<1>6. ASSUME NEW key \in Retry!Key \ {"METHODS"} PROVE Retry!normalize(policy)[key] = policy[key]
  <2>1. /\ Retry!Larger(policy.MAX_ATTEMPTS, 1) = policy.MAX_ATTEMPTS
        /\ Retry!Larger(policy.INITIAL_BACKOFF, 0) = policy.INITIAL_BACKOFF
        /\ Retry!Larger(policy.MAX_BACKOFF, policy.INITIAL_BACKOFF) = policy.MAX_BACKOFF
        /\ Retry!Larger(policy.BODY_BUFFER_BYTES, 0) = policy.BODY_BUFFER_BYTES
    BY <1>3, <1>4 DEF Retry!Larger
  <2> DEFINE methods == {Retry!Upper(m) : m \in policy.METHODS}
  <2>2. Retry!normalize(policy) =
            [policy EXCEPT !.MAX_ATTEMPTS = policy.MAX_ATTEMPTS, !.INITIAL_BACKOFF = policy.INITIAL_BACKOFF,
                           !.MAX_BACKOFF = policy.MAX_BACKOFF,
                           !.BACKOFF_MULTIPLIER = policy.BACKOFF_MULTIPLIER, !.METHODS = methods,
                           !.STATUS_CODES = policy.STATUS_CODES, !.BODY_BUFFER_BYTES = policy.BODY_BUFFER_BYTES]
    BY <1>4, <1>5, <2>1 DEF Retry!normalize
  <2>3. ASSUME NEW f, NEW S
        PROVE  \A k \in DOMAIN f \ {"METHODS"} :
                   [f EXCEPT !.MAX_ATTEMPTS = f.MAX_ATTEMPTS, !.INITIAL_BACKOFF = f.INITIAL_BACKOFF,
                             !.MAX_BACKOFF = f.MAX_BACKOFF,
                             !.BACKOFF_MULTIPLIER = f.BACKOFF_MULTIPLIER, !.METHODS = S,
                             !.STATUS_CODES = f.STATUS_CODES, !.BODY_BUFFER_BYTES = f.BODY_BUFFER_BYTES][k] = f[k]
    OBVIOUS
  <2> HIDE DEF methods
  <2> QED
    BY <1>1, <2>2, <2>3
<1> QED
  BY <1>1, <1>6

\* A quotient of products does not shrink when the upper factor is the larger one.
LEMMA Grows ==
    ASSUME NEW p \in Nat, NEW q \in Nat, q > 0, NEW m \in Nat, m >= 2
    PROVE  p \div q =< (p * m) \div (q * 2)
<1> DEFINE x == p \div q
<1>1. x \in Nat /\ x * q =< p
  OBVIOUS
<1>2. x * (q * 2) =< p * m
  <2>1. x * q * 2 =< p * 2
    BY <1>1
  <2>2. p * 2 =< p * m
    OBVIOUS
  <2> QED
    BY <1>1, <2>1, <2>2
<1> QED
  BY <1>1, <1>2

\* The delays begin with the initial backoff, grow unless the multiplier is NaN, and
\* stop at the maximum.
LEMMA Backoffs ==
    ASSUME {NaN, Inf} \cap Int = {}, NaN # Inf, NEW p, p.INITIAL_BACKOFF \in Nat, p.MAX_BACKOFF \in Nat,
           p.INITIAL_BACKOFF =< p.MAX_BACKOFF, p.BACKOFF_MULTIPLIER \in (Nat \ {0, 1}) \cup {NaN, Inf},
           NEW n \in Nat \ {0}
    PROVE  /\ \A d \in Retry!retryBackoff(p, n) : d \in Nat /\ d =< p.MAX_BACKOFF
           /\ Retry!retryBackoff(p, 1) = {p.INITIAL_BACKOFF}
           /\ p.BACKOFF_MULTIPLIER # NaN =>
                  \A d \in Retry!retryBackoff(p, n), e \in Retry!retryBackoff(p, n + 1) : d =< e
<1> DEFINE initial == p.INITIAL_BACKOFF
           max == p.MAX_BACKOFF
           m == p.BACKOFF_MULTIPLIER
           product(i) == initial * Retry!Power[i - 1][m]
           delay(i) == product(i) \div Retry!Power[i - 1][2]
<1>1. ASSUME NEW i \in Nat \ {0}
      PROVE  /\ ~(initial > 0 /\ i > 1) => Retry!retryBackoff(p, i) = {initial}
             /\ initial > 0 /\ i > 1 /\ m = NaN => Retry!retryBackoff(p, i) = {0}
             /\ initial > 0 /\ i > 1 /\ m = Inf => Retry!retryBackoff(p, i) = {max}
             /\ initial > 0 /\ i > 1 /\ m \notin {NaN, Inf} =>
                    Retry!retryBackoff(p, i) = {Retry!Clamp(delay(i), max)}
  <2>1. Retry!Clamp(initial, max) = initial
    BY DEF Retry!Clamp
  <2> QED
    BY <2>1 DEF Retry!retryBackoff
<1>2. ASSUME NEW i \in Nat \ {0}, m \in Nat \ {0, 1}
      PROVE  /\ product(i) \in Nat /\ Retry!Power[i - 1][2] \in Nat \ {0} /\ delay(i) \in Nat
             /\ delay(i) =< delay(i + 1)
             /\ delay(1) = initial
  <2>1. i - 1 \in Nat /\ (i - 1) + 1 = i /\ (i + 1) - 1 = i
    OBVIOUS
  <2> DEFINE a == Retry!Power[i - 1][m]
             b == Retry!Power[i - 1][2]
  <2>2. a \in Nat /\ b \in Nat /\ b > 0
    BY <1>2, <2>1, Powers
  <2>3. Retry!Power[i] = [c \in Nat |-> c * Retry!Power[i - 1][c]]
    BY <2>1, Powers
  <2>4. Retry!Power[i][m] = m * a /\ Retry!Power[i][2] = 2 * b
    BY <1>2, <2>3
  <2>5. Retry!Power[0][m] = 1 /\ Retry!Power[0][2] = 1
    BY <1>2, Powers
  <2>6. product(i + 1) = initial * (m * a) /\ delay(i + 1) = (initial * (m * a)) \div (2 * b)
    BY <2>1, <2>4
  <2>7. delay(1) = initial
    <3>1. product(1) = initial * 1 /\ delay(1) = (initial * 1) \div 1
      BY <2>5
    <3> HIDE DEF delay, product
    <3> QED
      BY <3>1
  <2>8. product(i) = initial * a /\ delay(i) = (initial * a) \div b
    OBVIOUS
  <2> HIDE DEF delay, product, a, b, m, initial
  <2>9. initial \in Nat
    BY DEF initial
  <2>10. initial * a \in Nat /\ (initial * a) \div b \in Nat
    BY <2>2, <2>9
  <2>11. (initial * a) * m = initial * (m * a) /\ b * 2 = 2 * b
    BY <1>2, <2>2, <2>9
  <2>12. (initial * a) \div b =< ((initial * a) * m) \div (b * 2)
    BY <1>2, <2>2, <2>10, Grows
  <2> QED
    BY <2>2, <2>6, <2>7, <2>8, <2>10, <2>11, <2>12 DEF b
<1> HIDE DEF delay, product
<1>3. ASSUME NEW i \in Nat \ {0}, NEW d \in Retry!retryBackoff(p, i) PROVE d \in Nat /\ d =< max
  BY <1>1, <1>2 DEF Retry!Clamp
<1>4. Retry!retryBackoff(p, 1) = {initial}
  BY <1>1
<1>5. ASSUME m # NaN, NEW d \in Retry!retryBackoff(p, n), NEW e \in Retry!retryBackoff(p, n + 1) PROVE d =< e
  <2>1. n + 1 \in Nat \ {0} /\ n + 1 > 1
    OBVIOUS
  <2>2. CASE initial = 0
    BY <1>1, <2>1, <2>2
  <2>3. CASE initial > 0 /\ m = Inf
    <3>1. e = max
      BY <1>1, <1>5, <2>1, <2>3
    <3> QED
      BY <1>3, <3>1
  <2>4. CASE initial > 0 /\ m # Inf
    <3>1. m \in Nat \ {0, 1}
      BY <1>5, <2>4
    <3>2. e = Retry!Clamp(delay(n + 1), max)
      BY <1>1, <1>5, <2>1, <2>4
    <3>3. d = Retry!Clamp(delay(n), max)
      BY <1>1, <1>2, <1>5, <2>4, <3>1 DEF Retry!Clamp
    <3>4. delay(n) \in Nat /\ delay(n + 1) \in Nat /\ delay(n) =< delay(n + 1)
      BY <1>2, <2>1, <3>1
    <3> QED
      BY <3>2, <3>3, <3>4 DEF Retry!Clamp
  <2> QED
    BY <2>2, <2>3, <2>4
<1> QED
  BY <1>3, <1>4, <1>5

LEMMA RetryInit == Retry!Init => RetryInv
<1> SUFFICES ASSUME Retry!Init PROVE RetryInv
  OBVIOUS
<1> USE DEF Retry!Init
<1>1. DOMAIN policy = {} /\ DOMAIN waits = {}
  OBVIOUS
<1> QED
  BY <1>1 DEF RetryInv, PolicyTypes, InOrder, Waited

LEMMA ReadInv ==
    ASSUME Retry!PolicyAssumption, RetryInv, NEW raw \in Setting[Retry!Keys[next]], Retry!ReadVariable(raw)
    PROVE  RetryInv'
<1> DEFINE key == Retry!Keys[next]
           value == Retry!Parsed(key, raw)
           ok == (raw \in {Absent, Blank} \/ Retry!Accepts(key, raw)) /\ ~Retry!Contradicts(key, value)
           more == [k \in DOMAIN policy \cup {key} |-> IF k = key THEN value ELSE policy[k]]
<1>1. /\ phase = "load"
      /\ policy' = IF ok THEN more ELSE policy
      /\ next' = next + 1
      /\ phase' = IF ~ok THEN "failed" ELSE IF next = Len(Retry!Keys) THEN "loaded" ELSE "load"
      /\ UNCHANGED <<used, waits>>
  BY Zenon DEF Retry!ReadVariable
<1>2. next \in 1 .. 8 /\ key \in Retry!Key /\ (key = "INITIAL_BACKOFF" <=> next = 2) /\ (key = "MAX_BACKOFF" <=> next = 3)
  BY <1>1, KeyList DEF RetryInv, PolicyTypes
<1>3. DOMAIN policy = {Retry!Keys[i] : i \in 1 .. next - 1}
  BY <1>1 DEF RetryInv, PolicyTypes
<1>4. ok => Acceptable(key, value)
  BY <1>2, Accepted
<1>5. ok /\ key = "MAX_BACKOFF" => ~(value < policy.INITIAL_BACKOFF)
  BY DEF Retry!Contradicts
<1> HIDE DEF value, ok
<1>6. CASE ~ok
  <2>1. phase' = "failed" /\ policy' = policy /\ next' - 2 = next - 1
    BY <1>1, <1>2, <1>6
  <2>2. PolicyTypes'
    BY <1>1, <1>2, <1>3, <2>1 DEF RetryInv, PolicyTypes
  <2>3. InOrder'
    BY <2>1 DEF RetryInv, InOrder
  <2>4. Waited'
    BY <1>1, <2>1 DEF RetryInv, Waited
  <2> QED
    BY <2>2, <2>3, <2>4 DEF RetryInv
<1>7. CASE ok
  <2>1. policy' = more /\ phase' \in {"loaded", "load"} /\ (phase' = "loaded" <=> next = 8)
    BY <1>1, <1>7, KeyList
  <2>2. DOMAIN policy' = {Retry!Keys[i] : i \in 1 .. next' - 1}
    <3>1. next' - 1 = next
      BY <1>1, <1>2
    <3>2. 1 .. next = (1 .. next - 1) \cup {next}
      BY <1>2
    <3>3. DOMAIN policy' = {Retry!Keys[i] : i \in 1 .. next - 1} \cup {Retry!Keys[next]}
      BY <1>3, <2>1
    <3> QED
      BY <3>1, <3>2, <3>3
  <2>3. ASSUME NEW k \in DOMAIN policy' PROVE Acceptable(k, policy'[k])
    <3>1. CASE k = key
      BY <1>4, <1>7, <2>1, <3>1
    <3>2. CASE k # key
      <4>1. k \in DOMAIN policy /\ policy'[k] = policy[k]
        BY <2>1, <3>2
      <4> QED
        BY <4>1 DEF RetryInv, PolicyTypes
    <3> QED
      BY <3>1, <3>2
  <2>4. PolicyTypes'
    <3>1. /\ next' \in 1 .. 9 /\ (phase' = "load" => next' =< 8)
          /\ phase' \in {"loaded", "attempting", "direct"} => next' = 9
      BY <1>1, <1>2, <2>1
    <3>2. phase' \in {"load", "failed", "loaded", "attempting", "direct"} /\ phase' # "failed"
      BY <2>1
    <3> QED
      BY <2>2, <2>3, <3>1, <3>2 DEF PolicyTypes
  <2>5. InOrder'
    <3> SUFFICES ASSUME "MAX_BACKOFF" \in DOMAIN policy' PROVE policy'["INITIAL_BACKOFF"] =< policy'["MAX_BACKOFF"]
      BY DEF InOrder
    <3>1. next >= 3
      <4>1. PICK i \in 1 .. next' - 1 : Retry!Keys[i] = "MAX_BACKOFF"
        BY <2>2
      <4>2. i \in 1 .. 8 /\ i =< next
        BY <1>1, <1>2, <4>1
      <4> QED
        BY <4>1, <4>2, KeyList
    <3>2. Retry!Keys[2] = "INITIAL_BACKOFF" /\ Retry!Keys[3] = "MAX_BACKOFF" /\ key # "INITIAL_BACKOFF"
      BY <1>2, <3>1, KeyList
    <3>3. "INITIAL_BACKOFF" \in DOMAIN policy /\ policy'["INITIAL_BACKOFF"] = policy["INITIAL_BACKOFF"]
      <4>1. 2 \in 1 .. next - 1
        BY <1>2, <3>1
      <4> QED
        BY <1>3, <2>1, <3>2, <4>1
    <3>4. CASE key = "MAX_BACKOFF"
      <4>1. policy'["MAX_BACKOFF"] = value /\ value \in Nat
        BY <1>4, <1>7, <2>1, <3>4 DEF Acceptable
      <4>2. policy["INITIAL_BACKOFF"] \in Nat
        BY <3>3 DEF RetryInv, PolicyTypes, Acceptable
      <4> QED
        BY <1>5, <1>7, <3>3, <3>4, <4>1, <4>2
    <3>5. CASE key # "MAX_BACKOFF"
      <4>1. "MAX_BACKOFF" \in DOMAIN policy /\ policy'["MAX_BACKOFF"] = policy["MAX_BACKOFF"]
        BY <2>1, <3>5
      <4> QED
        BY <3>3, <4>1 DEF RetryInv, InOrder
    <3> QED
      BY <3>4, <3>5
  <2>6. Waited'
    <3>1. waits = <<>> /\ waits' = waits
      BY <1>1 DEF RetryInv, Waited
    <3> QED
      BY <2>1, <3>1 DEF Waited
  <2> QED
    BY <2>4, <2>5, <2>6 DEF RetryInv
<1> QED
  BY <1>6, <1>7

LEMMA TransportInv == ASSUME RetryInv, Retry!newRetryTransport PROVE RetryInv'
<1> USE DEF Retry!newRetryTransport
<1>1. PolicyTypes'
  BY DEF RetryInv, PolicyTypes
<1>2. InOrder'
  BY DEF RetryInv, InOrder
<1>3. waits = <<>> /\ waits' = waits /\ used' = Retry!normalize(policy') /\ phase' \in {"attempting", "direct"}
  BY DEF RetryInv, Waited
<1>4. Waited'
  <2> HIDE DEF Retry!newRetryTransport
  <2> QED
    BY <1>3 DEF Waited
<1> QED
  BY <1>1, <1>2, <1>4 DEF RetryInv

\* The policy in use is one that Backoffs speaks of.
LEMMA InUse ==
    ASSUME Retry!PolicyAssumption, RetryInv, phase = "attempting"
    PROVE  /\ used.INITIAL_BACKOFF = policy.INITIAL_BACKOFF /\ used.MAX_BACKOFF = policy.MAX_BACKOFF
           /\ used.BACKOFF_MULTIPLIER = policy.BACKOFF_MULTIPLIER /\ used.MAX_ATTEMPTS = policy.MAX_ATTEMPTS
           /\ used.INITIAL_BACKOFF \in Nat /\ used.MAX_BACKOFF \in Nat
           /\ used.INITIAL_BACKOFF =< used.MAX_BACKOFF
           /\ used.BACKOFF_MULTIPLIER \in (Nat \ {0, 1}) \cup {NaN, Inf}
           /\ used.MAX_ATTEMPTS \in Nat
<1>1. next = 9 /\ phase # "failed" /\ used = Retry!normalize(policy)
  BY DEF RetryInv, PolicyTypes, Waited
<1>2. DOMAIN policy = Retry!Key /\ \A key \in Retry!Key \ {"METHODS"} : used[key] = policy[key]
  BY <1>1, NothingToRepair DEF RetryInv
<1>3. /\ {"INITIAL_BACKOFF", "MAX_BACKOFF", "BACKOFF_MULTIPLIER", "MAX_ATTEMPTS"} \subseteq Retry!Key \ {"METHODS"}
  BY KeyList
<1>4. \A key \in Retry!Key : Acceptable(key, policy[key])
  BY <1>2 DEF RetryInv, PolicyTypes
<1>5. policy["INITIAL_BACKOFF"] \in Nat /\ policy["MAX_BACKOFF"] \in Nat /\ policy["MAX_ATTEMPTS"] \in Nat
      /\ policy["BACKOFF_MULTIPLIER"] \in (Nat \ {0, 1}) \cup {NaN, Inf}
  BY <1>3, <1>4 DEF Acceptable
<1>6. policy["INITIAL_BACKOFF"] =< policy["MAX_BACKOFF"]
  BY <1>2, <1>3 DEF RetryInv, InOrder
<1> QED
  BY <1>2, <1>3, <1>5, <1>6

LEMMA WaitInv == ASSUME Retry!PolicyAssumption, RetryInv, Retry!Wait PROVE RetryInv'
<1>1. /\ phase = "attempting" /\ Len(waits) + 1 < used.MAX_ATTEMPTS
      /\ UNCHANGED <<phase, next, policy, used>>
  BY DEF Retry!Wait
<1>2. PICK delay \in Retry!retryBackoff(used, Len(waits) + 1) : waits' = Append(waits, delay)
  BY DEF Retry!Wait
<1>3. PolicyTypes' /\ InOrder'
  BY <1>1 DEF RetryInv, PolicyTypes, InOrder
<1>4. waits \in Seq(Nat) /\ Len(waits) \in Nat /\ DOMAIN waits = 1 .. Len(waits)
  BY LenProperties DEF RetryInv, Waited
<1>5. {NaN, Inf} \cap Int = {} /\ NaN # Inf
  BY DEF Retry!PolicyAssumption
<1>6. delay \in Nat
  BY <1>1, <1>2, <1>4, <1>5, InUse, Backoffs
<1>7. waits' \in Seq(Nat) /\ Len(waits') = Len(waits) + 1 /\ DOMAIN waits' = 1 .. Len(waits) + 1
      /\ waits'[Len(waits) + 1] = delay /\ \A i \in 1 .. Len(waits) : waits'[i] = waits[i]
  BY <1>2, <1>4, <1>6, AppendProperties
<1>8. policy.BACKOFF_MULTIPLIER # NaN => delay >= policy.INITIAL_BACKOFF
  <2> SUFFICES ASSUME policy.BACKOFF_MULTIPLIER # NaN PROVE delay >= policy.INITIAL_BACKOFF
    OBVIOUS
  <2>1. used.BACKOFF_MULTIPLIER # NaN /\ policy.INITIAL_BACKOFF \in Nat
    BY <1>1, InUse
  <2>2. CASE Len(waits) = 0
    <3>1. delay \in Retry!retryBackoff(used, 1)
      BY <1>2, <2>2
    <3>2. delay \in {used.INITIAL_BACKOFF}
      BY <1>1, <1>5, <3>1, InUse, Backoffs
    <3> QED
      BY <1>1, <3>2, InUse
  <2>3. CASE Len(waits) # 0
    <3>1. Len(waits) \in DOMAIN waits /\ Len(waits) \in Nat \ {0}
      BY <1>4, <2>3
    <3>2. waits[Len(waits)] \in Retry!retryBackoff(used, Len(waits)) /\ waits[Len(waits)] >= policy.INITIAL_BACKOFF
      BY <3>1 DEF RetryInv, Waited
    <3>3. waits[Len(waits)] =< delay
      BY <1>1, <1>2, <1>5, <2>1, <3>1, <3>2, InUse, Backoffs
    <3>4. waits[Len(waits)] \in Nat
      BY <1>4, <3>1
    <3> QED
      BY <1>6, <2>1, <3>2, <3>3, <3>4
  <2> QED
    BY <1>4, <2>2, <2>3
<1>9. Waited'
  <2>1. \A i \in DOMAIN waits' :
            /\ waits'[i] \in Retry!retryBackoff(used, i)
            /\ policy.BACKOFF_MULTIPLIER # NaN => waits'[i] >= policy.INITIAL_BACKOFF
    <3> SUFFICES ASSUME NEW i \in DOMAIN waits'
                 PROVE  /\ waits'[i] \in Retry!retryBackoff(used, i)
                        /\ policy.BACKOFF_MULTIPLIER # NaN => waits'[i] >= policy.INITIAL_BACKOFF
      OBVIOUS
    <3>1. CASE i = Len(waits) + 1
      BY <1>2, <1>7, <1>8, <3>1
    <3>2. CASE i # Len(waits) + 1
      <4>1. i \in DOMAIN waits /\ waits'[i] = waits[i]
        BY <1>4, <1>7, <3>2
      <4> QED
        BY <4>1 DEF RetryInv, Waited
    <3> QED
      BY <3>1, <3>2
  <2>2. Len(waits') < policy.MAX_ATTEMPTS
    BY <1>1, <1>7, InUse
  <2> QED
    BY <1>1, <1>7, <2>1, <2>2 DEF RetryInv, Waited, Retry!normalize, Retry!retryBackoff
<1> QED
  BY <1>3, <1>9 DEF RetryInv

\* The transport uses the policy that was configured, and the waits it leads to are
\* bounded, begin with the initial backoff and never shrink unless the multiplier is
\* NaN (loadRetryPolicy, normalize, retryBackoff).
THEOREM PolicyKept == Spec => []RetriesAsConfigured
<1>1. Init => (subject = "retry" => RetryInv)
  BY RetryInit DEF Init
<1>2. (subject = "retry" => RetryInv) /\ [Next]_vars => (subject = "retry" => RetryInv)'
  <2> SUFFICES ASSUME subject = "retry" => RetryInv, [Next]_vars, subject' = "retry" PROVE RetryInv'
    OBVIOUS
  <2>1. RetryInv /\ (Retry!Next \/ UNCHANGED Retry!vars) /\ Retry!PolicyAssumption
    BY Turns, InputAssumption
  <2>2. CASE UNCHANGED Retry!vars
    BY <2>1, <2>2 DEF Retry!vars, RetryInv, PolicyTypes, InOrder, Waited
  <2>3. CASE Retry!Next
    BY <2>1, <2>3, ReadInv, TransportInv, WaitInv DEF Retry!Next
  <2> QED
    BY <2>1, <2>2, <2>3
<1>3. (subject = "retry" => RetryInv) => RetriesAsConfigured
  <2> SUFFICES ASSUME RetryInv PROVE Retry!TypeOK /\ Retry!UsedAsConfigured /\ Retry!BackoffBounded
    BY DEF RetriesAsConfigured
  <2>0. Retry!PolicyAssumption
    BY InputAssumption
  <2>1. Retry!TypeOK
    <3>1. \A key \in DOMAIN policy \cap DOMAIN Retry!Minimum : policy[key] \in Nat \cup {NaN, Inf}
      BY DEF RetryInv, PolicyTypes, Acceptable, Retry!Minimum
    <3>2. \A i \in DOMAIN waits : waits[i] \in Nat
      BY DEF RetryInv, Waited
    <3> QED
      BY <3>1, <3>2, KeyList DEF RetryInv, PolicyTypes, Retry!TypeOK
  <2>2. Retry!UsedAsConfigured
    BY <2>0, NothingToRepair DEF Retry!UsedAsConfigured, RetryInv, Waited, PolicyTypes
  <2>3. Retry!BackoffBounded
    <3> SUFFICES ASSUME NEW i \in DOMAIN waits
                 PROVE  /\ waits[i] =< policy.MAX_BACKOFF
                        /\ policy.BACKOFF_MULTIPLIER # NaN =>
                               /\ waits[i] >= policy.INITIAL_BACKOFF
                               /\ i > 1 => waits[i] >= waits[i - 1]
      BY DEF Retry!BackoffBounded, RetryInv, Waited
    <3>1. phase = "attempting"
      BY DEF RetryInv, Waited
    <3>2. waits \in Seq(Nat) /\ i \in Nat \ {0} /\ Len(waits) \in Nat /\ i =< Len(waits) /\ DOMAIN waits = 1 .. Len(waits)
      BY LenProperties DEF RetryInv, Waited
    <3>3. {NaN, Inf} \cap Int = {} /\ NaN # Inf
      BY <2>0 DEF Retry!PolicyAssumption
    <3>4. \A j \in DOMAIN waits : waits[j] \in Retry!retryBackoff(used, j)
      BY DEF RetryInv, Waited
    <3>5. waits[i] =< policy.MAX_BACKOFF
      BY <2>0, <3>1, <3>2, <3>3, <3>4, InUse, Backoffs
    <3>6. policy.BACKOFF_MULTIPLIER # NaN => waits[i] >= policy.INITIAL_BACKOFF
      BY DEF RetryInv, Waited
    <3>7. ASSUME policy.BACKOFF_MULTIPLIER # NaN, i > 1 PROVE waits[i] >= waits[i - 1]
      <4>1. i - 1 \in Nat \ {0} /\ i - 1 \in DOMAIN waits /\ (i - 1) + 1 = i
        BY <3>2, <3>7
      <4>2. used.BACKOFF_MULTIPLIER # NaN
        BY <2>0, <3>1, <3>7, InUse
      <4> DEFINE j == i - 1
      <4> HIDE DEF j
      <4>3. j \in Nat \ {0} /\ waits[j] \in Retry!retryBackoff(used, j) /\ waits[i] \in Retry!retryBackoff(used, j + 1)
        BY <3>4, <4>1 DEF j
      <4>4. waits[j] =< waits[i]
        BY <2>0, <3>1, <3>3, <4>2, <4>3, InUse, Backoffs
      <4>5. waits[i] \in Nat /\ waits[j] \in Nat
        BY <3>2, <4>1 DEF j
      <4> QED
        BY <4>4, <4>5 DEF j
    <3> QED
      BY <3>5, <3>6, <3>7
  <2> QED
    BY <2>1, <2>2, <2>3
<1> QED
  BY <1>1, <1>2, <1>3, PTL DEF Spec
----------------------------------------------------------------------------
(* The hash.  Bodies, structureSignatureValue and SameShape are recursive   *)
(* functions, like Elements and Meaning of BodyParser: what their           *)
(* definitions say of them holds because, level by level, functions as      *)
(* defined exist.                                                           *)

Sig(b, f) ==
    [t \in b \cup {Shape!Missing} |-> [depth \in Nat |->
        IF ~Shape!Container(t) THEN Shape!AtomSignature(t)
        ELSE IF Shape!TooDeep(depth) THEN <<"x">>
        ELSE IF t.kind = "object"
             THEN Shape!objectSignature([k \in Shape!Keys |-> f[t.fields[k]][depth + 1]])
             ELSE Shape!arraySignature([i \in DOMAIN t.items |-> f[t.items[i]][depth + 1]])]]

Same(b, f) ==
    [t \in b \cup {Shape!Missing} |-> [u \in b \cup {Shape!Missing} |->
    [depth \in Nat |-> [strictly \in BOOLEAN |->
        \/ Shape!Container(t) /\ Shape!Container(u) /\ depth >= MaxShapeDepth
        \/ /\ Shape!Kind(t, strictly) = Shape!Kind(u, strictly)
           /\ t.kind = "object" =>
                  \A k \in Shape!Keys : f[t.fields[k]][u.fields[k]][depth + 1][strictly]
           /\ t.kind = "array" =>
                  /\ \A i \in DOMAIN t.items : \E j \in DOMAIN u.items :
                         f[t.items[i]][u.items[j]][depth + 1][strictly]
                  /\ \A j \in DOMAIN u.items : \E i \in DOMAIN t.items :
                         f[t.items[i]][u.items[j]][depth + 1][strictly]]]]]

Tells(b, f) == [element \in b |-> Body!Shown(element, f)]

\* The functions at level n, also the two of BodyParser, and at the next.
Ground ==
    [bodies |-> Shape!Atom, sig |-> Sig(Shape!Atom, <<>>), same |-> Same(Shape!Atom, <<>>),
     elements |-> {}, meaning |-> Tells({}, <<>>)]

Up(l) ==
    LET b == Shape!Around(l.bodies)
        e == Body!ElementsOver(l.elements)
    IN  [bodies |-> b, sig |-> Sig(b, l.sig), same |-> Same(b, l.same),
         elements |-> e, meaning |-> Tells(e, l.meaning)]

Climbs(f, n) == f[0] = Ground /\ \A i \in 1 .. n : f[i] = Up(f[i - 1])

\* There is a function of all levels.
LEMMA AllLevels == \E F : F[0] = Ground /\ \A n \in Nat : F[n + 1] = Up(F[n])
<1> DEFINE Lacking == {n \in Nat : ~\E f : Climbs(f, n)}
           F == [n \in Nat |-> (CHOOSE f : Climbs(f, n))[n]]
<1>1. ASSUME NEW n \in Nat PROVE \E f : Climbs(f, n)
  <2> SUFFICES ASSUME Lacking # {} PROVE FALSE
    OBVIOUS
  <2>1. PICK m \in Lacking : \A k \in Lacking : m =< k
    <3> HIDE DEF Lacking
    <3>1. Lacking \subseteq Nat
      BY DEF Lacking
    <3> QED
      BY <3>1, LeastElement
  <2>2. m \in Nat /\ ~\E f : Climbs(f, m)
    OBVIOUS
  <2>3. CASE m = 0
    <3> DEFINE f == [i \in {0} |-> Ground]
    <3>1. f[0] = Ground /\ \A i \in 1 .. m : FALSE
      BY <2>3
    <3>2. Climbs(f, m)
      BY <3>1 DEF Climbs
    <3> QED
      BY <2>2, <3>2
  <2>4. CASE m # 0
    <3>1. m - 1 \in Nat /\ m - 1 \notin Lacking
      BY <2>1, <2>2, <2>4
    <3>2. PICK f : Climbs(f, m - 1)
      BY <3>1
    <3> DEFINE h == [i \in 0 .. m |-> IF i = m THEN Up(f[m - 1]) ELSE f[i]]
    <3>3. h[0] = Ground
      BY <2>2, <2>4, <3>2 DEF Climbs
    <3>4. ASSUME NEW i \in 1 .. m PROVE h[i] = Up(h[i - 1])
      BY <2>2, <3>1, <3>2 DEF Climbs
    <3>5. Climbs(h, m)
      <4> HIDE DEF h
      <4> QED
        BY <3>3, <3>4 DEF Climbs
    <3> QED
      BY <2>2, <3>5
  <2> QED
    BY <2>3, <2>4
<1>2. ASSUME NEW n \in Nat, NEW m \in Nat, NEW f, NEW h, Climbs(f, n), Climbs(h, m),
             NEW i \in Nat, i =< n, i =< m
      PROVE  f[i] = h[i]
  <2> DEFINE T == {j \in 0 .. i : f[j] # h[j]}
  <2> SUFFICES ASSUME T # {} PROVE FALSE
    OBVIOUS
  <2>1. PICK j \in T : \A k \in T : j =< k
    <3>1. T \subseteq Nat
      OBVIOUS
    <3> HIDE DEF T
    <3> QED
      BY <3>1, LeastElement
  <2>2. j # 0 /\ j - 1 \in 0 .. i /\ j - 1 \notin T /\ j \in 1 .. n /\ j \in 1 .. m
    BY <1>2, <2>1 DEF Climbs
  <2> QED
    BY <1>2, <2>1, <2>2 DEF Climbs
<1>3. ASSUME NEW n \in Nat PROVE Climbs(CHOOSE f : Climbs(f, n), n)
  BY <1>1, Zenon
<1>4. F[0] = Ground
  BY <1>3 DEF Climbs
<1>5. ASSUME NEW n \in Nat PROVE F[n + 1] = Up(F[n])
  <2> DEFINE f == CHOOSE x : Climbs(x, n)
             h == CHOOSE x : Climbs(x, n + 1)
  <2>1. Climbs(f, n) /\ Climbs(h, n + 1)
    BY <1>3
  <2>2. F[n] = f[n] /\ F[n + 1] = h[n + 1]
    OBVIOUS
  <2> HIDE DEF f, h, F
  <2>3. f[n] = h[n]
    BY <1>2, <2>1
  <2>4. n + 1 \in 1 .. n + 1 /\ (n + 1) - 1 = n
    OBVIOUS
  <2>5. h[n + 1] = Up(h[n])
    BY <2>1, <2>4 DEF Climbs
  <2> QED
    BY <2>2, <2>3, <2>5
<1> HIDE DEF F
<1> QED
  BY <1>4, <1>5

\* What the definitions of the three functions say of them.
LEMMA Levels ==
    /\ Shape!Bodies[0] = Shape!Atom
    /\ \A n \in Nat : Shape!Bodies[n + 1] = Shape!Around(Shape!Bodies[n])
    /\ \A n \in Nat :
           /\ Shape!structureSignatureValue[n] = Sig(Shape!Bodies[n], Shape!structureSignatureValue[n - 1])
           /\ Shape!SameShape[n] = Same(Shape!Bodies[n], Shape!SameShape[n - 1])
<1> DEFINE B(b) == [n \in Nat |-> IF n = 0 THEN Shape!Atom ELSE Shape!Around(b[n - 1])]
           S(f) == [n \in Nat |-> Sig(Shape!Bodies[n], f[n - 1])]
           E(f) == [n \in Nat |-> Same(Shape!Bodies[n], f[n - 1])]
<1>1. PICK F : F[0] = Ground /\ \A n \in Nat : F[n + 1] = Up(F[n])
  BY AllLevels
<1>2. ASSUME NEW n \in Nat, n # 0 PROVE n - 1 \in Nat /\ F[n] = Up(F[n - 1])
  <2>1. n - 1 \in Nat /\ (n - 1) + 1 = n
    BY <1>2
  <2> QED
    BY <1>1, <2>1
<1> DEFINE b == [n \in Nat |-> F[n].bodies]
           s == [n \in Nat |-> F[n].sig]
           e == [n \in Nat |-> F[n].same]
<1>3. b = B(b)
  <2>1. ASSUME NEW n \in Nat PROVE b[n] = IF n = 0 THEN Shape!Atom ELSE Shape!Around(b[n - 1])
    <3>1. n = 0 => F[n].bodies = Shape!Atom
      BY <1>1 DEF Ground
    <3>2. ASSUME n # 0 PROVE n - 1 \in Nat /\ F[n].bodies = Shape!Around(F[n - 1].bodies)
      <4>1. n - 1 \in Nat /\ F[n] = Up(F[n - 1])
        BY <1>2, <3>2
      <4> QED
        BY <4>1 DEF Up
    <3> QED
      BY <3>1, <3>2
  <2> QED
    BY <2>1
<1>4. Shape!Bodies = B(Shape!Bodies)
  <2> HIDE DEF b
  <2> QED
    BY <1>3, Zenon DEF Shape!Bodies, B
<1>5. /\ Shape!Bodies[0] = Shape!Atom
      /\ \A n \in Nat : Shape!Bodies[n + 1] = Shape!Around(Shape!Bodies[n])
  <2>1. \A n \in Nat : Shape!Bodies[n] = IF n = 0 THEN Shape!Atom ELSE Shape!Around(Shape!Bodies[n - 1])
    BY <1>4, Zenon DEF B
  <2>2. ASSUME NEW n \in Nat PROVE Shape!Bodies[n + 1] = Shape!Around(Shape!Bodies[n])
    <3>1. n + 1 \in Nat /\ n + 1 # 0 /\ (n + 1) - 1 = n
      OBVIOUS
    <3> QED
      BY <2>1, <3>1
  <2> QED
    BY <2>1, <2>2
<1>6. ASSUME NEW n \in Nat PROVE F[n].bodies = Shape!Bodies[n]
  <2> DEFINE T == {k \in Nat : F[k].bodies # Shape!Bodies[k]}
  <2> SUFFICES ASSUME T # {} PROVE FALSE
    OBVIOUS
  <2>1. PICK k \in T : \A j \in T : k =< j
    <3>1. T \subseteq Nat
      OBVIOUS
    <3> HIDE DEF T
    <3> QED
      BY <3>1, LeastElement
  <2>2. CASE k = 0
    BY <1>1, <1>5, <2>1, <2>2 DEF Ground
  <2>3. CASE k # 0
    <3>1. k - 1 \in Nat /\ k - 1 \notin T /\ (k - 1) + 1 = k
      BY <2>1, <2>3
    <3>2. F[k] = Up(F[k - 1]) /\ F[k - 1].bodies = Shape!Bodies[k - 1]
      BY <1>2, <2>1, <2>3, <3>1
    <3>3. Shape!Bodies[k] = Shape!Around(Shape!Bodies[k - 1])
      BY <1>5, <3>1
    <3> QED
      BY <2>1, <3>2, <3>3 DEF Up
  <2> QED
    BY <2>2, <2>3
<1>7. ASSUME NEW x, NEW y
      PROVE  Sig(Shape!Atom, x) = Sig(Shape!Atom, y) /\ Same(Shape!Atom, x) = Same(Shape!Atom, y)
  <2>1. \A t \in Shape!Atom \cup {Shape!Missing} :
           ~Shape!Container(t) /\ t.kind # "object" /\ t.kind # "array"
    BY DEF Shape!Atom, Shape!Missing, Shape!Null, Shape!Scalar, Shape!Container
  <2>2. Sig(Shape!Atom, x) = Sig(Shape!Atom, y)
    BY <2>1 DEF Sig
  <2>3. Same(Shape!Atom, x) = Same(Shape!Atom, y)
    <3> DEFINE c == Shape!Atom \cup {Shape!Missing}
               f(z, t, u, depth, strictly) ==
                   \/ Shape!Container(t) /\ Shape!Container(u) /\ depth >= MaxShapeDepth
                   \/ /\ Shape!Kind(t, strictly) = Shape!Kind(u, strictly)
                      /\ t.kind = "object" =>
                             \A k \in Shape!Keys : z[t.fields[k]][u.fields[k]][depth + 1][strictly]
                      /\ t.kind = "array" =>
                             /\ \A i \in DOMAIN t.items : \E j \in DOMAIN u.items :
                                    z[t.items[i]][u.items[j]][depth + 1][strictly]
                             /\ \A j \in DOMAIN u.items : \E i \in DOMAIN t.items :
                                    z[t.items[i]][u.items[j]][depth + 1][strictly]
    <3>1. ASSUME NEW t \in c, NEW u \in c, NEW depth \in Nat, NEW strictly \in BOOLEAN
          PROVE  f(x, t, u, depth, strictly) = f(y, t, u, depth, strictly)
      BY <2>1, Zenon
    <3>2. Same(Shape!Atom, x) = [t \in c |-> [u \in c |->
              [depth \in Nat |-> [strictly \in BOOLEAN |-> f(x, t, u, depth, strictly)]]]]
      BY DEF Same
    <3>3. Same(Shape!Atom, y) = [t \in c |-> [u \in c |->
              [depth \in Nat |-> [strictly \in BOOLEAN |-> f(y, t, u, depth, strictly)]]]]
      BY DEF Same
    <3> HIDE DEF f, c
    <3> QED
      BY <3>1, <3>2, <3>3
  <2> QED
    BY <2>2, <2>3
<1>8. ASSUME NEW n \in Nat
      PROVE  s[n] = Sig(Shape!Bodies[n], s[n - 1]) /\ e[n] = Same(Shape!Bodies[n], e[n - 1])
  <2>1. CASE n = 0
    <3>1. s[n] = Sig(Shape!Atom, <<>>) /\ e[n] = Same(Shape!Atom, <<>>)
      BY <1>1, <2>1 DEF Ground
    <3>2. Shape!Bodies[n] = Shape!Atom
      BY <1>5, <2>1
    <3> HIDE DEF s, e
    <3> QED
      BY <1>7, <3>1, <3>2
  <2>2. CASE n # 0
    <3>1. n - 1 \in Nat /\ F[n] = Up(F[n - 1])
      BY <1>2, <2>2
    <3>2. F[n].bodies = Shape!Around(F[n - 1].bodies)
      BY <3>1 DEF Up
    <3>3. s[n] = Sig(F[n].bodies, s[n - 1]) /\ e[n] = Same(F[n].bodies, e[n - 1])
      BY <3>1, <3>2 DEF Up
    <3> QED
      BY <1>6, <3>3
  <2> QED
    BY <2>1, <2>2
<1>9. s = S(s) /\ e = E(e)
  BY <1>8
<1> HIDE DEF s, e
<1>10. Shape!structureSignatureValue = S(Shape!structureSignatureValue)
  <2>1. Shape!structureSignatureValue = CHOOSE f : f = S(f)
    BY Zenon DEF Shape!structureSignatureValue, Sig
  <2> HIDE DEF S
  <2> QED
    BY <1>9, <2>1, Zenon
<1>11. Shape!SameShape = E(Shape!SameShape)
  <2>1. Shape!SameShape = CHOOSE f : f = E(f)
    BY Zenon DEF Shape!SameShape, Same
  <2> HIDE DEF E
  <2> QED
    BY <1>9, <2>1, Zenon
<1>12. ASSUME NEW n \in Nat
       PROVE  Shape!structureSignatureValue[n] = Sig(Shape!Bodies[n], Shape!structureSignatureValue[n - 1])
  BY <1>10, Zenon DEF S
<1>13. ASSUME NEW n \in Nat PROVE Shape!SameShape[n] = Same(Shape!Bodies[n], Shape!SameShape[n - 1])
  BY <1>11, Zenon DEF E
<1> QED
  BY <1>5, <1>12, <1>13

\* What a body of at most n levels is.
LEMMA BodyForms ==
    ASSUME NEW n \in Nat, NEW t \in Shape!Bodies[n] \cup {Shape!Missing}
    PROVE  \/ ~Shape!Container(t) /\ t.kind \in {"missing", "null", "scalar"}
           \/ /\ Shape!Container(t) /\ t.kind = "object" /\ n - 1 \in Nat
              /\ \A k \in Shape!Keys : t.fields[k] \in Shape!Bodies[n - 1] \cup {Shape!Missing}
           \/ /\ Shape!Container(t) /\ t.kind = "array" /\ n - 1 \in Nat
              /\ \A i \in DOMAIN t.items : t.items[i] \in Shape!Bodies[n - 1] \cup {Shape!Missing}
<1> DEFINE small == Shape!Atom \cup {Shape!Missing}
<1>1. ASSUME t \in small PROVE ~Shape!Container(t) /\ t.kind \in {"missing", "null", "scalar"}
  BY <1>1 DEF Shape!Atom, Shape!Missing, Shape!Null, Shape!Scalar, Shape!Container
<1>2. CASE t \in small
  BY <1>1, <1>2
<1>3. CASE t \notin small
  <2>1. n # 0 /\ n - 1 \in Nat /\ (n - 1) + 1 = n
    BY <1>3, Levels
  <2>2. t \in Shape!Around(Shape!Bodies[n - 1])
    BY <1>3, <2>1, Levels
  <2> DEFINE b == Shape!Bodies[n - 1]
  <2> HIDE DEF b
  <2>3. \/ t \in [kind : {"object"}, fields : [Shape!Keys -> b \cup {Shape!Missing}]]
        \/ t \in [kind : {"array"}, items : Seq(b)]
    BY <1>3, <2>2 DEF Shape!Around, b
  <2>4. CASE t \in [kind : {"object"}, fields : [Shape!Keys -> b \cup {Shape!Missing}]]
    <3>1. Shape!Container(t) /\ t.kind = "object" /\ \A k \in Shape!Keys : t.fields[k] \in b \cup {Shape!Missing}
      BY <2>4 DEF Shape!Container
    <3> QED
      BY <2>1, <3>1 DEF b
  <2>5. CASE t \in [kind : {"array"}, items : Seq(b)]
    <3>1. Shape!Container(t) /\ t.kind = "array" /\ t.items \in Seq(b)
      BY <2>5 DEF Shape!Container
    <3>2. \A i \in DOMAIN t.items : t.items[i] \in b
      BY <3>1, LenProperties
    <3> QED
      BY <2>1, <3>1, <3>2 DEF b
  <2> QED
    BY <2>3, <2>4, <2>5
<1> QED
  BY <1>2, <1>3

\* The signature of a body that is no container depends on its kind.
LEMMA AtomKinds ==
    ASSUME NEW t, NEW u, t.kind \in {"missing", "null", "scalar"}, t.kind = u.kind
    PROVE  Shape!AtomSignature(t) = Shape!AtomSignature(u)
BY DEF Shape!AtomSignature

\* The values of Sig and Same.
LEMMA SigValue ==
    ASSUME NEW b, NEW f, NEW t \in b \cup {Shape!Missing}, NEW d \in Nat
    PROVE  /\ ~Shape!Container(t) => Sig(b, f)[t][d] = Shape!AtomSignature(t)
           /\ Shape!Container(t) /\ d >= MaxShapeDepth => Sig(b, f)[t][d] = <<"x">>
           /\ Shape!Container(t) /\ ~(d >= MaxShapeDepth) /\ t.kind = "object" =>
                  Sig(b, f)[t][d] = Shape!objectSignature([k \in Shape!Keys |-> f[t.fields[k]][d + 1]])
           /\ Shape!Container(t) /\ ~(d >= MaxShapeDepth) /\ t.kind = "array" =>
                  Sig(b, f)[t][d] = Shape!arraySignature([i \in DOMAIN t.items |-> f[t.items[i]][d + 1]])
BY DEF Sig, Shape!TooDeep, Shape!Container

\* The signature of an array depends on the set of the signatures of its elements.
LEMMA ArraySet ==
    ASSUME NEW p, NEW q, {p[i] : i \in DOMAIN p} = {q[i] : i \in DOMAIN q}
    PROVE  Shape!arraySignature(p) = Shape!arraySignature(q)
BY Zenon DEF Shape!arraySignature

Alike(f, t, u, d, z) ==
    \/ Shape!Container(t) /\ Shape!Container(u) /\ d >= MaxShapeDepth
    \/ /\ Shape!Kind(t, z) = Shape!Kind(u, z)
       /\ t.kind = "object" => \A k \in Shape!Keys : f[t.fields[k]][u.fields[k]][d + 1][z]
       /\ t.kind = "array" =>
              /\ \A i \in DOMAIN t.items : \E j \in DOMAIN u.items : f[t.items[i]][u.items[j]][d + 1][z]
              /\ \A j \in DOMAIN u.items : \E i \in DOMAIN t.items : f[t.items[i]][u.items[j]][d + 1][z]

Row(f, t, u, d) == [z \in BOOLEAN |-> Alike(f, t, u, d, z)]

LEMMA SameValue ==
    ASSUME NEW b, NEW f, NEW t \in b \cup {Shape!Missing}, NEW u \in b \cup {Shape!Missing}, NEW d \in Nat
    PROVE  Same(b, f)[t][u][d] = Row(f, t, u, d)
<1>1. Same(b, f) = [v \in b \cup {Shape!Missing} |-> [w \in b \cup {Shape!Missing} |-> [e \in Nat |-> Row(f, v, w, e)]]]
  BY Zenon DEF Same, Alike, Row
<1>2. Same(b, f)[t] = [w \in b \cup {Shape!Missing} |-> [e \in Nat |-> Row(f, t, w, e)]]
  BY <1>1
<1>3. Same(b, f)[t][u] = [e \in Nat |-> Row(f, t, u, e)]
  BY <1>2
<1> QED
  BY <1>3

LEMMA ShapeValue ==
    ASSUME NEW n \in Nat, NEW t \in Shape!Bodies[n] \cup {Shape!Missing},
           NEW u \in Shape!Bodies[n] \cup {Shape!Missing}, NEW d \in Nat,
           Shape!SameShape[n][t][u][d][TRUE]
    PROVE  Alike(Shape!SameShape[n - 1], t, u, d, TRUE)
<1>1. Shape!SameShape[n][t][u][d] = Row(Shape!SameShape[n - 1], t, u, d)
  BY Levels, SameValue
<1>2. Row(Shape!SameShape[n - 1], t, u, d)[TRUE] = Alike(Shape!SameShape[n - 1], t, u, d, TRUE)
  BY Zenon DEF Row
<1> QED
  BY <1>1, <1>2

\* At level n, two bodies of one shape have one signature.
Grouped(n) ==
    \A t, u \in Shape!Bodies[n] \cup {Shape!Missing}, d \in Nat :
        Shape!SameShape[n][t][u][d][TRUE]
            => Shape!structureSignatureValue[n][t][d] = Shape!structureSignatureValue[n][u][d]

LEMMA GroupedAbove ==
    ASSUME NEW n \in Nat, n # 0 => Grouped(n - 1)
    PROVE  Grouped(n)
<1> SUFFICES ASSUME NEW t \in Shape!Bodies[n] \cup {Shape!Missing},
                    NEW u \in Shape!Bodies[n] \cup {Shape!Missing}, NEW d \in Nat,
                    Shape!SameShape[n][t][u][d][TRUE]
             PROVE  Shape!structureSignatureValue[n][t][d] = Shape!structureSignatureValue[n][u][d]
  BY Zenon DEF Grouped
<1> DEFINE f == Shape!structureSignatureValue[n - 1]
           g == Shape!SameShape[n - 1]
           b == Shape!Bodies[n - 1] \cup {Shape!Missing}
           x == Shape!structureSignatureValue[n][t][d]
           y == Shape!structureSignatureValue[n][u][d]
           deep == d >= MaxShapeDepth
           In(v) == Shape!Container(v)
           Atomic(v) == ~In(v) /\ v.kind \in {"missing", "null", "scalar"}
           Obj(v) == In(v) /\ v.kind = "object" /\ n - 1 \in Nat /\ \A k \in Shape!Keys : v.fields[k] \in b
           Arr(v) == In(v) /\ v.kind = "array" /\ n - 1 \in Nat /\ \A i \in DOMAIN v.items : v.items[i] \in b
<1>1. Alike(g, t, u, d, TRUE)
  BY ShapeValue
<1> SUFFICES x = y
  OBVIOUS
<1>2. /\ ~In(t) => x = Shape!AtomSignature(t)
      /\ In(t) /\ deep => x = <<"x">>
      /\ In(t) /\ ~deep /\ t.kind = "object" =>
             x = Shape!objectSignature([k \in Shape!Keys |-> f[t.fields[k]][d + 1]])
      /\ In(t) /\ ~deep /\ t.kind = "array" =>
             x = Shape!arraySignature([i \in DOMAIN t.items |-> f[t.items[i]][d + 1]])
  <2>1. x = Sig(Shape!Bodies[n], f)[t][d]
    BY Levels
  <2> HIDE DEF x, f
  <2> QED
    BY <2>1, SigValue
<1>3. /\ ~In(u) => y = Shape!AtomSignature(u)
      /\ In(u) /\ deep => y = <<"x">>
      /\ In(u) /\ ~deep /\ u.kind = "object" =>
             y = Shape!objectSignature([k \in Shape!Keys |-> f[u.fields[k]][d + 1]])
      /\ In(u) /\ ~deep /\ u.kind = "array" =>
             y = Shape!arraySignature([i \in DOMAIN u.items |-> f[u.items[i]][d + 1]])
  <2>1. y = Sig(Shape!Bodies[n], f)[u][d]
    BY Levels
  <2> HIDE DEF y, f
  <2> QED
    BY <2>1, SigValue
<1>4. (Atomic(t) \/ Obj(t) \/ Arr(t)) /\ (Atomic(u) \/ Obj(u) \/ Arr(u))
  BY BodyForms
<1>5. ASSUME n - 1 \in Nat, NEW v \in b, NEW w \in b, g[v][w][d + 1][TRUE]
      PROVE  f[v][d + 1] = f[w][d + 1]
  <2>1. Grouped(n - 1) /\ d + 1 \in Nat
    BY <1>5
  <2> QED
    BY <1>5, <2>1, Zenon DEF Grouped
<1> HIDE DEF x, y, f, g, b
<1>6. CASE In(t) /\ In(u) /\ deep
  BY <1>2, <1>3, <1>6
<1>7. ASSUME ~(In(t) /\ In(u) /\ deep)
      PROVE  /\ t.kind = u.kind
             /\ t.kind = "object" => \A k \in Shape!Keys : g[t.fields[k]][u.fields[k]][d + 1][TRUE]
             /\ t.kind = "array" =>
                    /\ \A i \in DOMAIN t.items : \E j \in DOMAIN u.items : g[t.items[i]][u.items[j]][d + 1][TRUE]
                    /\ \A j \in DOMAIN u.items : \E i \in DOMAIN t.items : g[t.items[i]][u.items[j]][d + 1][TRUE]
  BY <1>1, <1>7 DEF Alike, Shape!Kind
<1>8. CASE Atomic(t) /\ Atomic(u)
  <2>1. t.kind = u.kind
    BY <1>7, <1>8
  <2>2. t.kind \in {"missing", "null", "scalar"}
    BY <1>8
  <2>3. Shape!AtomSignature(t) = Shape!AtomSignature(u)
    BY <2>1, <2>2, AtomKinds
  <2> QED
    BY <1>2, <1>3, <1>8, <2>3
<1>9. CASE Atomic(t) # Atomic(u)
  <2>1. t.kind = u.kind
    BY <1>7, <1>9
  <2> QED
    BY <1>4, <1>9, <2>1
<1>10. CASE ~deep /\ ((Obj(t) /\ Arr(u)) \/ (Arr(t) /\ Obj(u)))
  BY <1>7, <1>10
<1>11. CASE ~deep /\ Obj(t) /\ Obj(u)
  <2> DEFINE p == [k \in Shape!Keys |-> f[t.fields[k]][d + 1]]
             q == [k \in Shape!Keys |-> f[u.fields[k]][d + 1]]
  <2>1. x = Shape!objectSignature(p) /\ y = Shape!objectSignature(q)
    BY <1>2, <1>3, <1>11
  <2>2. \A k \in Shape!Keys : g[t.fields[k]][u.fields[k]][d + 1][TRUE]
    BY <1>7, <1>11
  <2>3. \A k \in Shape!Keys : f[t.fields[k]][d + 1] = f[u.fields[k]][d + 1]
    BY <1>5, <1>11, <2>2
  <2>4. p = q
    BY <2>3
  <2> HIDE DEF p, q
  <2> QED
    BY <2>1, <2>4
<1>12. CASE ~deep /\ Arr(t) /\ Arr(u)
  <2> DEFINE p == [i \in DOMAIN t.items |-> f[t.items[i]][d + 1]]
             q == [i \in DOMAIN u.items |-> f[u.items[i]][d + 1]]
  <2>1. x = Shape!arraySignature(p) /\ y = Shape!arraySignature(q)
    BY <1>2, <1>3, <1>12
  <2>2. /\ \A i \in DOMAIN t.items : \E j \in DOMAIN u.items : g[t.items[i]][u.items[j]][d + 1][TRUE]
        /\ \A j \in DOMAIN u.items : \E i \in DOMAIN t.items : g[t.items[i]][u.items[j]][d + 1][TRUE]
    BY <1>7, <1>12
  <2>3. ASSUME NEW i \in DOMAIN t.items, NEW j \in DOMAIN u.items, g[t.items[i]][u.items[j]][d + 1][TRUE]
        PROVE  p[i] = q[j]
    BY <1>5, <1>12, <2>3
  <2>4. DOMAIN p = DOMAIN t.items /\ DOMAIN q = DOMAIN u.items
    OBVIOUS
  <2> HIDE DEF p, q
  <2>5. /\ \A i \in DOMAIN p : \E j \in DOMAIN q : p[i] = q[j]
        /\ \A j \in DOMAIN q : \E i \in DOMAIN p : p[i] = q[j]
    BY <2>2, <2>3, <2>4, Zenon
  <2>6. {p[i] : i \in DOMAIN p} = {q[i] : i \in DOMAIN q}
    BY <2>5
  <2> QED
    BY <2>1, <2>6, ArraySet
<1>13. (Obj(t) \/ Arr(t) => In(t)) /\ (Obj(u) \/ Arr(u) => In(u))
  BY Zenon
<1> HIDE DEF Atomic, Obj, Arr, In, deep
<1> QED
  BY <1>4, <1>6, <1>8, <1>9, <1>10, <1>11, <1>12, <1>13, Zenon

LEMMA AllGrouped == \A n \in Nat : Grouped(n)
<1> DEFINE T == {n \in Nat : ~Grouped(n)}
<1> SUFFICES ASSUME T # {} PROVE FALSE
  OBVIOUS
<1>1. PICK n \in T : \A k \in T : n =< k
  <2>1. T \subseteq Nat
    OBVIOUS
  <2> HIDE DEF T
  <2> QED
    BY <2>1, LeastElement
<1>2. n # 0 => Grouped(n - 1)
  <2> SUFFICES ASSUME n # 0 PROVE Grouped(n - 1)
    OBVIOUS
  <2>1. n - 1 \in Nat /\ n - 1 \notin T
    BY <1>1
  <2> QED
    BY <2>1
<1> QED
  BY <1>1, <1>2, GroupedAbove

\* No level takes a body away.
LEMMA Higher ==
    ASSUME NEW n \in Nat, NEW m \in Nat, n =< m
    PROVE  Shape!Bodies[n] \subseteq Shape!Bodies[m]
<1>1. ASSUME NEW k \in Nat PROVE Shape!Bodies[k] \subseteq Shape!Bodies[k + 1]
  <2> DEFINE T == {i \in Nat : ~(Shape!Bodies[i] \subseteq Shape!Bodies[i + 1])}
  <2> SUFFICES ASSUME T # {} PROVE FALSE
    OBVIOUS
  <2>1. PICK i \in T : \A j \in T : i =< j
    <3>1. T \subseteq Nat
      OBVIOUS
    <3> HIDE DEF T
    <3> QED
      BY <3>1, LeastElement
  <2>2. CASE i = 0
    <3>1. Shape!Bodies[0] \subseteq Shape!Around(Shape!Bodies[0])
      BY Levels DEF Shape!Around
    <3> QED
      BY <2>1, <2>2, <3>1, Levels
  <2>3. CASE i # 0
    <3>1. i - 1 \in Nat /\ i - 1 \notin T /\ (i - 1) + 1 = i
      BY <2>1, <2>3
    <3>2. Shape!Bodies[i - 1] \subseteq Shape!Bodies[i]
      BY <3>1
    <3>3. ASSUME NEW c, NEW e, c \subseteq e PROVE Shape!Around(c) \subseteq Shape!Around(e)
      <4>1. [Shape!Keys -> c \cup {Shape!Missing}] \subseteq [Shape!Keys -> e \cup {Shape!Missing}]
        BY <3>3
      <4>2. Seq(c) \subseteq Seq(e)
        BY <3>3
      <4> QED
        BY <4>1, <4>2 DEF Shape!Around
    <3>4. Shape!Bodies[i] = Shape!Around(Shape!Bodies[i - 1]) /\ Shape!Bodies[i + 1] = Shape!Around(Shape!Bodies[i])
      BY <3>1, Levels
    <3> QED
      BY <2>1, <3>2, <3>3, <3>4
  <2> QED
    BY <2>2, <2>3
<1> DEFINE U == {i \in Nat : n =< i /\ ~(Shape!Bodies[n] \subseteq Shape!Bodies[i])}
<1>2. SUFFICES ASSUME U # {} PROVE FALSE
  OBVIOUS
<1>3. PICK i \in U : \A j \in U : i =< j
  <2>1. U \subseteq Nat
    OBVIOUS
  <2> HIDE DEF U
  <2> QED
    BY <1>2, <2>1, LeastElement
<1>4. i # n
  BY <1>3
<1>5. i - 1 \in Nat /\ i - 1 \notin U /\ (i - 1) + 1 = i /\ n =< i - 1
  BY <1>3, <1>4
<1> QED
  BY <1>1, <1>3, <1>5

\* What surrounds a body has one level more.
LEMMA Surrounded ==
    ASSUME NEW n \in Nat
    PROVE  /\ \A f \in [Shape!Keys -> Shape!Bodies[n] \cup {Shape!Missing}] : Shape!Object(f) \in Shape!Bodies[n + 1]
           /\ \A s \in Seq(Shape!Bodies[n]) : Shape!Array(s) \in Shape!Bodies[n + 1]
<1> DEFINE b == Shape!Bodies[n]
<1>1. Shape!Bodies[n + 1] = Shape!Around(b)
  BY Levels
<1> HIDE DEF b
<1>2. \A f \in [Shape!Keys -> b \cup {Shape!Missing}] : Shape!Object(f) \in Shape!Around(b)
  BY DEF Shape!Object, Shape!Around
<1>3. \A s \in Seq(b) : Shape!Array(s) \in Shape!Around(b)
  BY DEF Shape!Array, Shape!Around
<1> QED
  BY <1>1, <1>2, <1>3 DEF b

\* The bodies to begin with and the siblings are bodies of one level.
LEMMA SmallBodies == Shape!Leaf \subseteq Shape!Bodies[1] /\ Shape!Sibling \subseteq Shape!Bodies[1]
<1> DEFINE a == Shape!Atom
<1>1. Shape!Bodies[0] = a /\ Shape!Bodies[1] = Shape!Around(a) /\ a \subseteq Shape!Around(a)
  <2>1. Shape!Bodies[0 + 1] = Shape!Around(Shape!Bodies[0]) /\ Shape!Bodies[0] = a
    BY Levels
  <2> QED
    BY <2>1 DEF Shape!Around
<1>2. /\ \A f \in [Shape!Keys -> a \cup {Shape!Missing}] : Shape!Object(f) \in Shape!Bodies[1]
      /\ \A s \in Seq(a) : Shape!Array(s) \in Shape!Bodies[1]
  <2>1. 0 + 1 = 1 /\ 0 \in Nat
    OBVIOUS
  <2> QED
    BY <1>1, <2>1, Surrounded, Zenon
<1>3. Shape!Null \in a
  BY DEF Shape!Atom
<1> HIDE DEF a
<1>4. \A m \in 0 .. 2 : [1 .. m -> a] \subseteq Seq(a)
  OBVIOUS
<1>5. Shape!Leaf \subseteq Shape!Bodies[1]
  <2>1. UNION {[1 .. m -> a] : m \in 0 .. 2} \subseteq Seq(a)
    BY <1>4
  <2> DEFINE lacking == {g \in [Shape!Keys -> a \cup {Shape!Missing}] : \E k \in Shape!Keys : g[k] = Shape!Missing}
  <2>2. Shape!Leaf = (a \cup {Shape!Object(f) : f \in lacking})
                         \cup {Shape!Array(s) : s \in UNION {[1 .. m -> a] : m \in 0 .. 2}}
    BY Zenon DEF Shape!Leaf, a
  <2>3. lacking \subseteq [Shape!Keys -> a \cup {Shape!Missing}]
    OBVIOUS
  <2> HIDE DEF lacking
  <2> QED
    BY <1>1, <1>2, <2>1, <2>2, <2>3
<1>6. Shape!Sibling \subseteq Shape!Bodies[1]
  <2>1. Shape!Array(<<>>) \in Shape!Bodies[1]
    BY <1>2, EmptySeq
  <2>2. Shape!Null \in Shape!Bodies[1]
    BY <1>1, <1>3
  <2> QED
    BY <2>1, <2>2 DEF Shape!Sibling
<1> QED
  BY <1>5, <1>6

\* Both bodies are as deep as their surroundings.
ShapeInv ==
    /\ wraps \in 0 .. MaxWraps
    /\ first \in Shape!Bodies[wraps + 1] /\ second \in Shape!Bodies[wraps + 1]

LEMMA ShapeStep == ASSUME Shape!ShapeAssumption, ShapeInv, Shape!Next PROVE ShapeInv'
<1> DEFINE n == wraps + 1
           b == Shape!Bodies[n]
           a == Shape!Bodies[n + 1]
<1>1. n \in Nat /\ n >= 1 /\ first \in b /\ second \in b
  BY DEF ShapeInv, Shape!ShapeAssumption
<1>2. Shape!Sibling \subseteq b
  BY <1>1, SmallBodies, Higher
<1> SUFFICES wraps < MaxWraps /\ wraps' = wraps + 1 /\ first' \in a /\ second' \in a
  BY DEF ShapeInv, Shape!ShapeAssumption
<1>3. /\ \A f \in [Shape!Keys -> b \cup {Shape!Missing}] : Shape!Object(f) \in a
      /\ \A s \in Seq(b) : Shape!Array(s) \in a
  BY <1>1, Surrounded, Zenon
<1> HIDE DEF b, a, n
<1>4. ASSUME NEW k \in Shape!Keys, NEW s \in b \cup {Shape!Missing}, NEW t \in b
      PROVE  Shape!Object([j \in Shape!Keys |-> IF j = k THEN t ELSE s]) \in a
  <2>1. [j \in Shape!Keys |-> IF j = k THEN t ELSE s] \in [Shape!Keys -> b \cup {Shape!Missing}]
    OBVIOUS
  <2> QED
    BY <1>3, <2>1, Zenon
<1>5. ASSUME NEW s \in b, NEW t \in b
      PROVE  Shape!Array(<<s, t>>) \in a /\ Shape!Array(<<t, s, t>>) \in a
  <2>1. <<s, t>> \in Seq(b) /\ <<t, s, t>> \in Seq(b)
    OBVIOUS
  <2> QED
    BY <1>3, <2>1, Zenon
<1>6. ASSUME NEW k \in Shape!Keys, NEW s \in Shape!Sibling, Shape!InObject(k, s)
      PROVE  wraps < MaxWraps /\ wraps' = wraps + 1 /\ first' \in a /\ second' \in a
  BY <1>1, <1>2, <1>4, <1>6 DEF Shape!InObject, Shape!Wrap
<1>7. ASSUME NEW k \in Shape!Keys, Shape!OnlyField(k)
      PROVE  wraps < MaxWraps /\ wraps' = wraps + 1 /\ first' \in a /\ second' \in a
  BY <1>1, <1>4, <1>7 DEF Shape!OnlyField, Shape!Wrap
<1>8. ASSUME NEW s \in Shape!Sibling, Shape!InArray(s)
      PROVE  wraps < MaxWraps /\ wraps' = wraps + 1 /\ first' \in a /\ second' \in a
  BY <1>1, <1>2, <1>5, <1>8 DEF Shape!InArray, Shape!Wrap
<1> QED
  BY <1>6, <1>7, <1>8 DEF Shape!Next

\* Only a null is of the kind of a null.
LEMMA OnlyNull ==
    ASSUME NEW n \in Nat, NEW t \in Shape!Bodies[n], t.kind = "null"
    PROVE  t = Shape!Null
<1>1. t \in Shape!Atom
  <2>1. ~Shape!Container(t)
    BY DEF Shape!Container
  <2>2. CASE n = 0
    BY <2>2, Levels
  <2>3. CASE n # 0
    <3>1. n - 1 \in Nat /\ (n - 1) + 1 = n
      BY <2>3
    <3>2. t \in Shape!Around(Shape!Bodies[n - 1])
      BY <3>1, Levels
    <3> DEFINE b == Shape!Bodies[n - 1]
    <3> HIDE DEF b
    <3>3. t \notin [kind : {"object"}, fields : [Shape!Keys -> b \cup {Shape!Missing}]]
      OBVIOUS
    <3>4. t \notin [kind : {"array"}, items : Seq(b)]
      OBVIOUS
    <3>5. t \in Shape!Around(b)
      BY <3>2 DEF b
    <3> QED
      BY <3>3, <3>4, <3>5 DEF Shape!Around
  <2> QED
    BY <2>2, <2>3
<1> QED
  BY <1>1 DEF Shape!Atom, Shape!Scalar, Shape!Null

\* A shape has one hash: whatever two bodies at one place are, as deep as their
\* surroundings may be, and whatever keys they have, bodyStructureHash gives them the
\* same when they have one shape up to the depth limit (structureSignatureValue,
\* objectSignature, arraySignature).
THEOREM ShapeHash == Spec => []OneShapeOneHash
<1>1. Init => (subject = "signature" => ShapeInv)
  <2> SUFFICES ASSUME Init, subject = "signature" PROVE ShapeInv
    OBVIOUS
  <2>1. first \in Shape!Leaf /\ second \in Shape!Leaf /\ wraps = 0
    BY DEF Init, Shape!Init
  <2>2. Shape!ShapeAssumption
    BY InputAssumption
  <2> QED
    BY <2>1, <2>2, SmallBodies DEF ShapeInv, Shape!ShapeAssumption
<1>2. (subject = "signature" => ShapeInv) /\ [Next]_vars => (subject = "signature" => ShapeInv)'
  <2> SUFFICES ASSUME subject = "signature" => ShapeInv, [Next]_vars, subject' = "signature" PROVE ShapeInv'
    OBVIOUS
  <2>1. ShapeInv /\ (Shape!Next \/ UNCHANGED Shape!vars) /\ Shape!ShapeAssumption
    BY Turns, InputAssumption
  <2>2. CASE UNCHANGED Shape!vars
    BY <2>1, <2>2 DEF Shape!vars, ShapeInv
  <2> QED
    BY <2>1, <2>2, ShapeStep
<1>3. (subject = "signature" => ShapeInv) => OneShapeOneHash
  <2> DEFINE n == MaxWraps + 1
             b == Shape!Bodies[n]
             s == Shape!structureSignatureValue[n]
             e == Shape!SameShape[n][first][second][0][TRUE]
  <2> SUFFICES ASSUME ShapeInv, e PROVE Shape!bodyStructureHash(first) = Shape!bodyStructureHash(second)
    BY DEF OneShapeOneHash, Shape!OneShapeOneHash
  <2>1. n \in Nat /\ 0 \in Nat
    BY InputAssumption DEF Shape!ShapeAssumption
  <2>2. first \in b /\ second \in b
    BY <2>1, Higher, InputAssumption DEF ShapeInv, Shape!ShapeAssumption
  <2>3. s[first][0] = s[second][0]
    <3>1. first \in b \cup {Shape!Missing} /\ second \in b \cup {Shape!Missing}
      BY <2>2
    <3> QED
      BY <2>1, <3>1, AllGrouped, Zenon DEF Grouped
  <2>4. first.kind = second.kind \/ (Shape!Container(first) /\ Shape!Container(second))
    <3>1. Alike(Shape!SameShape[n - 1], first, second, 0, TRUE)
      <4>1. first \in b \cup {Shape!Missing} /\ second \in b \cup {Shape!Missing} /\ e
        BY <2>2
      <4> QED
        BY <2>1, <4>1, ShapeValue
    <3> QED
      BY <3>1 DEF Alike, Shape!Kind
  <2>5. /\ first.kind = "null" <=> first = Shape!Null
        /\ second.kind = "null" <=> second = Shape!Null
    BY <2>1, <2>2, OnlyNull DEF Shape!Null
  <2>6. first = Shape!Null <=> second = Shape!Null
    BY <2>4, <2>5 DEF Shape!Container
  <2>7. Shape!structureSignature(first) = Shape!structureSignature(second)
    BY <2>3, Zenon DEF Shape!structureSignature
  <2> QED
    BY <2>6, <2>7, Zenon DEF Shape!bodyStructureHash
<1> QED
  BY <1>1, <1>2, <1>3, PTL DEF Spec

----------------------------------------------------------------------------
(* Bodies.  Meaning goes level by level, decodeXMLElement token by token.   *)
(* The calls on the stack are those of the open elements, each with what   *)
(* its children so far amount to: FrameOf.                                 *)

\* What the definitions of Elements and Meaning say of them.
LEMMA ElementLevels ==
    \A n \in Nat :
        /\ Body!Elements[0] = {}
        /\ Body!Elements[n + 1] = Body!ElementsOver(Body!Elements[n])
        /\ Body!Meaning[n + 1] = Tells(Body!Elements[n + 1], Body!Meaning[n])
<1> DEFINE B(b) == [n \in Nat |-> IF n = 0 THEN {} ELSE Body!ElementsOver(b[n - 1])]
           S(f) == [n \in Nat |-> Tells(Body!Elements[n], f[n - 1])]
<1>1. PICK F : F[0] = Ground /\ \A n \in Nat : F[n + 1] = Up(F[n])
  BY AllLevels
<1>2. ASSUME NEW n \in Nat, n # 0 PROVE n - 1 \in Nat /\ F[n] = Up(F[n - 1])
  <2>1. n - 1 \in Nat /\ (n - 1) + 1 = n
    BY <1>2
  <2> QED
    BY <1>1, <2>1
<1> DEFINE b == [n \in Nat |-> F[n].elements]
           s == [n \in Nat |-> F[n].meaning]
<1>3. b = B(b)
  <2>1. ASSUME NEW n \in Nat PROVE b[n] = IF n = 0 THEN {} ELSE Body!ElementsOver(b[n - 1])
    <3>1. n = 0 => F[n].elements = {}
      BY <1>1 DEF Ground
    <3>2. ASSUME n # 0 PROVE n - 1 \in Nat /\ F[n].elements = Body!ElementsOver(F[n - 1].elements)
      <4>1. n - 1 \in Nat /\ F[n] = Up(F[n - 1])
        BY <1>2, <3>2
      <4> QED
        BY <4>1 DEF Up
    <3> QED
      BY <3>1, <3>2
  <2> QED
    BY <2>1
<1>4. Body!Elements = B(Body!Elements)
  <2> HIDE DEF b
  <2> QED
    BY <1>3, Zenon DEF Body!Elements, B
<1>5. Body!Elements[0] = {} /\ \A n \in Nat : Body!Elements[n + 1] = Body!ElementsOver(Body!Elements[n])
  <2>1. \A n \in Nat : Body!Elements[n] = IF n = 0 THEN {} ELSE Body!ElementsOver(Body!Elements[n - 1])
    BY <1>4, Zenon DEF B
  <2>2. ASSUME NEW n \in Nat PROVE Body!Elements[n + 1] = Body!ElementsOver(Body!Elements[n])
    <3>1. n + 1 \in Nat /\ n + 1 # 0 /\ (n + 1) - 1 = n
      OBVIOUS
    <3> QED
      BY <2>1, <3>1
  <2> QED
    BY <2>1, <2>2
<1>6. ASSUME NEW n \in Nat PROVE F[n].elements = Body!Elements[n]
  <2> DEFINE T == {k \in Nat : F[k].elements # Body!Elements[k]}
  <2> SUFFICES ASSUME T # {} PROVE FALSE
    OBVIOUS
  <2>1. PICK k \in T : \A j \in T : k =< j
    <3>1. T \subseteq Nat
      OBVIOUS
    <3> HIDE DEF T
    <3> QED
      BY <3>1, LeastElement
  <2>2. CASE k = 0
    <3>1. F[0].elements = {}
      BY <1>1 DEF Ground
    <3> QED
      BY <1>5, <2>1, <2>2, <3>1
  <2>3. CASE k # 0
    <3>1. k - 1 \in Nat /\ k - 1 \notin T /\ (k - 1) + 1 = k
      BY <2>1, <2>3
    <3>2. F[k] = Up(F[k - 1]) /\ F[k - 1].elements = Body!Elements[k - 1]
      BY <1>2, <2>1, <2>3, <3>1
    <3>3. Body!Elements[k] = Body!ElementsOver(Body!Elements[k - 1])
      BY <1>5, <3>1
    <3> QED
      BY <2>1, <3>2, <3>3 DEF Up
  <2> QED
    BY <2>2, <2>3
<1>7. ASSUME NEW n \in Nat PROVE s[n] = Tells(Body!Elements[n], s[n - 1])
  <2>1. CASE n = 0
    <3>1. s[n] = Tells({}, <<>>)
      BY <1>1, <2>1 DEF Ground
    <3>2. \A x, y : Tells({}, x) = Tells({}, y)
      BY DEF Tells
    <3> HIDE DEF s
    <3> QED
      BY <1>5, <2>1, <3>1, <3>2
  <2>2. CASE n # 0
    <3>1. n - 1 \in Nat /\ F[n] = Up(F[n - 1])
      BY <1>2, <2>2
    <3>2. F[n].elements = Body!ElementsOver(F[n - 1].elements)
      BY <3>1 DEF Up
    <3>3. s[n] = Tells(F[n].elements, s[n - 1])
      BY <3>1, <3>2 DEF Up
    <3> QED
      BY <1>6, <3>3
  <2> QED
    BY <2>1, <2>2
<1>8. s = S(s)
  BY <1>7
<1> HIDE DEF s
<1>9. Body!Meaning = S(Body!Meaning)
  <2>1. Body!Meaning = CHOOSE f : f = S(f)
    BY Zenon DEF Body!Meaning, Tells
  <2> HIDE DEF S
  <2> QED
    BY <1>8, <2>1, Zenon
<1>10. ASSUME NEW n \in Nat PROVE Body!Meaning[n + 1] = Tells(Body!Elements[n + 1], Body!Meaning[n])
  <2>1. n + 1 \in Nat /\ (n + 1) - 1 = n
    OBVIOUS
  <2>2. Body!Meaning[n + 1] = Tells(Body!Elements[n + 1], Body!Meaning[(n + 1) - 1])
    BY <1>9, <2>1, Zenon DEF S
  <2> QED
    BY <2>1, <2>2
<1> QED
  BY <1>5, <1>10

\* t[n] are those of the first n children of s that are shown under k.
Takes(s, k, t) ==
    t = [n \in 0 .. Len(s) |->
            IF n = 0 THEN <<>>
            ELSE IF Body!KeyOf(s[n]) = k THEN Append(t[n - 1], s[n]) ELSE t[n - 1]]

\* What is under k among the first n.
Taken(s, k, n, x) ==
    /\ \A i \in DOMAIN x : Body!KeyOf(x[i]) = k
    /\ x = <<>> <=> \A i \in 1 .. n : Body!KeyOf(s[i]) # k

LEMMA TakesExists ==
    ASSUME NEW C, NEW s \in Seq(C), NEW k
    PROVE  \E t \in [0 .. Len(s) -> Seq(C)] : Takes(s, k, t)
<1> DEFINE none == <<>>
           S == Seq(C)
           g == [n \in Nat |-> [x \in S |->
                    IF n < Len(s) /\ Body!KeyOf(s[n + 1]) = k THEN Append(x, s[n + 1]) ELSE x]]
<1>1. Len(s) \in Nat /\ \A n \in 1 .. Len(s) : s[n] \in C
  BY LenProperties, ElementOfSeq
<1>2. ASSUME NEW n \in Nat, NEW x \in S
      PROVE  (IF n < Len(s) /\ Body!KeyOf(s[n + 1]) = k THEN Append(x, s[n + 1]) ELSE x) \in S
  <2>1. CASE n < Len(s) /\ Body!KeyOf(s[n + 1]) = k
    <3>1. s[n + 1] \in C
      BY <1>1, <2>1
    <3>2. Append(x, s[n + 1]) \in S
      BY <3>1, AppendProperties
    <3> QED
      BY <2>1, <3>2
  <2>2. CASE ~(n < Len(s) /\ Body!KeyOf(s[n + 1]) = k)
    BY <2>2
  <2> QED
    BY <2>1, <2>2
<1>3. none \in S
  BY EmptySeq
<1>4. g \in [Nat -> [S -> S]]
  <2> HIDE DEF S
  <2> QED
    BY <1>2
<1>5. PICK F \in [Nat -> S] : Unfolds(F, none, g)
  <2> HIDE DEF S, g, none
  <2> QED
    BY <1>3, <1>4, Recursion
<1>6. ASSUME NEW n \in Nat, n # 0, n =< Len(s)
      PROVE  F[n] = IF Body!KeyOf(s[n]) = k THEN Append(F[n - 1], s[n]) ELSE F[n - 1]
  <2>1. n - 1 \in Nat /\ (n - 1) + 1 = n /\ n - 1 < Len(s)
    BY <1>1, <1>6
  <2>2. F[n] = g[n - 1][F[n - 1]] /\ F[n - 1] \in S
    <3> HIDE DEF g, S
    <3> QED
      BY <1>5, <2>1 DEF Unfolds
  <2> HIDE DEF S
  <2> QED
    BY <2>1, <2>2
<1>7. F[0] = <<>>
  BY <1>5 DEF Unfolds
<1> DEFINE t == [n \in 0 .. Len(s) |-> F[n]]
<1>8. Takes(s, k, t)
  <2>1. ASSUME NEW n \in 0 .. Len(s)
        PROVE  t[n] = IF n = 0 THEN <<>>
                      ELSE IF Body!KeyOf(s[n]) = k THEN Append(t[n - 1], s[n]) ELSE t[n - 1]
    <3>1. n \in Nat /\ n =< Len(s) /\ (n # 0 => n - 1 \in 0 .. Len(s))
      BY <1>1
    <3> QED
      BY <1>6, <1>7, <3>1
  <2>2. t = [n \in 0 .. Len(s) |-> t[n]]
    OBVIOUS
  <2> HIDE DEF t
  <2> QED
    BY <2>1, <2>2 DEF Takes
<1>9. t \in [0 .. Len(s) -> Seq(C)]
  BY <1>1, <1>5
<1> QED
  BY <1>8, <1>9

LEMMA TakesUnique ==
    ASSUME NEW C, NEW s \in Seq(C), NEW k, NEW t, NEW u, Takes(s, k, t), Takes(s, k, u)
    PROVE  t = u
<1> DEFINE T == {n \in 0 .. Len(s) : t[n] # u[n]}
<1>1. Len(s) \in Nat
  BY LenProperties
<1>2. SUFFICES ASSUME T # {} PROVE FALSE
  BY DEF Takes
<1>3. PICK n \in T : \A m \in T : n =< m
  <2>1. T \subseteq Nat
    BY <1>1
  <2> HIDE DEF T
  <2> QED
    BY <1>2, <2>1, LeastElement
<1>4. n \in 0 .. Len(s) /\ t[n] # u[n]
  BY <1>3
<1>5. n # 0 => n - 1 \in 0 .. Len(s) /\ t[n - 1] = u[n - 1]
  BY <1>1, <1>3
<1>6. /\ t[n] = IF n = 0 THEN <<>> ELSE IF Body!KeyOf(s[n]) = k THEN Append(t[n - 1], s[n]) ELSE t[n - 1]
      /\ u[n] = IF n = 0 THEN <<>> ELSE IF Body!KeyOf(s[n]) = k THEN Append(u[n - 1], s[n]) ELSE u[n - 1]
  BY <1>4, Zenon DEF Takes
<1> HIDE DEF T
<1> QED
  BY <1>4, <1>5, <1>6

LEMMA UnderIs ==
    ASSUME NEW C, NEW s \in Seq(C), NEW k, NEW t, Takes(s, k, t)
    PROVE  Body!Under(s, k) = t[Len(s)]
<1> DEFINE E(f) == [n \in 0 .. Len(s) |->
                       IF n = 0 THEN <<>>
                       ELSE IF Body!KeyOf(s[n]) = k THEN Append(f[n - 1], s[n]) ELSE f[n - 1]]
           c == CHOOSE f : f = E(f)
<1>1. t = E(t)
  BY Zenon DEF Takes
<1>2. c = E(c)
  <2> HIDE DEF E
  <2> QED
    BY <1>1, Zenon
<1>3. Body!Under(s, k) = c[Len(s)]
  BY DEF Body!Under
<1>4. Takes(s, k, c)
  <2> HIDE DEF c
  <2> QED
    BY <1>2, Zenon DEF Takes, E
<1>5. c = t
  <2> HIDE DEF c
  <2> QED
    BY <1>4, TakesUnique
<1> HIDE DEF c
<1> QED
  BY <1>3, <1>5

\* What is under a key is children of this key, and nothing only if there are none.
LEMMA UnderIn ==
    ASSUME NEW C, NEW s \in Seq(C), NEW k
    PROVE  Body!Under(s, k) \in Seq(C) /\ Taken(s, k, Len(s), Body!Under(s, k))
<1>1. PICK t \in [0 .. Len(s) -> Seq(C)] : Takes(s, k, t)
  BY TakesExists
<1>2. Len(s) \in Nat /\ \A n \in 1 .. Len(s) : s[n] \in C
  BY LenProperties, ElementOfSeq
<1> DEFINE T == {n \in 0 .. Len(s) : ~Taken(s, k, n, t[n])}
<1>3. T = {}
  <2> SUFFICES ASSUME T # {} PROVE FALSE
    OBVIOUS
  <2>1. PICK n \in T : \A m \in T : n =< m
    <3>1. T \subseteq Nat
      BY <1>2
    <3> HIDE DEF T
    <3> QED
      BY <3>1, LeastElement
  <2>2. n \in 0 .. Len(s) /\ ~Taken(s, k, n, t[n])
    BY <2>1
  <2>3. n # 0 => n - 1 \in 0 .. Len(s) /\ Taken(s, k, n - 1, t[n - 1])
    BY <1>2, <2>1
  <2>4. t[n] = IF n = 0 THEN <<>> ELSE IF Body!KeyOf(s[n]) = k THEN Append(t[n - 1], s[n]) ELSE t[n - 1]
    BY <1>1, <2>2, Zenon DEF Takes
  <2> HIDE DEF T
  <2>5. CASE n = 0
    BY <2>2, <2>4, <2>5 DEF Taken
  <2>6. CASE n # 0 /\ Body!KeyOf(s[n]) # k
    <3>1. t[n] = t[n - 1]
      BY <2>4, <2>6
    <3>2. (\A i \in 1 .. n : Body!KeyOf(s[i]) # k) <=> (\A i \in 1 .. n - 1 : Body!KeyOf(s[i]) # k)
      BY <1>2, <2>2, <2>6
    <3> QED
      BY <2>2, <2>3, <2>6, <3>1, <3>2 DEF Taken
  <2>7. CASE n # 0 /\ Body!KeyOf(s[n]) = k
    <3> DEFINE x == t[n - 1]
               y == Append(x, s[n])
    <3>1. x \in Seq(C) /\ s[n] \in C /\ n \in 1 .. n
      BY <1>1, <1>2, <2>2, <2>3, <2>7
    <3>2. t[n] = y
      BY <2>4, <2>7
    <3>3. /\ Len(x) \in Nat /\ Len(y) = Len(x) + 1 /\ DOMAIN y = 1 .. Len(x) + 1 /\ DOMAIN x = 1 .. Len(x)
          /\ y[Len(x) + 1] = s[n] /\ \A i \in 1 .. Len(x) : y[i] = x[i]
      BY <3>1, AppendProperties, LenProperties
    <3>4. \A i \in DOMAIN x : Body!KeyOf(x[i]) = k
      BY <2>3, <2>7 DEF Taken
    <3> HIDE DEF x, y
    <3>5. ASSUME NEW i \in DOMAIN y PROVE Body!KeyOf(y[i]) = k
      BY <2>7, <3>3, <3>4
    <3>6. y # <<>>
      BY <3>3
    <3>7. ~\A i \in 1 .. n : Body!KeyOf(s[i]) # k
      BY <2>7, <3>1
    <3> QED
      BY <2>2, <3>2, <3>5, <3>6, <3>7 DEF Taken
  <2> QED
    BY <2>5, <2>6, <2>7
<1>4. Body!Under(s, k) = t[Len(s)]
  BY <1>1, UnderIs
<1>5. Len(s) \in 0 .. Len(s)
  BY <1>2
<1> QED
  BY <1>1, <1>3, <1>4, <1>5

LEMMA UnderNone == ASSUME NEW k PROVE Body!Under(<<>>, k) = <<>>
<1> DEFINE none == <<>>
<1>1. none \in Seq({}) /\ Len(none) = 0
  BY EmptySeq
<1>2. Taken(none, k, 0, Body!Under(none, k))
  <2> HIDE DEF none
  <2> QED
    BY <1>1, UnderIn
<1> QED
  BY <1>2 DEF Taken

\* One more child is under its key, behind the others.
LEMMA UnderAppend ==
    ASSUME NEW C, NEW s \in Seq(C), NEW c \in C, NEW k
    PROVE  Body!Under(Append(s, c), k) =
               IF Body!KeyOf(c) = k THEN Append(Body!Under(s, k), c) ELSE Body!Under(s, k)
<1> DEFINE a == Append(s, c)
<1>1. /\ Len(s) \in Nat /\ a \in Seq(C) /\ Len(a) = Len(s) + 1 /\ a[Len(s) + 1] = c
      /\ \A n \in 1 .. Len(s) : a[n] = s[n]
  BY AppendProperties, LenProperties
<1> HIDE DEF a
<1>2. PICK u \in [0 .. Len(a) -> Seq(C)] : Takes(a, k, u)
  BY <1>1, TakesExists
<1>3. \A n \in 0 .. Len(a) :
          u[n] = IF n = 0 THEN <<>> ELSE IF Body!KeyOf(a[n]) = k THEN Append(u[n - 1], a[n]) ELSE u[n - 1]
  BY <1>2, Zenon DEF Takes
<1> DEFINE t == [n \in 0 .. Len(s) |-> u[n]]
<1>4. Takes(s, k, t)
  <2>1. ASSUME NEW n \in 0 .. Len(s)
        PROVE  t[n] = IF n = 0 THEN <<>>
                      ELSE IF Body!KeyOf(s[n]) = k THEN Append(t[n - 1], s[n]) ELSE t[n - 1]
    <3>1. n \in 0 .. Len(a) /\ (n # 0 => n - 1 \in 0 .. Len(s) /\ n \in 1 .. Len(s))
      BY <1>1
    <3>2. n # 0 => a[n] = s[n] /\ t[n - 1] = u[n - 1]
      BY <1>1, <3>1
    <3>3. t[n] = u[n]
      OBVIOUS
    <3> HIDE DEF t
    <3> QED
      BY <1>3, <3>1, <3>2, <3>3
  <2>2. t = [n \in 0 .. Len(s) |-> t[n]]
    OBVIOUS
  <2> HIDE DEF t
  <2> QED
    BY <2>1, <2>2 DEF Takes
<1>5. Body!Under(a, k) = u[Len(s) + 1] /\ Body!Under(s, k) = t[Len(s)]
  <2> HIDE DEF t
  <2> QED
    BY <1>1, <1>2, <1>4, UnderIs
<1>6. t[Len(s)] = u[Len(s)]
  BY <1>1
<1>7. u[Len(s) + 1] = IF Body!KeyOf(c) = k THEN Append(u[Len(s)], c) ELSE u[Len(s)]
  <2>1. Len(s) + 1 \in 0 .. Len(a) /\ Len(s) + 1 # 0 /\ (Len(s) + 1) - 1 = Len(s)
    BY <1>1
  <2> QED
    BY <1>1, <1>3, <2>1
<1> HIDE DEF t
<1> QED
  BY <1>5, <1>6, <1>7 DEF a

\* The children of an element that are shown as fields, by their keys.
ChildKeys(e) ==
    {Body!KeyOf(e.children[i]) : i \in DOMAIN e.children} \ {Body!Nowhere, Body!TextKey}

\* What stands under a key: the meaning of one child, or the list of several.
Group(c, m) == IF Len(c) = 1 THEN m[c[1]] ELSE Body!List([i \in DOMAIN c |-> m[c[i]]])

Fields(e, m) ==
    [k \in DOMAIN Body!AttributeFields(e.attributes) \cup ChildKeys(e) |->
        IF k \in DOMAIN Body!AttributeFields(e.attributes) THEN Body!AttributeFields(e.attributes)[k]
        ELSE Group(Body!Under(e.children, k), m)]

Parts(e) ==
    [i \in DOMAIN Body!Under(e.children, Body!TextKey) |-> Body!Under(e.children, Body!TextKey)[i].text]

\* The call for an element with these children so far, m being their meanings.
FrameOf(e, m) == [name |-> e.name, text |-> Parts(e), fields |-> Fields(e, m)]

TextNode == [text : Text \cup {Blank}]

\* The keys of attributes, of children and of the text differ.
LEMMA KeysDiffer ==
    ASSUME NEW a
    PROVE  /\ Body!Nowhere \notin DOMAIN Body!AttributeFields(a)
           /\ Body!TextKey \notin DOMAIN Body!AttributeFields(a)
           /\ \A x : Body!Child(x) \notin DOMAIN Body!AttributeFields(a) \cup {Body!Nowhere, Body!TextKey}
           /\ Body!Nowhere # Body!TextKey
<1>1. \A x, y : Body!Attribute(x) # Body!Child(y)
  BY DEF Body!Attribute, Body!Child
<1>2. \A x : Body!Attribute(x) \notin {Body!Nowhere, Body!TextKey}
  BY DEF Body!Attribute, Body!Nowhere, Body!TextKey
<1>3. \A x : Body!Child(x) \notin {Body!Nowhere, Body!TextKey}
  BY DEF Body!Child, Body!Nowhere, Body!TextKey
<1>4. DOMAIN Body!AttributeFields(a) = {Body!Attribute(a[i].name) : i \in DOMAIN a}
  BY DEF Body!AttributeFields
<1>5. Body!Nowhere # Body!TextKey
  BY DEF Body!Nowhere, Body!TextKey
<1> QED
  BY <1>1, <1>2, <1>3, <1>4, <1>5

\* Elements and texts are told apart, at any level.
LEMMA ChildForms ==
    ASSUME NEW n \in Nat
    PROVE  /\ \A c \in Body!Elements[n] : ~Body!IsText(c) /\ Body!KeyOf(c) = Body!Child(c.name)
           /\ \A c \in TextNode : Body!IsText(c)
           /\ \A c \in TextNode : Body!KeyOf(c) = IF c.text = Blank THEN Body!Nowhere ELSE Body!TextKey
<1>1. ASSUME NEW c \in Body!Elements[n] PROVE ~Body!IsText(c)
  <2>1. CASE n = 0
    BY <1>1, <2>1, ElementLevels
  <2>2. CASE n # 0
    <3>1. n - 1 \in Nat /\ (n - 1) + 1 = n
      BY <2>2
    <3>2. Body!Elements[n] = Body!ElementsOver(Body!Elements[n - 1])
      BY <3>1, ElementLevels
    <3>3. DOMAIN c = {"name", "attributes", "children"}
      BY <1>1, <3>2 DEF Body!ElementsOver
    <3> QED
      BY <3>3 DEF Body!IsText
  <2> QED
    BY <2>1, <2>2
<1>2. \A c \in TextNode : Body!IsText(c)
  BY DEF TextNode, Body!IsText
<1> QED
  BY <1>1, <1>2 DEF Body!KeyOf

\* A function on nothing is empty.
LEMMA NoFields == ASSUME NEW f, f = [k \in DOMAIN f |-> f[k]] PROVE f = <<>> <=> DOMAIN f = {}
OBVIOUS

\* What an element becomes at its end tag is what the log should show of it.
LEMMA ElementShown ==
    ASSUME NEW C, NEW e, e.children \in Seq(C), NEW m
    PROVE  Body!Element(FrameOf(e, m)) = Body!Shown(e, m)
<1> DEFINE f == Body!AttributeFields(e.attributes)
           under(k) == Body!Under(e.children, k)
           found == {Body!KeyOf(e.children[i]) : i \in DOMAIN e.children}
           keys == DOMAIN f \cup (found \ {Body!Nowhere})
           words == Body!String(Parts(e))
           field(k) == IF k = Body!TextKey THEN words
                       ELSE IF k \in DOMAIN f THEN f[k] ELSE Group(under(k), m)
           F == Fields(e, m)
<1>1. Body!Shown(e, m) = IF keys = {Body!TextKey} THEN words ELSE Body!Object([k \in keys |-> field(k)])
  BY DEF Body!Shown, Parts, Group
<1>2. Body!Element(FrameOf(e, m)) =
          CASE F = <<>> /\ Parts(e) = <<>> -> Body!Object(<<>>)
            [] F = <<>> /\ Parts(e) # <<>> -> words
            [] OTHER -> Body!Object(IF Parts(e) = <<>> THEN F ELSE Body!With(F, Body!TextKey, words))
  BY DEF Body!Element, FrameOf
<1>3. /\ DOMAIN F = keys \ {Body!TextKey}
      /\ F = [k \in DOMAIN F |-> F[k]]
      /\ \A k \in DOMAIN F : F[k] = field(k)
  BY KeysDiffer DEF Fields, ChildKeys
<1>4. Parts(e) = <<>> <=> Body!TextKey \notin keys
  <2>1. Parts(e) = <<>> <=> under(Body!TextKey) = <<>>
    <3>1. under(Body!TextKey) \in Seq(C)
      BY UnderIn
    <3>2. under(Body!TextKey) = <<>> <=> DOMAIN under(Body!TextKey) = {}
      BY <3>1, LenProperties, EmptySeq
    <3> HIDE DEF under
    <3>3. DOMAIN Parts(e) = DOMAIN under(Body!TextKey) /\ Parts(e) = [k \in DOMAIN Parts(e) |-> Parts(e)[k]]
      BY DEF Parts, under
    <3> QED
      BY <3>2, <3>3, NoFields
  <2>2. under(Body!TextKey) = <<>> <=> \A i \in 1 .. Len(e.children) : Body!KeyOf(e.children[i]) # Body!TextKey
    BY UnderIn DEF Taken
  <2>3. DOMAIN e.children = 1 .. Len(e.children)
    BY LenProperties
  <2>4. Body!TextKey \in found <=> \E i \in 1 .. Len(e.children) : Body!KeyOf(e.children[i]) = Body!TextKey
    BY <2>3
  <2>5. Body!TextKey \notin DOMAIN f /\ Body!TextKey # Body!Nowhere
    BY KeysDiffer
  <2> HIDE DEF found, f, under
  <2> QED
    BY <2>1, <2>2, <2>4, <2>5
<1>5. F = <<>> <=> DOMAIN F = {}
  BY <1>3, NoFields
<1> DEFINE G == [k \in keys |-> field(k)]
<1>6. DOMAIN G = keys /\ \A k \in keys : G[k] = field(k)
  OBVIOUS
<1>7. G = [k \in DOMAIN G |-> G[k]]
  OBVIOUS
<1>8. field(Body!TextKey) = words
  OBVIOUS
<1> HIDE DEF F, field, words, keys, G
<1>9. CASE Parts(e) = <<>>
  <2>1. keys # {Body!TextKey} /\ DOMAIN F = keys
    BY <1>3, <1>4, <1>9
  <2>2. F = G
    BY <1>3, <1>6, <1>7, <2>1
  <2>3. Body!Element(FrameOf(e, m)) = Body!Object(F)
    BY <1>2, <1>9
  <2> QED
    BY <1>1, <2>1, <2>2, <2>3 DEF G
<1>10. CASE Parts(e) # <<>> /\ F = <<>>
  <2>1. keys = {Body!TextKey}
    BY <1>3, <1>4, <1>5, <1>10
  <2> QED
    BY <1>1, <1>2, <1>10, <2>1
<1>11. CASE Parts(e) # <<>> /\ F # <<>>
  <2>1. keys # {Body!TextKey} /\ keys = DOMAIN F \cup {Body!TextKey} /\ Body!TextKey \notin DOMAIN F
    BY <1>3, <1>4, <1>5, <1>11
  <2>2. Body!With(F, Body!TextKey, words) = G
    <3> DEFINE W == Body!With(F, Body!TextKey, words)
    <3>1. DOMAIN W = keys /\ W = [k \in DOMAIN W |-> W[k]] /\ \A k \in keys : W[k] = IF k = Body!TextKey THEN words ELSE F[k]
      BY <2>1 DEF Body!With
    <3> HIDE DEF W
    <3>2. \A k \in keys : W[k] = G[k]
      BY <1>3, <1>6, <1>8, <2>1, <3>1
    <3> QED
      BY <1>6, <1>7, <3>1, <3>2 DEF W
  <2>3. Body!Element(FrameOf(e, m)) = Body!Object(Body!With(F, Body!TextKey, words))
    BY <1>2, <1>11
  <2> QED
    BY <1>1, <2>1, <2>2, <2>3 DEF G
<1> QED
  BY <1>9, <1>10, <1>11

\* One more child under a key.
LEMMA GroupMore ==
    ASSUME NEW C, NEW u \in Seq(C), NEW x \in C, NEW m
    PROVE  /\ u = <<>> => Group(Append(u, x), m) = m[x]
           /\ Len(u) = 1 => Group(u, m) = m[u[1]] /\ u[1] \in C
                            /\ Group(Append(u, x), m) = Body!List(<<Group(u, m), m[x]>>)
           /\ u # <<>> /\ Len(u) # 1 =>
                  /\ Group(u, m).kind = "list"
                  /\ Group(Append(u, x), m) = Body!List(Append(Group(u, m).items, m[x]))
<1> DEFINE v == Append(u, x)
           items == [i \in DOMAIN u |-> m[u[i]]]
           more == [i \in DOMAIN v |-> m[v[i]]]
           S == {m[c] : c \in C}
<1>1. /\ Len(u) \in Nat /\ DOMAIN u = 1 .. Len(u) /\ Len(v) = Len(u) + 1 /\ DOMAIN v = 1 .. Len(u) + 1
      /\ v[Len(u) + 1] = x /\ \A i \in 1 .. Len(u) : v[i] = u[i] /\ u[i] \in C
  BY AppendProperties, LenProperties, ElementOfSeq
<1> HIDE DEF v
<1>2. CASE u = <<>>
  <2>1. Len(v) = 1 /\ v[1] = x
    BY <1>1, <1>2
  <2> QED
    BY <1>2, <2>1 DEF Group, v
<1>3. CASE Len(u) = 1
  <2>1. Group(u, m) = m[u[1]] /\ u[1] \in C
    BY <1>1, <1>3 DEF Group
  <2>2. Group(v, m) = Body!List(more) /\ DOMAIN more = 1 .. 2
    BY <1>1, <1>3 DEF Group
  <2>3. more = <<m[u[1]], m[x]>>
    BY <1>1, <1>3
  <2>4. u # <<>>
    BY <1>1, <1>3
  <2> QED
    BY <1>3, <2>1, <2>2, <2>3, <2>4 DEF v
<1>4. CASE u # <<>> /\ Len(u) # 1
  <2>1. Len(u) # 0
    BY <1>1, <1>4, EmptySeq
  <2>2. Group(u, m) = Body!List(items)
    BY <1>4 DEF Group
  <2>3. Group(v, m) = Body!List(more)
    BY <1>1, <2>1 DEF Group
  <2>4. items \in Seq(S) /\ Len(items) = Len(u)
    <3>1. items \in [1 .. Len(u) -> S]
      BY <1>1
    <3> HIDE DEF items, S
    <3> QED
      BY <1>1, <3>1
  <2>5. more = Append(items, m[x])
    <3> DEFINE w == Append(items, m[x])
    <3>1. m[x] \in S
      OBVIOUS
    <3>2. items \in Seq(S)
      BY <2>4
    <3>3. \A i \in 1 .. Len(u) : items[i] = m[u[i]]
      BY <1>1
    <3> HIDE DEF S, items
    <3>4. /\ Len(w) = Len(u) + 1 /\ w[Len(u) + 1] = m[x] /\ w \in Seq(S) /\ DOMAIN w = 1 .. Len(u) + 1
          /\ \A i \in 1 .. Len(u) : w[i] = items[i]
      BY <2>4, <3>1, <3>2, AppendProperties, LenProperties
    <3>5. w = [i \in 1 .. Len(u) + 1 |-> w[i]]
      BY <3>4
    <3> HIDE DEF w
    <3>6. ASSUME NEW i \in 1 .. Len(u) + 1 PROVE w[i] = m[v[i]]
      BY <1>1, <3>3, <3>4
    <3> QED
      BY <1>1, <3>5, <3>6 DEF w
  <2>6. Body!List(items).kind = "list" /\ Body!List(items).items = items
    BY DEF Body!List
  <2> HIDE DEF items, more
  <2> QED
    BY <1>4, <2>2, <2>3, <2>5, <2>6 DEF v
<1> QED
  BY <1>2, <1>3, <1>4 DEF v

\* appendXMLChild takes the fields from the children so far to those with one more.
LEMMA FieldsMore ==
    ASSUME NEW C, NEW p, NEW q, p.children \in Seq(C), NEW x \in C, NEW m,
           q.attributes = p.attributes, q.children = Append(p.children, x),
           ~Body!IsText(x), \A c \in C : ~Body!IsText(c) => m[c].kind # "list"
    PROVE  Body!appendXMLChild(Fields(p, m), Body!Child(x.name), m[x]) = Fields(q, m)
<1> DEFINE k == Body!Child(x.name)
           f == Body!AttributeFields(p.attributes)
           u(j) == Body!Under(p.children, j)
           v(j) == Body!Under(q.children, j)
           w == Body!Under(p.children, k)
           F == Fields(p, m)
           G == Fields(q, m)
<1>1. Body!KeyOf(x) = k
  BY DEF Body!KeyOf
<1>2. k \notin DOMAIN f \cup {Body!Nowhere, Body!TextKey}
  BY KeysDiffer
<1>3. ASSUME NEW j PROVE v(j) = IF k = j THEN Append(u(j), x) ELSE u(j)
  <2>1. Body!Under(Append(p.children, x), j) =
            IF Body!KeyOf(x) = j THEN Append(Body!Under(p.children, j), x) ELSE Body!Under(p.children, j)
    BY UnderAppend, Zenon
  <2> HIDE DEF k
  <2> QED
    BY <1>1, <2>1
<1>4. /\ Len(p.children) \in Nat /\ DOMAIN p.children = 1 .. Len(p.children)
      /\ DOMAIN q.children = 1 .. Len(p.children) + 1
      /\ q.children[Len(p.children) + 1] = x /\ \A i \in 1 .. Len(p.children) : q.children[i] = p.children[i]
  BY AppendProperties, LenProperties
<1>5. ChildKeys(q) = ChildKeys(p) \cup {k}
  <2>1. ASSUME NEW j PROVE (\E i \in DOMAIN q.children : j = Body!KeyOf(q.children[i]))
                           <=> (j = k \/ \E i \in DOMAIN p.children : j = Body!KeyOf(p.children[i]))
    BY <1>1, <1>4
  <2>2. \A j : j \in ChildKeys(q) <=>
                 j \notin {Body!Nowhere, Body!TextKey} /\ \E i \in DOMAIN q.children : j = Body!KeyOf(q.children[i])
    BY DEF ChildKeys
  <2>3. \A j : j \in ChildKeys(p) <=>
                 j \notin {Body!Nowhere, Body!TextKey} /\ \E i \in DOMAIN p.children : j = Body!KeyOf(p.children[i])
    BY DEF ChildKeys
  <2> HIDE DEF k
  <2> QED
    BY <1>2, <2>1, <2>2, <2>3
<1>6. /\ DOMAIN F = DOMAIN f \cup ChildKeys(p) /\ DOMAIN G = DOMAIN f \cup ChildKeys(q)
      /\ \A j \in DOMAIN F : F[j] = IF j \in DOMAIN f THEN f[j] ELSE Group(u(j), m)
      /\ \A j \in DOMAIN G : G[j] = IF j \in DOMAIN f THEN f[j] ELSE Group(v(j), m)
      /\ G = [j \in DOMAIN G |-> G[j]]
  BY DEF Fields
<1>7. w \in Seq(C) /\ (w = <<>> <=> k \notin ChildKeys(p)) /\ (\A i \in DOMAIN w : Body!KeyOf(w[i]) = k)
  <2>1. w \in Seq(C) /\ Taken(p.children, k, Len(p.children), w)
    BY UnderIn
  <2>2. k \in ChildKeys(p) <=> \E i \in 1 .. Len(p.children) : Body!KeyOf(p.children[i]) = k
    BY <1>2, <1>4 DEF ChildKeys
  <2> HIDE DEF k, w
  <2> QED
    BY <2>1, <2>2 DEF Taken
<1>8. ASSUME NEW z, G[k] = z PROVE Body!With(F, k, z) = G
  <2> DEFINE W == Body!With(F, k, z)
  <2>1. DOMAIN W = DOMAIN F \cup {k} /\ W = [j \in DOMAIN W |-> W[j]]
        /\ \A j \in DOMAIN W : W[j] = IF j = k THEN z ELSE F[j]
    BY DEF Body!With
  <2> HIDE DEF W, F, G, u, v, f, k
  <2>2. DOMAIN W = DOMAIN G
    BY <1>5, <1>6, <2>1
  <2>3. ASSUME NEW j \in DOMAIN G, j # k PROVE F[j] = G[j]
    BY <1>3, <1>5, <1>6, <2>3
  <2> QED
    BY <1>6, <1>8, <2>1, <2>2, <2>3 DEF W
<1>9. G[k] = Group(Append(w, x), m)
  <2>1. v(k) = Append(w, x)
    BY <1>3
  <2> HIDE DEF F, G, u, v, f, k, w
  <2> QED
    BY <1>2, <1>5, <1>6, <2>1
<1>10. k \in DOMAIN F <=> k \in ChildKeys(p)
  <2> HIDE DEF F, G, f, k
  <2> QED
    BY <1>2, <1>6
<1>11. k \in DOMAIN F => F[k] = Group(w, m)
  <2>1. w = u(k)
    OBVIOUS
  <2> HIDE DEF F, G, f, k, u, w
  <2> QED
    BY <1>2, <1>6, <2>1
<1>12. Body!appendXMLChild(F, k, m[x]) =
           CASE k \notin DOMAIN F -> Body!With(F, k, m[x])
             [] k \in DOMAIN F /\ F[k].kind # "list" -> Body!With(F, k, Body!List(<<F[k], m[x]>>))
             [] OTHER -> Body!With(F, k, Body!List(Append(F[k].items, m[x])))
  BY DEF Body!appendXMLChild
<1>13. /\ w = <<>> => Group(Append(w, x), m) = m[x]
       /\ Len(w) = 1 => Group(w, m) = m[w[1]] /\ w[1] \in C
                        /\ Group(Append(w, x), m) = Body!List(<<Group(w, m), m[x]>>)
       /\ w # <<>> /\ Len(w) # 1 =>
              /\ Group(w, m).kind = "list"
              /\ Group(Append(w, x), m) = Body!List(Append(Group(w, m).items, m[x]))
  <2> HIDE DEF w
  <2> QED
    BY <1>7, GroupMore
<1> HIDE DEF F, G, f, k, u, v, w
<1>14. CASE w = <<>>
  <2>1. G[k] = m[x] /\ k \notin DOMAIN F
    BY <1>7, <1>9, <1>10, <1>13, <1>14
  <2> QED
    BY <1>8, <1>12, <2>1 DEF F, G, k
<1>15. CASE Len(w) = 1
  <2>1. /\ Group(w, m) = m[w[1]] /\ w[1] \in C
        /\ Group(Append(w, x), m) = Body!List(<<Group(w, m), m[x]>>)
    BY <1>7, <1>13, <1>15
  <2>2. DOMAIN w = 1 .. 1 /\ w # <<>>
    <3>1. DOMAIN w = 1 .. 1
      BY <1>7, <1>15, LenProperties
    <3>2. w # <<>>
      <4> SUFFICES ASSUME w = <<>> PROVE FALSE
        OBVIOUS
      <4>1. Len(w) = 0
        BY EmptySeq
      <4> QED
        BY <1>15, <4>1
    <3> QED
      BY <3>1, <3>2
  <2>3. k \in DOMAIN F /\ F[k] = m[w[1]]
    BY <1>7, <1>10, <1>11, <2>1, <2>2
  <2>4. Body!KeyOf(w[1]) = k
    BY <1>7, <2>2
  <2>5. ~Body!IsText(w[1])
    BY <1>2, <2>4 DEF Body!KeyOf
  <2>6. F[k].kind # "list"
    BY <2>1, <2>3, <2>5
  <2>7. G[k] = Body!List(<<F[k], m[x]>>)
    BY <1>9, <2>1, <2>3
  <2> QED
    BY <1>8, <1>12, <2>3, <2>6, <2>7 DEF F, G, k
<1>16. CASE w # <<>> /\ Len(w) # 1
  <2>1. /\ Group(w, m).kind = "list"
        /\ Group(Append(w, x), m) = Body!List(Append(Group(w, m).items, m[x]))
    BY <1>7, <1>13, <1>16
  <2>2. k \in DOMAIN F /\ F[k] = Group(w, m)
    BY <1>7, <1>10, <1>11, <1>16
  <2>3. F[k].kind = "list" /\ G[k] = Body!List(Append(F[k].items, m[x]))
    BY <1>9, <2>1, <2>2
  <2> QED
    BY <1>8, <1>12, <2>2, <2>3 DEF F, G, k
<1> QED
  BY <1>14, <1>15, <1>16

\* What a call for a new element begins with.
LEMMA NewFrame ==
    ASSUME NEW e, e.children = <<>>, NEW m
    PROVE  FrameOf(e, m) = [name |-> e.name, text |-> <<>>, fields |-> Body!AttributeFields(e.attributes)]
<1> DEFINE f == Body!AttributeFields(e.attributes)
           none == <<>>
<1>1. Body!Under(e.children, Body!TextKey) = none
  BY UnderNone
<1>2. Parts(e) = none
  BY <1>1 DEF Parts
<1>3. ChildKeys(e) = {}
  BY DEF ChildKeys
<1>4. f = [k \in DOMAIN f |-> f[k]]
  BY DEF Body!AttributeFields
<1>5. Fields(e, m) = [k \in DOMAIN f |-> f[k]]
  <2> DEFINE F == Fields(e, m)
  <2>1. F = [k \in DOMAIN F |-> F[k]] /\ DOMAIN F = DOMAIN f /\ \A k \in DOMAIN f : F[k] = f[k]
    BY <1>3 DEF Fields
  <2> HIDE DEF F, f
  <2> QED
    BY <2>1 DEF F
<1> HIDE DEF f
<1> QED
  BY <1>2, <1>4, <1>5 DEF FrameOf, f

\* The element q is p with one more child, and the calls for it.
Gains(p, q, c) == q.name = p.name /\ q.attributes = p.attributes /\ q.children = Append(p.children, c)

AfterText(p, m, c) ==
    [name |-> p.name, fields |-> Fields(p, m),
     text |-> IF c.text = Blank THEN Parts(p) ELSE Append(Parts(p), c.text)]

AfterChild(p, m, x) ==
    [name |-> p.name, text |-> Parts(p), fields |-> Body!appendXMLChild(Fields(p, m), Body!Child(x.name), m[x])]

\* One more text is joined to the others, and blank text to none.
LEMMA TextMore ==
    ASSUME NEW C, NEW p, NEW q, p.children \in Seq(C), NEW c \in C, c \in TextNode, NEW m, Gains(p, q, c)
    PROVE  FrameOf(q, m) = AfterText(p, m, c)
<1> USE DEF Gains
<1> DEFINE f == Body!AttributeFields(p.attributes)
           w == Body!Under(p.children, Body!TextKey)
           z == Body!Under(q.children, Body!TextKey)
           S == {d.text : d \in C}
<1>1. Body!KeyOf(c) = IF c.text = Blank THEN Body!Nowhere ELSE Body!TextKey
  BY ChildForms
<1>2. Body!Nowhere # Body!TextKey
  BY KeysDiffer
<1>3. ASSUME NEW j, j # Body!KeyOf(c) PROVE Body!Under(q.children, j) = Body!Under(p.children, j)
  BY <1>3, UnderAppend
<1>4. z = IF c.text = Blank THEN w ELSE Append(w, c)
  <2>1. z = IF Body!KeyOf(c) = Body!TextKey THEN Append(w, c) ELSE w
    <3>1. Body!Under(Append(p.children, c), Body!TextKey) =
              IF Body!KeyOf(c) = Body!TextKey THEN Append(w, c) ELSE w
      BY UnderAppend, Zenon
    <3> QED
      BY <3>1
  <2> QED
    BY <1>1, <1>2, <2>1
<1>5. ChildKeys(q) = ChildKeys(p)
  <2>1. /\ Len(p.children) \in Nat /\ DOMAIN p.children = 1 .. Len(p.children)
        /\ DOMAIN q.children = 1 .. Len(p.children) + 1
        /\ q.children[Len(p.children) + 1] = c /\ \A i \in 1 .. Len(p.children) : q.children[i] = p.children[i]
    BY AppendProperties, LenProperties
  <2>2. ASSUME NEW j PROVE (\E i \in DOMAIN q.children : j = Body!KeyOf(q.children[i]))
                           <=> (j = Body!KeyOf(c) \/ \E i \in DOMAIN p.children : j = Body!KeyOf(p.children[i]))
    BY <2>1
  <2>3. \A j : j \in ChildKeys(q) <=>
                 j \notin {Body!Nowhere, Body!TextKey} /\ \E i \in DOMAIN q.children : j = Body!KeyOf(q.children[i])
    BY DEF ChildKeys
  <2>4. \A j : j \in ChildKeys(p) <=>
                 j \notin {Body!Nowhere, Body!TextKey} /\ \E i \in DOMAIN p.children : j = Body!KeyOf(p.children[i])
    BY DEF ChildKeys
  <2>5. Body!KeyOf(c) \in {Body!Nowhere, Body!TextKey}
    BY <1>1
  <2> QED
    BY <2>2, <2>3, <2>4, <2>5
<1>6. Fields(q, m) = Fields(p, m)
  <2> DEFINE F == Fields(p, m)
             G == Fields(q, m)
  <2>1. /\ DOMAIN F = DOMAIN f \cup ChildKeys(p) /\ F = [j \in DOMAIN F |-> F[j]]
        /\ \A j \in DOMAIN F : F[j] = IF j \in DOMAIN f THEN f[j] ELSE Group(Body!Under(p.children, j), m)
    BY DEF Fields
  <2>2. /\ DOMAIN G = DOMAIN f \cup ChildKeys(p) /\ G = [j \in DOMAIN G |-> G[j]]
        /\ \A j \in DOMAIN G : G[j] = IF j \in DOMAIN f THEN f[j] ELSE Group(Body!Under(q.children, j), m)
    BY <1>5 DEF Fields
  <2>3. \A j \in ChildKeys(p) : j # Body!KeyOf(c)
    BY <1>1 DEF ChildKeys
  <2> HIDE DEF F, G, f
  <2>4. ASSUME NEW j \in DOMAIN F PROVE F[j] = G[j]
    <3>1. CASE j \in DOMAIN f
      BY <2>1, <2>2, <3>1
    <3>2. CASE j \notin DOMAIN f
      <4>1. Body!Under(q.children, j) = Body!Under(p.children, j)
        BY <1>3, <2>1, <2>3, <3>2
      <4> QED
        BY <2>1, <2>2, <3>2, <4>1
    <3> QED
      BY <3>1, <3>2
  <2> QED
    BY <2>1, <2>2, <2>4 DEF F, G
<1>7. c.text # Blank => Parts(q) = Append(Parts(p), c.text)
  <2> SUFFICES ASSUME c.text # Blank PROVE Parts(q) = Append(Parts(p), c.text)
    OBVIOUS
  <2>1. w \in Seq(C)
    BY UnderIn
  <2>2. z = Append(w, c)
    BY <1>4
  <2>3. Parts(p) = [i \in DOMAIN w |-> w[i].text] /\ Parts(q) = [i \in DOMAIN z |-> z[i].text]
    BY DEF Parts
  <2> HIDE DEF w, z
  <2>4. /\ Len(w) \in Nat /\ DOMAIN w = 1 .. Len(w) /\ DOMAIN z = 1 .. Len(w) + 1
        /\ z[Len(w) + 1] = c /\ \A i \in 1 .. Len(w) : z[i] = w[i] /\ w[i] \in C
    BY <2>1, <2>2, AppendProperties, LenProperties, ElementOfSeq
  <2>5. Parts(p) \in Seq(S) /\ Len(Parts(p)) = Len(w)
    <3> DEFINE parts == Parts(p)
    <3>1. parts \in [1 .. Len(w) -> S]
      BY <2>3, <2>4
    <3> HIDE DEF parts, S
    <3> QED
      BY <2>4, <3>1 DEF parts
  <2> DEFINE a == Append(Parts(p), c.text)
  <2>6. c.text \in S
    OBVIOUS
  <2>7. \A i \in 1 .. Len(w) : Parts(p)[i] = w[i].text
    BY <2>3, <2>4
  <2> HIDE DEF S
  <2>8. /\ a \in Seq(S) /\ Len(a) = Len(w) + 1 /\ DOMAIN a = 1 .. Len(w) + 1 /\ a[Len(w) + 1] = c.text
        /\ \A i \in 1 .. Len(w) : a[i] = Parts(p)[i]
    BY <2>5, <2>6, AppendProperties, LenProperties
  <2>9. a = [i \in 1 .. Len(w) + 1 |-> a[i]]
    BY <2>8
  <2> HIDE DEF a
  <2>10. ASSUME NEW i \in 1 .. Len(w) + 1 PROVE a[i] = z[i].text
    BY <2>4, <2>7, <2>8
  <2> QED
    BY <2>3, <2>4, <2>9, <2>10 DEF a
<1>8. c.text = Blank => Parts(q) = Parts(p)
  <2>1. c.text = Blank => z = w
    BY <1>4
  <2> HIDE DEF z, w
  <2> QED
    BY <2>1 DEF Parts, z, w
<1> QED
  BY <1>6, <1>7, <1>8 DEF FrameOf, AfterText

\* One more child element.
LEMMA ChildMore ==
    ASSUME NEW C, NEW p, NEW q, p.children \in Seq(C), NEW x \in C, NEW m, ~Body!IsText(x),
           Gains(p, q, x), \A c \in C : ~Body!IsText(c) => m[c].kind # "list"
    PROVE  FrameOf(q, m) = AfterChild(p, m, x)
<1> USE DEF Gains
<1>1. Fields(q, m) = Body!appendXMLChild(Fields(p, m), Body!Child(x.name), m[x])
  BY FieldsMore
<1>2. Body!KeyOf(x) # Body!TextKey
  BY KeysDiffer DEF Body!KeyOf
<1>3. Body!Under(q.children, Body!TextKey) = Body!Under(p.children, Body!TextKey)
  BY <1>2, UnderAppend
<1> QED
  BY <1>1, <1>3 DEF FrameOf, Parts, AfterChild

\* The levels of an element whose children are of at most n.
Around(n) == Body!ElementsOver(Body!Elements[n])

\* The calls s are those of the open elements o.
Reads(s, o) ==
    /\ o \in Seq(UNION {Around(n) : n \in Nat})
    /\ Len(o) =< MaxXMLDepth
    /\ \A i \in 1 .. Len(o) : o[i] \in Around(MaxXMLDepth - i)
    /\ s = [i \in 1 .. Len(o) |-> FrameOf(o[i], Body!Meaning[MaxXMLDepth - i])]

LEMMA ReadsLength == ASSUME NEW s, NEW o, Reads(s, o) PROVE Len(s) = Len(o) /\ Len(o) \in Nat
<1> DEFINE S == {FrameOf(o[i], Body!Meaning[MaxXMLDepth - i]) : i \in 1 .. Len(o)}
<1>1. s \in [1 .. Len(o) -> S] /\ Len(o) \in Nat
  BY LenProperties DEF Reads
<1> HIDE DEF S
<1> QED
  BY <1>1

\* A call more for an element more.
LEMMA ReadsMore ==
    ASSUME Body!DepthAssumption, NEW s, NEW o, Reads(s, o), Len(o) < MaxXMLDepth,
           NEW e \in Around(MaxXMLDepth - (Len(o) + 1)), NEW frame,
           frame = FrameOf(e, Body!Meaning[MaxXMLDepth - (Len(o) + 1)])
    PROVE  Reads(Append(s, frame), Append(o, e))
<1> DEFINE D == MaxXMLDepth
           n == Len(o) + 1
           U == UNION {Around(k) : k \in Nat}
           S == {FrameOf(o[i], Body!Meaning[D - i]) : i \in 1 .. Len(o)} \cup {frame}
           a == Append(s, frame)
           b == Append(o, e)
<1>1. D \in Nat /\ Len(o) \in Nat /\ n \in Nat /\ n =< D /\ D - n \in Nat
  BY ReadsLength DEF Body!DepthAssumption
<1>2. e \in U /\ o \in Seq(U)
  BY <1>1 DEF Reads
<1>3. b \in Seq(U) /\ Len(b) = n /\ b[n] = e /\ \A i \in 1 .. Len(o) : b[i] = o[i]
  <2> HIDE DEF U
  <2> QED
    BY <1>2, AppendProperties
<1>4. s \in Seq(S) /\ Len(s) = Len(o) /\ frame \in S
  <2>1. s \in [1 .. Len(o) -> S] /\ frame \in S
    BY DEF Reads
  <2> HIDE DEF S
  <2> QED
    BY <1>1, <2>1
<1>5. a \in Seq(S) /\ Len(a) = n /\ a[n] = frame /\ \A i \in 1 .. Len(o) : a[i] = s[i]
  <2> HIDE DEF S
  <2> QED
    BY <1>4, AppendProperties
<1>6. a = [i \in 1 .. n |-> a[i]]
  <2> HIDE DEF S, a
  <2> QED
    BY <1>1, <1>5
<1>7. \A i \in 1 .. Len(o) : o[i] \in Around(D - i) /\ s[i] = FrameOf(o[i], Body!Meaning[D - i])
  BY DEF Reads
<1> HIDE DEF U, S, a, b
<1>8. ASSUME NEW i \in 1 .. n PROVE b[i] \in Around(D - i) /\ a[i] = FrameOf(b[i], Body!Meaning[D - i])
  <2>1. i = n \/ i \in 1 .. Len(o)
    BY <1>1
  <2> QED
    BY <1>3, <1>5, <1>7, <2>1
<1>9. a = [i \in 1 .. n |-> FrameOf(b[i], Body!Meaning[D - i])]
  BY <1>6, <1>8
<1> HIDE DEF D, n
<1>10. Reads(a, b)
  BY <1>1, <1>3, <1>8, <1>9 DEF Reads, D, U
<1> QED
  BY <1>10 DEF a, b

\* The innermost call is that of the innermost element; the others remain.
LEMMA ReadsLess ==
    ASSUME Body!DepthAssumption, NEW s, NEW o, Reads(s, o), Len(o) > 0
    PROVE  /\ Body!Last(o) = o[Len(o)] /\ Body!Last(o) \in Around(MaxXMLDepth - Len(o))
           /\ MaxXMLDepth - Len(o) \in Nat
           /\ Body!Last(s) = FrameOf(Body!Last(o), Body!Meaning[MaxXMLDepth - Len(o)])
           /\ Reads(Body!Front(s), Body!Front(o)) /\ Len(Body!Front(o)) = Len(o) - 1
           /\ Len(o) > 1 => Body!Front(o)[Len(o) - 1] = o[Len(o) - 1]
                            /\ o[Len(o) - 1] \in Around(MaxXMLDepth - (Len(o) - 1))
                            /\ Body!Front(s)[Len(o) - 1] = FrameOf(o[Len(o) - 1], Body!Meaning[MaxXMLDepth - (Len(o) - 1)])
<1> DEFINE D == MaxXMLDepth
           n == Len(o)
           U == UNION {Around(k) : k \in Nat}
           S == {FrameOf(o[i], Body!Meaning[D - i]) : i \in 1 .. Len(o)}
           a == Body!Front(s)
           b == Body!Front(o)
<1>1. D \in Nat /\ n \in Nat /\ n \in 1 .. n /\ n =< D /\ D - n \in Nat /\ Len(s) = n
  BY ReadsLength DEF Body!DepthAssumption, Reads
<1>2. \A i \in 1 .. n : o[i] \in Around(D - i) /\ s[i] = FrameOf(o[i], Body!Meaning[D - i])
  BY DEF Reads
<1>3. Body!Last(o) = o[n] /\ Body!Last(s) = s[n]
  BY <1>1 DEF Body!Last
<1>4. s \in Seq(S) /\ o \in Seq(U)
  <2>1. s \in [1 .. n -> S]
    BY DEF Reads
  <2> HIDE DEF S
  <2> QED
    BY <1>1, <2>1 DEF Reads
<1>5. a = SubSeq(s, 1, n - 1) /\ b = SubSeq(o, 1, n - 1)
  BY <1>1 DEF Body!Front
<1>6. /\ b \in Seq(U) /\ Len(b) = n - 1 /\ a \in Seq(S) /\ Len(a) = n - 1
      /\ \A i \in 1 .. n - 1 : a[i] = s[i] /\ b[i] = o[i]
  <2> HIDE DEF U, S, a, b
  <2> QED
    BY <1>1, <1>4, <1>5
<1>7. a = [i \in 1 .. n - 1 |-> a[i]]
  <2> HIDE DEF S, a
  <2> QED
    BY <1>1, <1>6
<1> HIDE DEF U, S, a, b
<1>8. ASSUME NEW i \in 1 .. n - 1 PROVE b[i] \in Around(D - i) /\ a[i] = FrameOf(b[i], Body!Meaning[D - i])
  BY <1>1, <1>2, <1>6
<1>9. Reads(a, b)
  <2>1. a = [i \in 1 .. n - 1 |-> FrameOf(b[i], Body!Meaning[D - i])]
    BY <1>7, <1>8
  <2> HIDE DEF D
  <2> QED
    BY <1>1, <1>6, <1>8, <2>1 DEF Reads, D, U
<1>10. n > 1 => n - 1 \in 1 .. n - 1
  BY <1>1
<1>11. n > 1 => /\ b[n - 1] = o[n - 1] /\ o[n - 1] \in Around(D - (n - 1))
                /\ a[n - 1] = FrameOf(o[n - 1], Body!Meaning[D - (n - 1)])
  BY <1>6, <1>8, <1>10
<1> QED
  BY <1>1, <1>2, <1>3, <1>6, <1>9, <1>11 DEF a, b

\* The innermost element and its call change together.
LEMMA ReadsOther ==
    ASSUME Body!DepthAssumption, NEW s, NEW o, Reads(s, o), NEW n, n = Len(o), n > 0,
           NEW e \in Around(MaxXMLDepth - n), NEW frame, frame = FrameOf(e, Body!Meaning[MaxXMLDepth - n])
    PROVE  Reads([s EXCEPT ![n] = frame], [o EXCEPT ![n] = e])
<1> DEFINE D == MaxXMLDepth
           U == UNION {Around(k) : k \in Nat}
           a == [s EXCEPT ![n] = frame]
           b == [o EXCEPT ![n] = e]
<1>1. D \in Nat /\ n \in Nat /\ n \in 1 .. n /\ n =< D /\ D - n \in Nat
  BY ReadsLength DEF Body!DepthAssumption, Reads
<1>2. \A i \in 1 .. n : o[i] \in Around(D - i) /\ s[i] = FrameOf(o[i], Body!Meaning[D - i])
  BY DEF Reads
<1>3. DOMAIN s = 1 .. n /\ o \in Seq(U) /\ e \in U
  BY <1>1 DEF Reads
<1>4. b \in Seq(U) /\ Len(b) = n
  <2>1. b \in Seq(U) /\ Len(b) = Len(o)
    <3> HIDE DEF U
    <3> QED
      BY <1>1, <1>3, ExceptSeq
  <2> QED
    BY <2>1
<1>5. DOMAIN o = 1 .. n
  BY <1>3, LenProperties
<1>6. ASSUME NEW i \in 1 .. n PROVE a[i] = (IF i = n THEN frame ELSE s[i]) /\ b[i] = IF i = n THEN e ELSE o[i]
  BY <1>3, <1>5
<1>7. a = [i \in 1 .. n |-> a[i]]
  BY <1>3
<1> HIDE DEF U, a, b
<1>8. ASSUME NEW i \in 1 .. n PROVE b[i] \in Around(D - i) /\ a[i] = FrameOf(b[i], Body!Meaning[D - i])
  BY <1>2, <1>6
<1>9. a = [i \in 1 .. n |-> FrameOf(b[i], Body!Meaning[D - i])]
  BY <1>7, <1>8
<1> HIDE DEF D
<1>10. Reads(a, b)
  BY <1>1, <1>4, <1>8, <1>9 DEF Reads, D, U
<1> QED
  BY <1>10 DEF a, b

\* What ParseBody has returned.
Ended ==
    /\ result.kind \in {"null", "raw", "parsed", "object"}
    /\ result # Body!Null => (result = Body!Marked <=> truncated)
    /\ result.kind = "object" =>
           result = Body!Object([k \in {Body!Child(open[1].name)} |-> Body!Meaning[MaxXMLDepth][open[1]]])

BodyInv ==
    /\ truncated \in BOOLEAN
    /\ phase \in {"begin", "prolog", "element", "done"}
    /\ phase \in {"prolog", "element"} => ~truncated
    /\ phase # "done" => result = Body!Null /\ Reads(stack, open)
    /\ phase = "element" <=> Len(open) > 0 /\ phase # "done"
    /\ phase = "done" => stack = <<>> /\ Ended

LEMMA BodyInit == Body!DepthAssumption /\ Body!Init => BodyInv
<1> SUFFICES ASSUME Body!DepthAssumption, Body!Init PROVE BodyInv
  OBVIOUS
<1> DEFINE none == <<>>
<1>1. open = none /\ stack = none
  BY DEF Body!Init
<1>2. none \in Seq(UNION {Around(n) : n \in Nat}) /\ Len(none) = 0
  BY EmptySeq
<1>3. Reads(stack, open)
  <2>1. none = [i \in 1 .. Len(none) |-> FrameOf(none[i], Body!Meaning[MaxXMLDepth - i])]
    BY <1>2
  <2>2. \A i \in 1 .. Len(none) : FALSE
    BY <1>2
  <2> HIDE DEF none
  <2>3. Reads(none, none)
    BY <1>2, <2>1, <2>2 DEF Reads, Body!DepthAssumption
  <2> QED
    BY <1>1, <2>3
<1>4. ~(Len(open) > 0)
  BY <1>1, <1>2
<1> QED
  BY <1>1, <1>3, <1>4 DEF Body!Init, BodyInv

\* How the outcomes differ.
LEMMA Outcomes ==
    /\ Body!Null.kind = "null" /\ Body!Raw.kind = "raw" /\ Body!Marked.kind = "raw" /\ Body!Parsed.kind = "parsed"
    /\ Body!Raw # Body!Marked /\ Body!Parsed # Body!Marked /\ Body!Null # Body!Marked
    /\ \A f : Body!Object(f).kind = "object" /\ Body!Object(f) # Body!Marked
<1>1. /\ Body!Null.kind = "null" /\ Body!Raw.kind = "raw" /\ Body!Marked.kind = "raw" /\ Body!Parsed.kind = "parsed"
      /\ \A f : Body!Object(f).kind = "object"
  BY DEF Body!Null, Body!Raw, Body!Marked, Body!Parsed, Body!Object
<1>2. Body!Raw.mark = FALSE /\ Body!Marked.mark = TRUE
  BY DEF Body!Raw, Body!Marked
<1>3. Body!Raw # Body!Marked
  BY <1>2
<1> QED
  BY <1>1, <1>3

\* An outcome that is not an object.
LEMMA PlainEnd ==
    ASSUME BodyInv, phase' = "done", truncated' = truncated, stack' = <<>>,
           result' \in {Body!Null, Body!Raw, Body!Marked, Body!Parsed},
           result' # Body!Null => (result' = Body!Marked <=> truncated)
    PROVE  BodyInv'
<1>1. result'.kind \in {"null", "raw", "parsed"}
  BY Outcomes
<1>2. Ended'
  BY <1>1 DEF Ended
<1> QED
  BY <1>2 DEF BodyInv

\* Nothing is on the stack before the root begins.
LEMMA ReadsNone == ASSUME NEW s, NEW o, Reads(s, o), ~(Len(o) > 0) PROVE s = <<>> /\ o = <<>>
<1>1. Len(o) = 0
  BY ReadsLength
<1>2. o = <<>>
  BY <1>1, EmptySeq DEF Reads
<1>3. s = [i \in 1 .. 0 |-> FrameOf(o[i], Body!Meaning[MaxXMLDepth - i])]
  BY <1>1 DEF Reads
<1> QED
  BY <1>2, <1>3

LEMMA ParseBodyInv == ASSUME BodyInv, Body!ParseBody PROVE BodyInv'
<1>1. phase = "begin" /\ stack = <<>> /\ ~(Len(open) > 0) /\ truncated \in BOOLEAN
  BY ReadsNone DEF BodyInv, Body!ParseBody
<1>2. ASSUME NEW value \in {Body!Null, Body!Raw, Body!Marked, Body!Parsed}, Body!Return(value), UNCHANGED stack,
             value # Body!Null => (value = Body!Marked <=> truncated)
      PROVE  BodyInv'
  BY <1>1, <1>2, PlainEnd DEF Body!Return
<1>3. CASE Body!Return(Body!Null) /\ UNCHANGED stack
  BY <1>2, <1>3
<1>4. CASE Body!Return(Body!FormatBodyRaw(truncated)) /\ UNCHANGED stack
  <2>1. Body!FormatBodyRaw(truncated) = IF truncated THEN Body!Marked ELSE Body!Raw
    BY DEF Body!FormatBodyRaw
  <2>2. Body!FormatBodyRaw(truncated) = Body!Marked <=> truncated
    BY <1>1, <2>1, Outcomes
  <2>3. Body!FormatBodyRaw(truncated) \in {Body!Null, Body!Raw, Body!Marked, Body!Parsed}
    BY <2>1
  <2> QED
    BY <1>2, <1>4, <2>2, <2>3
<1>5. CASE ~truncated /\ (\E r \in {Body!Parsed, Body!Raw} : Body!Return(r)) /\ UNCHANGED stack
  <2>1. PICK r \in {Body!Parsed, Body!Raw} : Body!Return(r)
    BY <1>5
  <2>2. r # Body!Marked
    BY <2>1, Outcomes
  <2> QED
    BY <1>2, <1>5, <2>1, <2>2
<1>6. CASE ~truncated /\ phase' = "prolog" /\ UNCHANGED <<media, truncated, stack, result, tokens, open>>
  BY <1>1, <1>6 DEF BodyInv
<1> QED
  BY <1>3, <1>4, <1>5, <1>6 DEF Body!ParseBody

LEMMA DecodeFailsInv == ASSUME BodyInv, Body!DecodeFails PROVE BodyInv'
<1>1. ~truncated /\ Body!FormatBodyRaw(FALSE) = Body!Raw
  BY DEF BodyInv, Body!DecodeFails, Body!FormatBodyRaw
<1>2. Body!Raw # Body!Marked
  BY Outcomes
<1> QED
  BY <1>1, <1>2, PlainEnd DEF Body!DecodeFails, Body!Return

LEMMA StartElementInv ==
    ASSUME Body!DepthAssumption, BodyInv, NEW name \in Name, NEW attributes \in Attributes,
           Body!StartElement(name, attributes)
    PROVE  BodyInv'
<1> DEFINE e == [name |-> name, attributes |-> attributes, children |-> <<>>]
           frame == [name |-> name, text |-> <<>>, fields |-> Body!AttributeFields(attributes)]
           n == Len(open) + 1
<1>1. /\ phase \in {"prolog", "element"} /\ ~truncated /\ result = Body!Null /\ Reads(stack, open)
      /\ truncated' = truncated /\ truncated \in BOOLEAN
  BY DEF BodyInv, Body!StartElement, Body!Token
<1>2. Len(stack) = Len(open) /\ Len(open) \in Nat /\ MaxXMLDepth \in Nat
  BY <1>1, ReadsLength DEF Body!DepthAssumption
<1>3. CASE Body!TooDeep(Len(stack) + 1)
  <2>1. stack' = <<>> /\ phase' = "done" /\ result' = Body!Raw
    BY <1>3 DEF Body!StartElement, Body!FormatBodyRaw
  <2>2. Body!Raw # Body!Marked
    BY Outcomes
  <2> QED
    BY <1>1, <2>1, <2>2, PlainEnd
<1>4. CASE ~Body!TooDeep(Len(stack) + 1)
  <2>1. n =< MaxXMLDepth /\ n \in Nat /\ MaxXMLDepth - n \in Nat
    BY <1>2, <1>4 DEF Body!TooDeep
  <2>2. /\ stack' = Append(stack, frame) /\ open' = Append(open, e)
        /\ phase' = "element" /\ result' = result
    BY <1>4 DEF Body!StartElement
  <2>3. e \in Around(MaxXMLDepth - n)
    <3>1. <<>> \in Seq(Body!Elements[MaxXMLDepth - n] \cup [text : Text \cup {Blank}])
      BY EmptySeq
    <3> QED
      BY <3>1 DEF Around, Body!ElementsOver
  <2>4. frame = FrameOf(e, Body!Meaning[MaxXMLDepth - n])
    BY NewFrame
  <2>5. Len(Append(open, e)) = n
    <3>1. open \in Seq(UNION {Around(k) : k \in Nat} \cup {e})
      BY <1>1 DEF Reads
    <3> HIDE DEF e
    <3> QED
      BY <3>1, AppendProperties
  <2> HIDE DEF frame, e
  <2>6. Reads(stack', open')
    BY <1>1, <1>2, <2>1, <2>2, <2>3, <2>4, ReadsMore
  <2>7. Len(open') > 0
    BY <1>2, <2>2, <2>5
  <2> QED
    BY <1>1, <2>2, <2>6, <2>7 DEF BodyInv
<1> QED
  BY <1>3, <1>4

\* What an element is made of.
LEMMA ElementForm ==
    ASSUME NEW n \in Nat, NEW e \in Around(n), NEW c \in Body!Elements[n] \cup TextNode
    PROVE  /\ e.children \in Seq(Body!Elements[n] \cup TextNode)
           /\ [e EXCEPT !.children = Append(@, c)] \in Around(n)
           /\ Gains(e, [e EXCEPT !.children = Append(@, c)], c)
<1> DEFINE C == Body!Elements[n] \cup TextNode
           q == [e EXCEPT !.children = Append(@, c)]
<1>1. Around(n) = [name : Name, attributes : Attributes, children : Seq(C)]
  BY DEF Around, Body!ElementsOver, TextNode
<1>2. c \in C
  OBVIOUS
<1> HIDE DEF C
<1>3. /\ e.children \in Seq(C)
      /\ q = [name |-> e.name, attributes |-> e.attributes, children |-> Append(e.children, c)]
  <2>1. e.children \in Seq(C) /\ e = [name |-> e.name, attributes |-> e.attributes, children |-> e.children]
    BY <1>1
  <2> DEFINE w == Append(e.children, c)
  <2>2. q = [e EXCEPT !.children = w]
    OBVIOUS
  <2> HIDE DEF w, q
  <2>3. q = [name |-> e.name, attributes |-> e.attributes, children |-> w]
    BY <1>1, <2>2
  <2> QED
    BY <2>1, <2>3 DEF w
<1>4. Append(e.children, c) \in Seq(C)
  BY <1>2, <1>3, AppendProperties
<1>5. q \in Around(n)
  BY <1>1, <1>3, <1>4
<1> QED
  BY <1>3, <1>5 DEF C, Gains

LEMMA CharDataInv ==
    ASSUME Body!DepthAssumption, BodyInv, NEW c \in Text \cup {Blank}, Body!CharData(c)
    PROVE  BodyInv'
<1>1. phase \in {"prolog", "element"} /\ UNCHANGED <<truncated, phase, result>>
  BY DEF Body!CharData, Body!Token
<1>2. CASE phase # "element"
  <2>1. stack' = stack /\ open' = open
    BY <1>2 DEF Body!CharData
  <2> QED
    BY <1>1, <2>1 DEF BodyInv
<1>3. CASE phase = "element"
  <2> DEFINE n == Len(open)
             d == MaxXMLDepth - n
             p == open[n]
             node == [text |-> c]
             q == [p EXCEPT !.children = Append(@, node)]
             m == Body!Meaning[d]
             frame == FrameOf(p, m)
  <2>1. Reads(stack, open) /\ n > 0
    BY <1>3 DEF BodyInv
  <2>2. /\ n \in Nat /\ Len(stack) = n /\ d \in Nat /\ p \in Around(d)
    BY <2>1, ReadsLength, ReadsLess
  <2>3. stack[n] = frame /\ DOMAIN stack = 1 .. n
    <3>1. n \in 1 .. n
      BY <2>1, <2>2
    <3> QED
      BY <2>1, <3>1 DEF Reads
  <2>4. node \in TextNode /\ node.text = c
    BY DEF TextNode
  <2>5. /\ p.children \in Seq(Body!Elements[d] \cup TextNode)
        /\ q \in Around(d) /\ Gains(p, q, node)
    <3>1. node \in Body!Elements[d] \cup TextNode
      BY <2>4
    <3> HIDE DEF d, p, node
    <3> QED
      BY <2>2, <3>1, ElementForm
  <2>6. FrameOf(q, m) = [name |-> p.name, fields |-> Fields(p, m),
                         text |-> IF c = Blank THEN Parts(p) ELSE Append(Parts(p), c)]
    <3> DEFINE C == Body!Elements[d] \cup TextNode
    <3>1. node \in C /\ p.children \in Seq(C)
      BY <2>4, <2>5
    <3> HIDE DEF C, p, q, node, m
    <3>2. FrameOf(q, m) = AfterText(p, m, node)
      BY <2>4, <2>5, <3>1, TextMore
    <3> QED
      BY <2>4, <3>2 DEF AfterText
  <2>7. open' = [open EXCEPT ![n] = q]
    BY <1>3 DEF Body!CharData
  <2>8. stack' = [stack EXCEPT ![n] = FrameOf(q, m)]
    <3>1. frame = [name |-> p.name, text |-> Parts(p), fields |-> Fields(p, m)]
      BY DEF FrameOf
    <3> HIDE DEF q, m, p, frame
    <3>2. CASE c = Blank
      <4>1. stack' = stack
        BY <1>3, <3>2 DEF Body!CharData
      <4>2. FrameOf(q, m) = frame
        BY <2>6, <3>1, <3>2
      <4>3. stack = [i \in 1 .. n |-> stack[i]]
        BY <2>1, <2>3 DEF Reads
      <4> QED
        BY <2>3, <4>1, <4>2, <4>3
    <3>3. CASE c # Blank
      <4>1. stack' = [stack EXCEPT ![n] = [stack[n] EXCEPT !.text = Append(stack[n].text, c)]]
        BY <1>3, <2>2, <3>3 DEF Body!CharData
      <4>2. [frame EXCEPT !.text = Append(frame.text, c)] = FrameOf(q, m)
        BY <2>6, <3>1, <3>3
      <4> QED
        BY <2>3, <4>1, <4>2
    <3> QED
      BY <3>2, <3>3
  <2>9. Reads(stack', open')
    <3> DEFINE bottom == FrameOf(q, m)
    <3>1. bottom = FrameOf(q, Body!Meaning[MaxXMLDepth - n]) /\ q \in Around(MaxXMLDepth - n)
      BY <2>5
    <3> HIDE DEF bottom, q, n
    <3>2. Reads([stack EXCEPT ![n] = bottom], [open EXCEPT ![n] = q])
      BY <2>1, <3>1, ReadsOther DEF n
    <3> QED
      BY <2>7, <2>8, <3>2 DEF bottom
  <2>10. Len(open') = n
    <3> HIDE DEF q
    <3>1. open \in Seq(UNION {Around(k) : k \in Nat} \cup {q})
      BY <2>1 DEF Reads
    <3> QED
      BY <2>1, <2>2, <2>7, <3>1, ExceptSeq
  <2> QED
    BY <1>1, <1>3, <2>1, <2>9, <2>10 DEF BodyInv
<1> QED
  BY <1>2, <1>3

\* What the log shows of an element, by its level.
LEMMA Told ==
    ASSUME NEW n \in Nat
    PROVE  /\ Around(n) = Body!Elements[n + 1]
           /\ \A e \in Around(n) : Body!Meaning[n + 1][e] = Body!Element(FrameOf(e, Body!Meaning[n]))
           /\ \A e \in Around(n) : Body!Meaning[n + 1][e].kind # "list" /\ ~Body!IsText(e)
<1>1. Around(n) = Body!Elements[n + 1]
  BY ElementLevels DEF Around
<1> SUFFICES ASSUME NEW e \in Around(n)
             PROVE  /\ Body!Meaning[n + 1][e] = Body!Element(FrameOf(e, Body!Meaning[n]))
                    /\ Body!Meaning[n + 1][e].kind # "list" /\ ~Body!IsText(e)
  BY <1>1
<1> DEFINE m == Body!Meaning[n]
           C == Body!Elements[n] \cup TextNode
<1>2. Body!Meaning[n + 1][e] = Body!Shown(e, m)
  <2>1. Body!Meaning[n + 1] = Tells(Body!Elements[n + 1], m)
    BY ElementLevels
  <2> QED
    BY <1>1, <2>1 DEF Tells
<1>3. e.children \in Seq(C)
  BY DEF Around, Body!ElementsOver, TextNode
<1>4. Body!Element(FrameOf(e, m)) = Body!Shown(e, m)
  <2> HIDE DEF m, C
  <2> QED
    BY <1>3, ElementShown
<1>5. Body!Shown(e, m).kind # "list"
  <2> DEFINE frame == FrameOf(e, m)
  <2>1. \A f : Body!Object(f).kind = "object" /\ Body!String(f).kind = "string"
    BY DEF Body!Object, Body!String
  <2>2. \/ \E f : Body!Element(frame) = Body!Object(f)
        \/ \E f : Body!Element(frame) = Body!String(f)
    <3> HIDE DEF frame
    <3> QED
      BY DEF Body!Element
  <2> QED
    BY <1>4, <2>1, <2>2
<1>6. ~Body!IsText(e)
  <2>1. n + 1 \in Nat
    OBVIOUS
  <2> QED
    BY <1>1, <2>1, ChildForms
<1> QED
  BY <1>2, <1>4, <1>5, <1>6

\* The root's call returns.
LEMMA RootEnds ==
    ASSUME Body!DepthAssumption, BodyInv, Body!EndElement, Len(open) = 1 PROVE BodyInv'
<1> DEFINE D == MaxXMLDepth
           root == open[1]
           frame == FrameOf(root, Body!Meaning[D - 1])
           shown == Body!Object([k \in {Body!Child(root.name)} |-> Body!Meaning[D][root]])
<1>1. Reads(stack, open) /\ ~truncated /\ truncated \in BOOLEAN
  BY DEF BodyInv, Body!EndElement
<1>2. /\ D - 1 \in Nat /\ root \in Around(D - 1) /\ Body!Last(stack) = frame /\ Len(stack) = 1 /\ (D - 1) + 1 = D
  <2>1. D \in Nat
    BY DEF Body!DepthAssumption
  <2>2. Len(open) > 0
    OBVIOUS
  <2>3. /\ Body!Last(open) = open[Len(open)] /\ Body!Last(open) \in Around(MaxXMLDepth - Len(open))
        /\ MaxXMLDepth - Len(open) \in Nat
        /\ Body!Last(stack) = FrameOf(Body!Last(open), Body!Meaning[MaxXMLDepth - Len(open)])
    BY <1>1, <2>2, ReadsLess
  <2>4. Len(stack) = Len(open)
    BY <1>1, ReadsLength
  <2>5. (D - 1) + 1 = D
    BY <2>1
  <2> QED
    BY <2>3, <2>4, <2>5
<1>3. Body!Element(frame) = Body!Meaning[D][root]
  <2> HIDE DEF D, root
  <2> QED
    BY <1>2, Told
<1>4. frame.name = root.name
  BY DEF FrameOf
<1>5. Body!Front(stack) = <<>>
  <2>1. Len(open) > 0
    OBVIOUS
  <2>2. Reads(Body!Front(stack), Body!Front(open)) /\ Len(Body!Front(open)) = Len(open) - 1
    BY <1>1, <2>1, ReadsLess
  <2>3. ~(Len(Body!Front(open)) > 0)
    BY <2>2
  <2> QED
    BY <2>2, <2>3, ReadsNone
<1> HIDE DEF frame, root, D
<1>6. phase' = "done" /\ result' = shown /\ stack' = <<>> /\ open' = open /\ truncated' = truncated
  <2>1. result' = Body!Object([k \in {Body!Child(Body!Last(stack).name)} |-> Body!Element(Body!Last(stack))])
    BY <1>5 DEF Body!EndElement
  <2> QED
    BY <1>2, <1>3, <1>4, <1>5, <2>1 DEF Body!EndElement
<1>7. shown.kind = "object" /\ shown # Body!Marked
  BY Outcomes
<1>8. Ended'
  <2>1. shown = Body!Object([k \in {Body!Child(open[1].name)} |-> Body!Meaning[MaxXMLDepth][open[1]]])
    BY DEF root, D
  <2> HIDE DEF shown
  <2> QED
    BY <1>1, <1>6, <1>7, <2>1 DEF Ended
<1> QED
  BY <1>1, <1>6, <1>8 DEF BodyInv

\* Another call returns to the one for the parent.
LEMMA ChildEnds ==
    ASSUME Body!DepthAssumption, BodyInv, Body!EndElement, Len(open) > 1 PROVE BodyInv'
<1> DEFINE D == MaxXMLDepth
           n == Len(open)
           r == n - 1
           d == D - r
           x == Body!Last(open)
           p == open[r]
           q == [p EXCEPT !.children = Append(@, x)]
           m == Body!Meaning[d]
           s == Body!Front(stack)
           o == Body!Front(open)
           frame == FrameOf(p, m)
           value == Body!Element(Body!Last(stack))
           C == Body!Elements[d] \cup TextNode
<1>1. Reads(stack, open) /\ ~truncated /\ truncated \in BOOLEAN /\ phase = "element" /\ result = Body!Null
  BY DEF BodyInv, Body!EndElement
<1>2. n \in Nat /\ r \in Nat /\ r > 0 /\ D \in Nat /\ n =< D /\ d \in Nat /\ d - 1 = D - n /\ D - n \in Nat /\ (D - n) + 1 = d
  BY <1>1, ReadsLength DEF Body!DepthAssumption, Reads
<1>3. /\ x \in Around(D - n) /\ Body!Last(stack) = FrameOf(x, Body!Meaning[D - n])
      /\ Reads(s, o) /\ Len(o) = r /\ o[r] = p /\ p \in Around(d) /\ s[r] = frame
  BY <1>1, ReadsLess
<1>4. x \in Body!Elements[d] /\ ~Body!IsText(x) /\ value = m[x]
  <2>1. /\ Around(D - n) = Body!Elements[(D - n) + 1]
        /\ Body!Meaning[(D - n) + 1][x] = Body!Element(FrameOf(x, Body!Meaning[D - n]))
        /\ ~Body!IsText(x)
    <3> DEFINE k == D - n
    <3>1. k \in Nat /\ x \in Around(k)
      BY <1>2, <1>3
    <3> HIDE DEF k, x
    <3>2. /\ Around(k) = Body!Elements[k + 1]
          /\ Body!Meaning[k + 1][x] = Body!Element(FrameOf(x, Body!Meaning[k]))
          /\ ~Body!IsText(x)
      BY <3>1, Told
    <3> QED
      BY <3>2 DEF k
  <2> HIDE DEF n, x, D, d
  <2> QED
    BY <1>2, <1>3, <2>1
<1>5. ASSUME NEW c \in C, ~Body!IsText(c) PROVE m[c].kind # "list"
  <2>1. c \in Body!Elements[d]
    BY <1>2, <1>5, ChildForms
  <2>2. Body!Elements[d] = Around(D - n) /\ \A e \in Around(D - n) : Body!Meaning[(D - n) + 1][e].kind # "list"
    <3> DEFINE k == D - n
    <3>1. k \in Nat /\ k + 1 = d
      BY <1>2
    <3> HIDE DEF k, d
    <3>2. Body!Elements[d] = Around(k) /\ \A e \in Around(k) : Body!Meaning[k + 1][e].kind # "list"
      BY <3>1, Told
    <3> QED
      BY <3>2 DEF k
  <2> HIDE DEF n, D, d
  <2> QED
    BY <1>2, <2>1, <2>2
<1>6. p.children \in Seq(C) /\ q \in Around(d) /\ Gains(p, q, x)
  <2> HIDE DEF d, p, x
  <2> QED
    BY <1>2, <1>3, <1>4, ElementForm
<1>7. FrameOf(q, m) = AfterChild(p, m, x)
  <2>1. x \in C
    BY <1>4
  <2> HIDE DEF q, p, x, m, C
  <2> QED
    BY <1>4, <1>5, <1>6, <2>1, ChildMore
<1>8. Len(s) = r /\ s # <<>>
  <2>1. Len(s) = r
    BY <1>3, ReadsLength
  <2>2. s # <<>>
    <3> SUFFICES ASSUME s = <<>> PROVE FALSE
      OBVIOUS
    <3>1. Len(s) = 0
      BY EmptySeq
    <3> HIDE DEF s, r
    <3> QED
      BY <1>2, <2>1, <3>1
  <2> QED
    BY <2>1, <2>2
<1> HIDE DEF value
<1>9. /\ stack' = [s EXCEPT ![Len(s)].fields = Body!appendXMLChild(@, Body!Child(Body!Last(stack).name), value)]
      /\ open' = [o EXCEPT ![Len(s)].children = Append(@, x)]
      /\ UNCHANGED <<phase, result, truncated>>
  <2>1. Body!Front(stack) # <<>>
    BY <1>8
  <2> QED
    BY <2>1 DEF Body!EndElement, value
<1>10. Body!Last(stack).name = x.name
  <2>1. FrameOf(x, Body!Meaning[D - n]).name = x.name
    BY DEF FrameOf
  <2> QED
    BY <1>3, <2>1
<1> HIDE DEF s, o, x
<1>11. open' = [o EXCEPT ![r] = q]
  BY <1>3, <1>8, <1>9
<1>12. stack' = [s EXCEPT ![r] = FrameOf(q, m)]
  <2>1. stack' = [s EXCEPT ![r] = [s[r] EXCEPT !.fields = Body!appendXMLChild(s[r].fields, Body!Child(x.name), value)]]
    BY <1>8, <1>9, <1>10
  <2>2. frame = [name |-> p.name, text |-> Parts(p), fields |-> Fields(p, m)]
    BY DEF FrameOf
  <2> HIDE DEF q, p, m, r, frame
  <2>3. [frame EXCEPT !.fields = Body!appendXMLChild(frame.fields, Body!Child(x.name), value)] = AfterChild(p, m, x)
    BY <1>4, <2>2 DEF AfterChild
  <2> QED
    BY <1>3, <1>7, <2>1, <2>3
<1>13. Reads(stack', open')
  <2> DEFINE bottom == FrameOf(q, m)
  <2>1. bottom = FrameOf(q, Body!Meaning[MaxXMLDepth - r]) /\ q \in Around(MaxXMLDepth - r)
    BY <1>6
  <2> HIDE DEF bottom, q, r
  <2>2. Reads([s EXCEPT ![r] = bottom], [o EXCEPT ![r] = q])
    BY <1>2, <1>3, <2>1, ReadsOther
  <2> QED
    BY <1>11, <1>12, <2>2 DEF bottom
<1>14. Len(open') = r
  <2> HIDE DEF q, r
  <2>1. o \in Seq(UNION {Around(k) : k \in Nat} \cup {q})
    BY <1>3 DEF Reads
  <2> QED
    BY <1>2, <1>3, <1>11, <2>1, ExceptSeq
<1> HIDE DEF r
<1> QED
  BY <1>1, <1>2, <1>9, <1>13, <1>14 DEF BodyInv

LEMMA BodyStep ==
    ASSUME Body!DepthAssumption, BodyInv, Body!Next PROVE BodyInv'
<1>1. CASE Body!ParseBody
  BY <1>1, ParseBodyInv
<1>2. CASE Body!DecodeFails
  BY <1>2, DecodeFailsInv
<1>3. ASSUME NEW name \in Name, NEW attributes \in Attributes, Body!StartElement(name, attributes) PROVE BodyInv'
  BY <1>3, StartElementInv
<1>4. ASSUME NEW c \in Text \cup {Blank}, Body!CharData(c) PROVE BodyInv'
  BY <1>4, CharDataInv
<1>5. CASE Body!EndElement
  <2>1. Reads(stack, open) /\ Len(open) > 0
    BY <1>5 DEF BodyInv, Body!EndElement
  <2>2. Len(open) \in Nat
    BY <2>1, ReadsLength
  <2>3. Len(open) = 1 \/ Len(open) > 1
    BY <2>1, <2>2
  <2> QED
    BY <1>5, <2>3, RootEnds, ChildEnds
<1> QED
  BY <1>1, <1>2, <1>3, <1>4, <1>5 DEF Body!Next

LEMMA BodyShown ==
    ASSUME Body!DepthAssumption, BodyInv PROVE Body!TypeOK /\ Body!XMLIsComplete /\ Body!TruncationShows
<1>1. Body!TypeOK
  <2>1. Len(stack) =< MaxXMLDepth
    <3>1. CASE phase = "done"
      <4>1. Len(stack) = 0
        BY <3>1, EmptySeq DEF BodyInv
      <4> QED
        BY <4>1 DEF Body!DepthAssumption
    <3>2. CASE phase # "done"
      <4>1. Len(stack) = Len(open) /\ Len(open) =< MaxXMLDepth
        BY <3>2, ReadsLength DEF BodyInv, Reads
      <4> QED
        BY <4>1
    <3> QED
      BY <3>1, <3>2
  <2>2. phase = "element" => Len(stack) = Len(open) /\ \A i \in DOMAIN stack : stack[i].name = open[i].name
    <3> SUFFICES ASSUME phase = "element" PROVE Len(stack) = Len(open) /\ \A i \in DOMAIN stack : stack[i].name = open[i].name
      OBVIOUS
    <3>1. Reads(stack, open)
      BY DEF BodyInv
    <3>2. Len(stack) = Len(open)
      BY <3>1, ReadsLength
    <3>3. ASSUME NEW i \in DOMAIN stack PROVE stack[i].name = open[i].name
      <4>1. stack[i] = FrameOf(open[i], Body!Meaning[MaxXMLDepth - i])
        BY <3>1 DEF Reads
      <4> QED
        BY <4>1 DEF FrameOf
    <3> QED
      BY <3>2, <3>3
  <2>3. result.kind \in {"null", "raw", "parsed", "object"}
    BY Outcomes DEF BodyInv, Ended
  <2> QED
    BY <2>1, <2>2, <2>3 DEF BodyInv, Body!TypeOK
<1>2. Body!XMLIsComplete
  <2>1. Body!Null.kind # "object"
    BY Outcomes
  <2> QED
    BY <2>1 DEF BodyInv, Ended, Body!XMLIsComplete
<1>3. Body!TruncationShows
  BY DEF BodyInv, Ended, Body!TruncationShows
<1> QED
  BY <1>1, <1>2, <1>3

----------------------------------------------------------------------------
(* The newline.  The summary as encoding/json writes it is the escaped     *)
(* characters one behind the other; the scan is always between two of      *)
(* them, or behind the backslash of one.                                   *)

\* f joins the first sequences of q.
Joins(q, f) == f = [i \in 1 .. Len(q) |-> IF i = 1 THEN q[i] ELSE f[i - 1] \o q[i]]

LEMMA JoinExists ==
    ASSUME NEW C, NEW q \in Seq(Seq(C))
    PROVE  \E f : Joins(q, f)
<1> DEFINE none == <<>>
           S == Seq(C)
           g == [n \in Nat |-> [x \in S |-> IF n < Len(q) THEN x \o q[n + 1] ELSE x]]
<1>1. Len(q) \in Nat /\ \A n \in 1 .. Len(q) : q[n] \in S
  <2> HIDE DEF S
  <2> QED
    BY LenProperties, ElementOfSeq DEF S
<1>2. ASSUME NEW n \in Nat, NEW x \in S PROVE (IF n < Len(q) THEN x \o q[n + 1] ELSE x) \in S
  <2>1. CASE n < Len(q)
    <3>1. n + 1 \in 1 .. Len(q)
      BY <1>1, <2>1
    <3>2. q[n + 1] \in Seq(C)
      BY <1>1, <3>1
    <3>3. x \o q[n + 1] \in Seq(C)
      BY <3>2, ConcatProperties
    <3> QED
      BY <2>1, <3>3
  <2>2. CASE ~(n < Len(q))
    BY <2>2
  <2> QED
    BY <2>1, <2>2
<1>3. none \in S
  BY EmptySeq
<1>4. g \in [Nat -> [S -> S]]
  <2> HIDE DEF S
  <2> QED
    BY <1>2
<1>5. PICK F \in [Nat -> S] : Unfolds(F, none, g)
  <2> HIDE DEF S, g, none
  <2> QED
    BY <1>3, <1>4, Recursion
<1>6. ASSUME NEW n \in 1 .. Len(q) PROVE F[n] = F[n - 1] \o q[n]
  <2>1. n - 1 \in Nat /\ (n - 1) + 1 = n /\ n - 1 < Len(q)
    BY <1>1
  <2>2. F[n] = g[n - 1][F[n - 1]] /\ F[n - 1] \in S
    <3> HIDE DEF g, S
    <3> QED
      BY <1>5, <2>1 DEF Unfolds
  <2> HIDE DEF S
  <2> QED
    BY <2>1, <2>2
<1>7. F[0] = none
  BY <1>5 DEF Unfolds
<1>8. 1 =< Len(q) => F[1] = q[1]
  <2> SUFFICES ASSUME 1 =< Len(q) PROVE F[1] = q[1]
    OBVIOUS
  <2>1. 1 \in 1 .. Len(q) /\ 1 - 1 = 0
    BY <1>1
  <2>2. F[1] = F[1 - 1] \o q[1] /\ q[1] \in S
    BY <1>1, <1>6, <2>1
  <2>3. none \o q[1] = q[1]
    BY <2>2, ConcatEmptySeq
  <2> QED
    BY <1>7, <2>1, <2>2, <2>3
<1> DEFINE f == [n \in 1 .. Len(q) |-> F[n]]
<1>9. ASSUME NEW i \in 1 .. Len(q) PROVE f[i] = IF i = 1 THEN q[i] ELSE f[i - 1] \o q[i]
  <2>1. i # 1 => i - 1 \in 1 .. Len(q)
    BY <1>1
  <2>2. f[i] = F[i] /\ (i # 1 => f[i - 1] = F[i - 1])
    BY <2>1
  <2>3. F[i] = F[i - 1] \o q[i]
    BY <1>6, Zenon
  <2>4. 1 =< Len(q)
    BY <1>1
  <2> HIDE DEF f
  <2> QED
    BY <1>8, <2>2, <2>3, <2>4
<1>10. Joins(q, f)
  <2>1. f = [i \in 1 .. Len(q) |-> f[i]]
    OBVIOUS
  <2> HIDE DEF f
  <2> QED
    BY <1>9, <2>1 DEF Joins
<1> QED
  BY <1>10

\* The sequences of q stand in w at these places, one behind the other.
Places(q, w, at) ==
    /\ at \in [0 .. Len(q) -> Nat]
    /\ at[0] = 0 /\ at[Len(q)] = Len(w)
    /\ \A m \in 1 .. Len(q) :
           /\ at[m] = at[m - 1] + Len(q[m])
           /\ \A k \in 1 .. Len(q[m]) : w[at[m - 1] + k] = q[m][k]

LEMMA Flattened ==
    ASSUME NEW C, NEW q \in Seq(Seq(C)), Len(q) > 0
    PROVE  Cloud!FlattenSeq(q) \in Seq(C) /\ \E at : Places(q, Cloud!FlattenSeq(q), at)
<1> DEFINE E(f) == [i \in 1 .. Len(q) |-> IF i = 1 THEN q[i] ELSE f[i - 1] \o q[i]]
           c == CHOOSE f : f = E(f)
           n == Len(q)
<1>1. Cloud!FlattenSeq(q) = c[n]
  BY DEF Cloud!FlattenSeq
<1>2. Joins(q, c)
  <2>1. PICK f : f = E(f)
    BY JoinExists DEF Joins
  <2>2. c = E(c)
    <3> HIDE DEF E
    <3> QED
      BY <2>1, Zenon
  <2> HIDE DEF c
  <2> QED
    BY <2>2 DEF Joins
<1> HIDE DEF c
<1>3. n \in Nat /\ \A m \in 1 .. n : q[m] \in Seq(C)
  BY LenProperties, ElementOfSeq
<1>4. ASSUME NEW i \in 1 .. n PROVE c[i] = IF i = 1 THEN q[i] ELSE c[i - 1] \o q[i]
  BY <1>2, Zenon DEF Joins
<1> DEFINE Good(m) == /\ c[m] \in Seq(C)
                      /\ \A j \in 1 .. m : Len(c[j]) =< Len(c[m]) /\ \A k \in 1 .. Len(c[j]) : c[m][k] = c[j][k]
           T == {m \in 1 .. n : ~Good(m)}
<1>5. ASSUME NEW m \in 1 .. n, m # 1, c[m - 1] \in Seq(C)
      PROVE  /\ c[m] \in Seq(C) /\ Len(c[m]) = Len(c[m - 1]) + Len(q[m])
             /\ Len(c[m - 1]) \in Nat /\ Len(q[m]) \in Nat
             /\ Len(c[m - 1]) =< Len(c[m]) /\ Len(c[m]) \in Nat
             /\ \A k \in 1 .. Len(c[m - 1]) : c[m][k] = c[m - 1][k]
             /\ \A k \in 1 .. Len(q[m]) : c[m][Len(c[m - 1]) + k] = q[m][k]
  <2> DEFINE x == c[m - 1]
             y == q[m]
             z == x \o y
  <2>1. c[m] = z /\ x \in Seq(C) /\ y \in Seq(C)
    BY <1>3, <1>4, <1>5
  <2>2. Len(x) \in Nat /\ Len(y) \in Nat
    <3> HIDE DEF x, y
    <3> QED
      BY <2>1, LenProperties
  <2> HIDE DEF x, y
  <2>3. /\ z \in Seq(C) /\ Len(z) = Len(x) + Len(y)
        /\ \A i \in 1 .. Len(x) + Len(y) : z[i] = IF i <= Len(x) THEN x[i] ELSE y[i - Len(x)]
    BY <2>1, ConcatProperties
  <2> HIDE DEF z
  <2>4. \A k \in 1 .. Len(x) : z[k] = x[k]
    BY <2>2, <2>3
  <2>5. ASSUME NEW k \in 1 .. Len(y) PROVE z[Len(x) + k] = y[k]
    <3>1. /\ Len(x) + k \in 1 .. Len(x) + Len(y) /\ ~(Len(x) + k <= Len(x))
          /\ (Len(x) + k) - Len(x) = k
      BY <2>2
    <3>2. z[Len(x) + k] = y[(Len(x) + k) - Len(x)]
      BY <2>3, <3>1
    <3> QED
      BY <3>1, <3>2
  <2>6. Len(x) =< Len(z) /\ Len(z) \in Nat
    BY <2>2, <2>3
  <2> QED
    BY <2>1, <2>2, <2>3, <2>4, <2>5, <2>6 DEF x, y
<1>6. T = {}
  <2> SUFFICES ASSUME T # {} PROVE FALSE
    OBVIOUS
  <2>1. PICK m \in T : \A j \in T : m =< j
    <3>1. T \subseteq Nat
      OBVIOUS
    <3> HIDE DEF T
    <3> QED
      BY <3>1, LeastElement
  <2>2. m \in 1 .. n /\ ~Good(m)
    BY <2>1
  <2>3. CASE m = 1
    <3>1. c[1] \in Seq(C)
      BY <1>3, <1>4, <2>2, <2>3
    <3>2. Len(c[1]) \in Nat
      BY <3>1, LenProperties
    <3> QED
      BY <2>2, <2>3, <3>1, <3>2
  <2>4. CASE m # 1
    <3>1. m - 1 \in 1 .. n /\ m - 1 \notin T
      BY <1>3, <2>1, <2>2, <2>4
    <3>2. Good(m - 1)
      BY <3>1
    <3>3. /\ c[m] \in Seq(C) /\ Len(c[m - 1]) =< Len(c[m]) /\ Len(c[m]) \in Nat /\ Len(c[m - 1]) \in Nat
          /\ \A k \in 1 .. Len(c[m - 1]) : c[m][k] = c[m - 1][k]
      <4>1. c[m - 1] \in Seq(C)
        BY <3>2
      <4> HIDE DEF Good, T
      <4>2. /\ c[m] \in Seq(C) /\ Len(c[m - 1]) =< Len(c[m]) /\ Len(c[m]) \in Nat /\ Len(c[m - 1]) \in Nat
            /\ \A k \in 1 .. Len(c[m - 1]) : c[m][k] = c[m - 1][k]
        BY <1>5, <2>2, <2>4, <4>1
      <4> QED
        BY <4>2
    <3>4. ASSUME NEW j \in 1 .. m
          PROVE  Len(c[j]) =< Len(c[m]) /\ \A k \in 1 .. Len(c[j]) : c[m][k] = c[j][k]
      <4>1. CASE j = m
        BY <3>3, <4>1
      <4>2. CASE j # m
        <5>1. j \in 1 .. m - 1
          BY <2>2, <4>2
        <5>2. Len(c[j]) =< Len(c[m - 1]) /\ (\A k \in 1 .. Len(c[j]) : c[m - 1][k] = c[j][k]) /\ Len(c[j]) \in Int
          <6>1. j \in 1 .. n /\ j \notin T
            BY <1>3, <2>1, <2>2, <5>1
          <6>2. Len(c[j]) \in Nat
            BY <6>1, LenProperties
          <6> QED
            BY <3>2, <5>1, <6>2
        <5>3. \A k \in 1 .. Len(c[j]) : k \in 1 .. Len(c[m - 1])
          BY <3>3, <5>2
        <5> HIDE DEF T, Good
        <5> QED
          BY <3>3, <5>2, <5>3
      <4> QED
        BY <4>1, <4>2
    <3> QED
      BY <2>2, <3>3, <3>4
  <2> QED
    BY <2>3, <2>4
<1>7. \A m \in 1 .. n : Good(m)
  BY <1>6
<1> DEFINE at == [m \in 0 .. n |-> IF m = 0 THEN 0 ELSE Len(c[m])]
<1>8. at \in [0 .. n -> Nat]
  <2>1. \A m \in 1 .. n : Len(c[m]) \in Nat
    BY <1>7, LenProperties
  <2> HIDE DEF Good
  <2> QED
    BY <1>3, <2>1
<1>9. ASSUME NEW m \in 1 .. n
      PROVE  /\ at[m] = at[m - 1] + Len(q[m]) /\ Len(q[m]) \in Nat
             /\ \A k \in 1 .. Len(q[m]) : c[m][at[m - 1] + k] = q[m][k]
  <2>1. CASE m = 1
    <3>1. at[m] = Len(c[1]) /\ at[m - 1] = 0 /\ c[1] = q[1]
      BY <1>3, <1>4, <2>1
    <3>2. Len(q[1]) \in Nat
      BY <1>3, <2>1, LenProperties
    <3> HIDE DEF at, Good
    <3> QED
      BY <2>1, <3>1, <3>2
  <2>2. CASE m # 1
    <3>1. m - 1 \in 1 .. n /\ at[m] = Len(c[m]) /\ at[m - 1] = Len(c[m - 1])
      BY <1>3, <2>2
    <3>2. c[m - 1] \in Seq(C)
      BY <1>7, <3>1
    <3> HIDE DEF at, Good
    <3> QED
      BY <1>5, <2>2, <3>1, <3>2
  <2> QED
    BY <2>1, <2>2
<1>10. n \in 1 .. n
  BY <1>3
<1>11. ASSUME NEW m \in 1 .. n, NEW k \in 1 .. Len(q[m]) PROVE c[n][at[m - 1] + k] = q[m][k]
  <2>1. m - 1 \in 0 .. n /\ at[m - 1] \in Nat /\ at[m] = Len(c[m])
    BY <1>3, <1>8
  <2>2. at[m] = at[m - 1] + Len(q[m]) /\ Len(q[m]) \in Nat /\ c[m][at[m - 1] + k] = q[m][k]
    BY <1>9
  <2>3. at[m - 1] + k \in 1 .. Len(c[m])
    <3> HIDE DEF at
    <3> QED
      BY <2>1, <2>2
  <2>4. \A i \in 1 .. Len(c[m]) : c[n][i] = c[m][i]
    BY <1>7, <1>10
  <2> HIDE DEF at, Good
  <2> QED
    BY <2>2, <2>3, <2>4
<1>12. Places(q, c[n], at)
  <2>1. at[0] = 0 /\ at[n] = Len(c[n])
    BY <1>3
  <2> HIDE DEF at, Good
  <2> QED
    BY <1>8, <1>9, <1>11, <2>1 DEF Places
<1>13. c[n] \in Seq(C)
  BY <1>7, <1>10
<1> HIDE DEF at
<1> QED
  BY <1>1, <1>12, <1>13

\* A summary's characters as they are written, each by itself and together.
Escaped(s) == [i \in DOMAIN s |-> Cloud!Escape(s[i])]
Inside(s)  == Cloud!FlattenSeq(Escaped(s))

LEMMA EscapeSeq == ASSUME NEW c \in Cloud!Character PROVE Cloud!Escape(c) \in Seq(Cloud!Character)
<1> DEFINE C == Cloud!Character
<1>1. "backslash" \in C
  BY DEF Cloud!Character
<1> HIDE DEF C
<1>2. <<c>> \in Seq(C) /\ <<"backslash", c>> \in Seq(C)
  BY <1>1 DEF C
<1> QED
  BY <1>2 DEF Cloud!Escape, C

LEMMA EscapedForm ==
    ASSUME NEW s \in Seq(Cloud!Character), s # <<>>
    PROVE  /\ Len(s) \in Nat /\ Len(s) > 0 /\ Len(Escaped(s)) = Len(s)
           /\ \A m \in 1 .. Len(s) : Escaped(s)[m] = Cloud!Escape(s[m]) /\ s[m] \in Cloud!Character
           /\ Inside(s) \in Seq(Cloud!Character)
           /\ \E at : Places(Escaped(s), Inside(s), at)
<1> DEFINE C == Cloud!Character
           q == Escaped(s)
<1>1. Len(s) \in Nat /\ DOMAIN s = 1 .. Len(s) /\ \A m \in 1 .. Len(s) : s[m] \in C
  BY LenProperties, ElementOfSeq
<1>2. Len(s) > 0
  <2>1. Len(s) # 0
    BY EmptySeq
  <2> QED
    BY <1>1, <2>1
<1>3. ASSUME NEW c \in C PROVE Cloud!Escape(c) \in Seq(C)
  BY EscapeSeq
<1>4. q \in [1 .. Len(s) -> Seq(C)] /\ \A m \in 1 .. Len(s) : q[m] = Cloud!Escape(s[m])
  BY <1>1, <1>3 DEF Escaped
<1>5. q \in Seq(Seq(C)) /\ Len(q) = Len(s)
  <2> HIDE DEF q, C
  <2> QED
    BY <1>1, <1>4
<1>6. Inside(s) \in Seq(C) /\ \E at : Places(q, Inside(s), at)
  <2> HIDE DEF q, C
  <2>1. Cloud!FlattenSeq(q) \in Seq(C) /\ \E at : Places(q, Cloud!FlattenSeq(q), at)
    BY <1>2, <1>5, Flattened
  <2> QED
    BY <2>1 DEF Inside, q
<1> QED
  BY <1>1, <1>2, <1>4, <1>5, <1>6

\* z is x with y behind it.
Follows(x, y, z) ==
    /\ Len(x) \in Nat /\ Len(y) \in Nat /\ Len(z) = Len(x) + Len(y)
    /\ \A k \in 1 .. Len(x) : z[k] = x[k]
    /\ \A k \in 1 .. Len(y) : z[Len(x) + k] = y[k]

LEMMA Joined ==
    ASSUME NEW C, NEW x \in Seq(C), NEW y \in Seq(C)
    PROVE  x \o y \in Seq(C) /\ Follows(x, y, x \o y)
<1> DEFINE z == x \o y
<1>1. Len(x) \in Nat /\ Len(y) \in Nat
  BY LenProperties
<1>2. /\ z \in Seq(C) /\ Len(z) = Len(x) + Len(y)
      /\ \A i \in 1 .. Len(x) + Len(y) : z[i] = IF i <= Len(x) THEN x[i] ELSE y[i - Len(x)]
  BY ConcatProperties
<1> HIDE DEF z
<1>3. \A k \in 1 .. Len(x) : z[k] = x[k]
  BY <1>1, <1>2
<1>4. ASSUME NEW k \in 1 .. Len(y) PROVE z[Len(x) + k] = y[k]
  <2>1. Len(x) + k \in 1 .. Len(x) + Len(y) /\ ~(Len(x) + k <= Len(x)) /\ (Len(x) + k) - Len(x) = k
    BY <1>1
  <2>2. z[Len(x) + k] = y[(Len(x) + k) - Len(x)]
    BY <1>2, <2>1
  <2> QED
    BY <2>1, <2>2
<1> QED
  BY <1>1, <1>2, <1>3, <1>4 DEF z, Follows

LEMMA Singles == ASSUME NEW C, NEW c \in C PROVE <<c>> \in Seq(C) /\ Len(<<c>>) = 1 /\ <<c>>[1] = c
OBVIOUS

\* A string between its quotes.
LEMMA StringForm ==
    ASSUME NEW s \in Seq(Cloud!Character), s # <<>>
    PROVE  /\ Cloud!JSON(s) \in Seq(Cloud!Character)
           /\ Len(Inside(s)) \in Nat /\ Len(Cloud!JSON(s)) = Len(Inside(s)) + 2
           /\ Cloud!JSON(s)[1] = "quote" /\ Cloud!JSON(s)[Len(Inside(s)) + 2] = "quote"
           /\ \A k \in 1 .. Len(Inside(s)) : Cloud!JSON(s)[1 + k] = Inside(s)[k]
<1> DEFINE C == Cloud!Character
           T == Inside(s)
           a == <<"quote">>
           x == a \o T
           j == x \o a
<1>1. Cloud!JSON(s) = j
  BY DEF Cloud!JSON, Inside, Escaped
<1>2. T \in Seq(C)
  BY EscapedForm
<1>3. a \in Seq(C) /\ Len(a) = 1 /\ a[1] = "quote"
  <2>1. "quote" \in C
    BY DEF Cloud!Character
  <2> HIDE DEF C
  <2> QED
    BY <2>1, Singles
<1> HIDE DEF C, T, a
<1>4. /\ x \in Seq(C) /\ Len(T) \in Nat /\ Len(x) = 1 + Len(T)
      /\ x[1] = "quote" /\ \A k \in 1 .. Len(T) : x[1 + k] = T[k]
  <2>1. x \in Seq(C) /\ Follows(a, T, x)
    BY <1>2, <1>3, Joined
  <2> HIDE DEF x
  <2> QED
    BY <1>3, <2>1 DEF Follows
<1> HIDE DEF x
<1>5. /\ j \in Seq(C) /\ Len(j) = Len(x) + 1
      /\ \A k \in 1 .. Len(x) : j[k] = x[k]
      /\ j[Len(x) + 1] = "quote"
  <2>1. j \in Seq(C) /\ Follows(x, a, j)
    BY <1>3, <1>4, Joined
  <2> HIDE DEF j
  <2> QED
    BY <1>3, <2>1 DEF Follows
<1> HIDE DEF j
<1>6. j[1] = "quote" /\ j[Len(T) + 2] = "quote" /\ Len(j) = Len(T) + 2
  <2>1. 1 \in 1 .. Len(x) /\ Len(x) + 1 = Len(T) + 2
    BY <1>4
  <2> QED
    BY <1>4, <1>5, <2>1
<1>7. ASSUME NEW k \in 1 .. Len(T) PROVE j[1 + k] = T[k]
  <2>1. 1 + k \in 1 .. Len(x)
    BY <1>4
  <2> QED
    BY <1>4, <1>5, <2>1
<1>8. Len(T) \in Nat /\ j \in Seq(C)
  BY <1>4, <1>5
<1> QED
  BY <1>1, <1>6, <1>7, <1>8 DEF T, C

\* The name of a field.
LEMMA NameForm ==
    LET j == Cloud!JSON(<<"other">>)
    IN  j \in Seq(Cloud!Character) /\ Len(j) = 3 /\ j[1] = "quote" /\ j[2] = "other" /\ j[3] = "quote"
<1> DEFINE s == <<"other">>
           T == Inside(s)
           j == Cloud!JSON(s)
<1>1. s \in Seq(Cloud!Character) /\ Len(s) = 1 /\ s[1] = "other" /\ s # <<>>
  <2>1. "other" \in Cloud!Character
    BY DEF Cloud!Character
  <2>2. s \in Seq(Cloud!Character) /\ Len(s) = 1 /\ s[1] = "other"
    BY <2>1, Singles
  <2>3. s # <<>>
    OBVIOUS
  <2> QED
    BY <2>2, <2>3
<1> HIDE DEF s
<1>2. PICK at : Places(Escaped(s), T, at)
  BY <1>1, EscapedForm
<1>3. Len(Escaped(s)) = 1 /\ Escaped(s)[1] = <<"other">>
  <2>1. Len(Escaped(s)) = Len(s) /\ \A m \in 1 .. Len(s) : Escaped(s)[m] = Cloud!Escape(s[m])
    BY <1>1, EscapedForm
  <2>2. Cloud!Escape("other") = <<"other">>
    BY DEF Cloud!Escape
  <2> QED
    BY <1>1, <2>1, <2>2
<1>4. Len(T) = 1 /\ T[1] = "other"
  <2> DEFINE q == Escaped(s)
             e == q[1]
  <2>1. Len(e) = 1 /\ e[1] = "other"
    BY <1>3
  <2> HIDE DEF q, T, e
  <2>2. at[0] = 0 /\ at[1] = Len(T) /\ at[1] = at[1 - 1] + Len(e) /\ \A k \in 1 .. Len(e) : T[at[1 - 1] + k] = e[k]
    BY <1>2, <1>3 DEF Places, q, e
  <2> QED
    BY <2>1, <2>2
<1>5. /\ j \in Seq(Cloud!Character) /\ Len(j) = Len(T) + 2
      /\ j[1] = "quote" /\ j[Len(T) + 2] = "quote" /\ \A k \in 1 .. Len(T) : j[1 + k] = T[k]
  BY <1>1, StringForm
<1> HIDE DEF T, j
<1>6. Len(j) = 3 /\ j[3] = "quote" /\ j[2] = "other"
  BY <1>4, <1>5
<1> QED
  BY <1>5, <1>6 DEF j, s

\* A field: a name, something between and a string.
LEMMA FieldForm ==
    ASSUME NEW s \in Seq(Cloud!Character), s # <<>>
    PROVE  /\ Cloud!Field(s) \in Seq(Cloud!Character) /\ Len(Cloud!Field(s)) = Len(Inside(s)) + 6
           /\ Len(Inside(s)) \in Nat
           /\ Cloud!Field(s)[1] = "quote" /\ Cloud!Field(s)[2] = "other" /\ Cloud!Field(s)[3] = "quote"
           /\ Cloud!Field(s)[4] = "other" /\ Cloud!Field(s)[5] = "quote"
           /\ \A k \in 1 .. Len(Inside(s)) : Cloud!Field(s)[5 + k] = Inside(s)[k]
           /\ Cloud!Field(s)[Len(Inside(s)) + 6] = "quote"
<1> DEFINE C == Cloud!Character
           T == Inside(s)
           a == Cloud!JSON(<<"other">>)
           b == <<"other">>
           c == Cloud!JSON(s)
           x == a \o b
           f == x \o c
<1>1. Cloud!Field(s) = f
  BY DEF Cloud!Field
<1>2. a \in Seq(C) /\ Len(a) = 3 /\ a[1] = "quote" /\ a[2] = "other" /\ a[3] = "quote"
  BY NameForm
<1>3. b \in Seq(C) /\ Len(b) = 1 /\ b[1] = "other"
  <2>1. "other" \in C
    BY DEF Cloud!Character
  <2> HIDE DEF C
  <2> QED
    BY <2>1, Singles
<1>4. /\ c \in Seq(C) /\ Len(T) \in Nat /\ Len(c) = Len(T) + 2
      /\ c[1] = "quote" /\ c[Len(T) + 2] = "quote" /\ \A k \in 1 .. Len(T) : c[1 + k] = T[k]
  BY StringForm
<1> HIDE DEF C, T, a, b, c
<1>5. x \in Seq(C) /\ Len(x) = 4 /\ x[1] = "quote" /\ x[2] = "other" /\ x[3] = "quote" /\ x[4] = "other"
  <2>1. x \in Seq(C) /\ Follows(a, b, x)
    BY <1>2, <1>3, Joined
  <2> HIDE DEF x
  <2> QED
    BY <1>2, <1>3, <2>1 DEF Follows
<1> HIDE DEF x
<1>6. /\ f \in Seq(C) /\ Len(f) = Len(x) + Len(c)
      /\ \A k \in 1 .. Len(x) : f[k] = x[k]
      /\ \A k \in 1 .. Len(c) : f[Len(x) + k] = c[k]
  <2>1. f \in Seq(C) /\ Follows(x, c, f)
    BY <1>4, <1>5, Joined
  <2> QED
    BY <2>1 DEF Follows
<1> HIDE DEF f
<1>7. /\ Len(f) = Len(T) + 6 /\ f[1] = "quote" /\ f[2] = "other" /\ f[3] = "quote" /\ f[4] = "other"
  BY <1>4, <1>5, <1>6
<1>8. f[5] = "quote" /\ f[Len(T) + 6] = "quote"
  <2>1. 1 \in 1 .. Len(c) /\ Len(T) + 2 \in 1 .. Len(c) /\ 4 + 1 = 5 /\ 4 + (Len(T) + 2) = Len(T) + 6
    BY <1>4
  <2>2. f[4 + 1] = c[1] /\ f[4 + (Len(T) + 2)] = c[Len(T) + 2]
    BY <1>5, <1>6, <2>1
  <2> QED
    BY <1>4, <2>1, <2>2
<1>9. ASSUME NEW k \in 1 .. Len(T) PROVE f[5 + k] = T[k]
  <2>1. 1 + k \in 1 .. Len(c) /\ 4 + (1 + k) = 5 + k
    BY <1>4
  <2>2. f[4 + (1 + k)] = c[1 + k]
    BY <1>5, <1>6, <2>1
  <2> QED
    BY <1>4, <2>1, <2>2
<1>10. f \in Seq(C) /\ Len(T) \in Nat
  BY <1>4, <1>6
<1> QED
  BY <1>1, <1>7, <1>8, <1>9, <1>10 DEF T, C

\* How an entry that has this summary begins.
Laid(b, s) ==
    /\ Len(b) >= Len(Inside(s)) + 8
    /\ b[1] = "other" /\ b[2] = "quote" /\ b[3] = "other" /\ b[4] = "quote" /\ b[5] = "other" /\ b[6] = "quote"
    /\ \A k \in 1 .. Len(Inside(s)) : b[6 + k] = Inside(s)[k]
    /\ b[Len(Inside(s)) + 7] = "quote" /\ b[Len(Inside(s)) + 8] = "comma"

\* What follows changes nothing of that.
LEMMA LaidMore ==
    ASSUME NEW s \in Seq(Cloud!Character), s # <<>>, NEW b \in Seq(Cloud!Character), Laid(b, s),
           NEW y \in Seq(Cloud!Character)
    PROVE  b \o y \in Seq(Cloud!Character) /\ Laid(b \o y, s)
<1> DEFINE z == b \o y
           n == Len(Inside(s))
<1>1. z \in Seq(Cloud!Character) /\ Follows(b, y, z)
  BY Joined
<1>2. n \in Nat
  BY FieldForm
<1> HIDE DEF z
<1>3. Len(b) \in Nat /\ Len(b) >= n + 8 /\ Len(z) >= n + 8 /\ \A k \in 1 .. Len(b) : z[k] = b[k]
  BY <1>1, <1>2 DEF Follows, Laid
<1> HIDE DEF n
<1>4. \A k \in 1 .. n : 6 + k \in 1 .. Len(b)
  BY <1>2, <1>3
<1>5. \A k \in {1, 2, 3, 4, 5, 6, n + 7, n + 8} : k \in 1 .. Len(b)
  BY <1>2, <1>3
<1>6. \A k \in 1 .. n : z[6 + k] = Inside(s)[k]
  BY <1>3, <1>4 DEF Laid, n
<1> QED
  BY <1>1, <1>3, <1>5, <1>6 DEF Laid, n, z

LEMMA EntryLaid ==
    ASSUME NEW s \in Seq(Cloud!Character), s # <<>>
    PROVE  /\ Len(<<"other">> \o Cloud!Field(s)) = Len(Inside(s)) + 7
           /\ Len(Inside(s)) \in Nat
           /\ Laid(<<"other">> \o Cloud!Field(s) \o <<"comma">> \o Cloud!Field(<<"other">>) \o <<"comma">>
                       \o Cloud!Field(<<"other">>) \o <<"other">>, s)
<1> DEFINE C == Cloud!Character
           n == Len(Inside(s))
           a == <<"other">>
           f == Cloud!Field(s)
           x == a \o f
           comma == <<"comma">>
           rest == Cloud!Field(a)
           b == x \o comma
<1>1. a \in Seq(C) /\ Len(a) = 1 /\ a[1] = "other" /\ comma \in Seq(C) /\ Len(comma) = 1 /\ comma[1] = "comma"
  <2>1. "other" \in C /\ "comma" \in C
    BY DEF Cloud!Character
  <2> HIDE DEF C
  <2> QED
    BY <2>1, Singles
<1>2. rest \in Seq(C)
  <2>1. a # <<>>
    OBVIOUS
  <2> HIDE DEF a
  <2> QED
    BY <1>1, <2>1, FieldForm
<1>3. /\ f \in Seq(C) /\ Len(f) = n + 6 /\ n \in Nat
      /\ f[1] = "quote" /\ f[2] = "other" /\ f[3] = "quote" /\ f[4] = "other" /\ f[5] = "quote"
      /\ (\A k \in 1 .. n : f[5 + k] = Inside(s)[k]) /\ f[n + 6] = "quote"
  BY FieldForm
<1> HIDE DEF C, n, a, f, comma, rest
<1>4. x \in Seq(C) /\ Follows(a, f, x)
  BY <1>1, <1>3, Joined
<1> HIDE DEF x
<1>5. Len(x) = n + 7 /\ x[1] = "other" /\ \A k \in 1 .. n + 6 : x[1 + k] = f[k]
  BY <1>1, <1>3, <1>4 DEF Follows
<1>6. b \in Seq(C) /\ Follows(x, comma, b)
  BY <1>1, <1>4, Joined
<1> HIDE DEF b
<1>7. Len(b) = n + 8 /\ (\A k \in 1 .. n + 7 : b[k] = x[k]) /\ b[n + 8] = "comma"
  <2>1. Len(b) = n + 8 /\ (\A k \in 1 .. n + 7 : b[k] = x[k])
    BY <1>1, <1>3, <1>5, <1>6 DEF Follows
  <2>2. b[(n + 7) + 1] = comma[1]
    BY <1>1, <1>5, <1>6 DEF Follows
  <2>3. (n + 7) + 1 = n + 8
    BY <1>3
  <2> QED
    BY <1>1, <2>1, <2>2, <2>3
<1>8. ASSUME NEW k \in 1 .. n + 6 PROVE b[1 + k] = f[k]
  <2>1. 1 + k \in 1 .. n + 7
    BY <1>3
  <2> QED
    BY <1>5, <1>7, <2>1
<1>9. b[1] = "other" /\ b[2] = "quote" /\ b[3] = "other" /\ b[4] = "quote" /\ b[5] = "other" /\ b[6] = "quote"
  <2>1. 1 \in 1 .. n + 7 /\ \A k \in {1, 2, 3, 4, 5} : k \in 1 .. n + 6
    BY <1>3
  <2>2. b[1] = "other"
    BY <1>5, <1>7, <2>1
  <2>3. b[1 + 1] = f[1] /\ b[1 + 2] = f[2] /\ b[1 + 3] = f[3] /\ b[1 + 4] = f[4] /\ b[1 + 5] = f[5]
    BY <1>8, <2>1
  <2> QED
    BY <1>3, <2>2, <2>3
<1>10. ASSUME NEW k \in 1 .. n PROVE b[6 + k] = Inside(s)[k]
  <2>1. 5 + k \in 1 .. n + 6 /\ 1 + (5 + k) = 6 + k
    BY <1>3
  <2>2. b[1 + (5 + k)] = f[5 + k]
    BY <1>8, <2>1
  <2> QED
    BY <1>3, <2>1, <2>2
<1>11. b[n + 7] = "quote"
  <2>1. n + 6 \in 1 .. n + 6 /\ 1 + (n + 6) = n + 7
    BY <1>3
  <2>2. b[1 + (n + 6)] = f[n + 6]
    BY <1>8, <2>1
  <2> QED
    BY <1>3, <2>1, <2>2
<1>12. Laid(b, s)
  BY <1>3, <1>7, <1>9, <1>10, <1>11 DEF Laid, n
<1>13. b \o rest \in Seq(C) /\ Laid(b \o rest, s)
  BY <1>2, <1>6, <1>12, LaidMore DEF C
<1> DEFINE c == b \o rest
<1>14. c \o comma \in Seq(C) /\ Laid(c \o comma, s)
  <2> HIDE DEF c
  <2> QED
    BY <1>1, <1>13, LaidMore DEF C, c
<1> DEFINE d == c \o comma
<1>15. d \o rest \in Seq(C) /\ Laid(d \o rest, s)
  <2> HIDE DEF d
  <2> QED
    BY <1>2, <1>14, LaidMore DEF C, d
<1> DEFINE e == d \o rest
<1>16. Laid(e \o a, s)
  <2> HIDE DEF e
  <2> QED
    BY <1>1, <1>15, LaidMore DEF C, e
<1> QED
  BY <1>3, <1>5, <1>16 DEF n, a, f, x, comma, rest, b

\* Byte i is the first behind m characters of s, or the second of two for the m-th.
Between(s, at, i, skip) ==
    \E m \in 0 .. Len(s) :
        \/ i = 7 + at[m] /\ skip = FALSE
        \/ m > 0 /\ Len(Cloud!Escape(s[m])) = 2 /\ i = 8 + at[m - 1] /\ skip = TRUE

\* Where the scan is and what it knows of it: outside the strings of the first field,
\* inside its name, or inside the summary, between two characters or in one.
Standing ==
    \/ index \in {1, 2, 5, 6, Len(Inside(summary)) + 8} /\ inString = FALSE /\ escaped = FALSE
    \/ index \in {3, 4} /\ inString = TRUE /\ escaped = FALSE
    \/ \E at : /\ Places(Escaped(summary), Inside(summary), at)
               /\ inString = TRUE
               /\ Between(summary, at, index, escaped)

TextInv ==
    /\ category \in {"TRAFFIC", "HEALTH"}
    /\ summary \in Seq(Cloud!Character)
    /\ phase \in {"typing", "scan", "done"}
    /\ phase = "typing" => index = 1 /\ inString = FALSE /\ escaped = FALSE
    /\ phase = "scan" => Standing
    /\ phase # "done" => cut = 0
    /\ phase # "typing" /\ Cloud!Summary # <<>> => Laid(body, summary)
    /\ phase = "scan" => Cloud!Summary # <<>>
    /\ phase = "done" => cut = IF Cloud!Summary # <<>> THEN Len(Inside(summary)) + 8 ELSE 0

LEMMA TextInit == Cloud!Init => TextInv
<1> SUFFICES ASSUME Cloud!Init PROVE TextInv
  OBVIOUS
<1>1. summary \in Seq(Cloud!Character)
  BY EmptySeq DEF Cloud!Init
<1> QED
  BY <1>1 DEF Cloud!Init, TextInv

LEMMA TypeInv == ASSUME TextInv, NEW c \in Cloud!Character, Cloud!Type(c) PROVE TextInv'
<1>1. summary' \in Seq(Cloud!Character)
  BY AppendProperties DEF Cloud!Type, TextInv
<1> QED
  BY <1>1 DEF Cloud!Type, TextInv

LEMMA MarshalInv == ASSUME TextInv, Cloud!MarshalForCloudWatch PROVE TextInv'
<1>1. /\ phase = "typing" /\ index = 1 /\ inString = FALSE /\ escaped = FALSE /\ cut = 0
      /\ category \in {"TRAFFIC", "HEALTH"} /\ summary \in Seq(Cloud!Character)
      /\ UNCHANGED <<category, summary, index, inString, escaped, cut>>
  BY DEF TextInv, Cloud!MarshalForCloudWatch
<1>2. Cloud!Summary' = Cloud!Summary
  BY <1>1 DEF Cloud!Summary
<1>3. CASE Cloud!Summary = <<>>
  BY <1>1, <1>2, <1>3 DEF TextInv, Cloud!MarshalForCloudWatch
<1>4. CASE Cloud!Summary # <<>>
  <2>1. Cloud!Summary = summary /\ summary # <<>>
    BY <1>4 DEF Cloud!Summary
  <2>2. body' = <<"other">> \o Cloud!Field(summary) \o <<"comma">> \o Cloud!Field(<<"other">>) \o <<"comma">>
                    \o Cloud!Field(<<"other">>) \o <<"other">>
    BY <1>4, <2>1 DEF Cloud!MarshalForCloudWatch, Cloud!FirstField
  <2>3. Laid(body', summary)
    BY <1>1, <2>1, <2>2, EntryLaid
  <2>4. phase' = "scan"
    BY <1>4 DEF Cloud!MarshalForCloudWatch
  <2>5. Standing'
    BY <1>1 DEF Standing
  <2>6. Laid(body', summary')
    BY <1>1, <2>3
  <2> QED
    BY <1>1, <1>2, <1>4, <2>4, <2>5, <2>6 DEF TextInv
<1> QED
  BY <1>3, <1>4

\* What a step of the scan does, by the character and the flags.
LEMMA ScanByte ==
    ASSUME Cloud!Scan, inString \in BOOLEAN, escaped \in BOOLEAN
    PROVE  /\ phase = "scan" /\ index' = index + 1 /\ UNCHANGED <<category, summary, body>>
           /\ escaped => escaped' = FALSE /\ UNCHANGED <<inString, cut, phase>>
           /\ ~escaped /\ body[index] = "backslash" /\ inString = TRUE
                => escaped' = TRUE /\ UNCHANGED <<inString, cut, phase>>
           /\ ~escaped /\ body[index] = "quote" => inString' = ~inString /\ UNCHANGED <<escaped, cut, phase>>
           /\ ~escaped /\ body[index] = "comma" /\ inString = FALSE => cut' = index /\ phase' = "done"
           /\ ~escaped /\ body[index] = "other" => UNCHANGED <<inString, escaped, cut, phase>>
           /\ ~escaped /\ body[index] = "comma" /\ inString = TRUE => UNCHANGED <<inString, escaped, cut, phase>>
<1> DEFINE c == body[index]
<1>1. phase = "scan" /\ index' = index + 1 /\ UNCHANGED <<category, summary, body>>
  BY DEF Cloud!Scan
<1>2. \/ escaped /\ escaped' = FALSE /\ UNCHANGED <<inString, cut, phase>>
      \/ ~escaped /\ c = "backslash" /\ escaped' = (c = "backslash" /\ inString) /\ UNCHANGED <<inString, cut, phase>>
      \/ ~escaped /\ c = "quote" /\ inString' = ~inString /\ UNCHANGED <<escaped, cut, phase>>
      \/ ~escaped /\ c = "comma" /\ ~inString /\ cut' = index /\ phase' = "done" /\ UNCHANGED <<inString, escaped>>
      \/ ~escaped /\ (c = "other" \/ (c = "comma" /\ inString)) /\ UNCHANGED <<inString, escaped, cut, phase>>
  BY DEF Cloud!Scan, Cloud!Escapes
<1> HIDE DEF c
<1> QED
  BY <1>1, <1>2 DEF c

\* The scan goes on.
LEMMA GoesOn ==
    ASSUME TextInv, phase = "scan", UNCHANGED <<category, summary, body, cut, phase>>, Standing'
    PROVE  TextInv'
<1>1. Cloud!Summary' = Cloud!Summary
  BY DEF Cloud!Summary
<1> QED
  BY <1>1 DEF TextInv

\* Outside the summary.
LEMMA ScanOutside ==
    ASSUME TextInv, Cloud!Scan,
           \/ index \in {1, 2, 5, 6, Len(Inside(summary)) + 8} /\ inString = FALSE /\ escaped = FALSE
           \/ index \in {3, 4} /\ inString = TRUE /\ escaped = FALSE
    PROVE  TextInv'
<1> DEFINE n == Len(Inside(summary))
<1>1. /\ phase = "scan" /\ Cloud!Summary # <<>> /\ summary \in Seq(Cloud!Character)
      /\ escaped = FALSE /\ inString \in BOOLEAN /\ index' = index + 1
      /\ UNCHANGED <<category, summary, body>> /\ Laid(body, summary)
  BY ScanByte DEF TextInv
<1>2. Cloud!Summary = summary
  BY <1>1 DEF Cloud!Summary
<1>3. n \in Nat /\ \E at : Places(Escaped(summary), Inside(summary), at)
  BY <1>1, <1>2, EntryLaid, EscapedForm
<1>4. CASE index \in {1, 3, 5}
  <2>1. body[index] = "other"
    BY <1>1, <1>4 DEF Laid
  <2>2. UNCHANGED <<inString, escaped, cut, phase>>
    BY <1>1, <2>1, ScanByte
  <2>3. Standing'
    BY <1>1, <1>3, <1>4, <2>2 DEF Standing
  <2> QED
    BY <1>1, <2>2, <2>3, GoesOn
<1>5. CASE index \in {2, 4}
  <2>1. body[index] = "quote"
    BY <1>1, <1>5 DEF Laid
  <2>2. inString' = ~inString /\ UNCHANGED <<escaped, cut, phase>>
    BY <1>1, <2>1, ScanByte
  <2>3. Standing'
    <3>1. CASE index = 2
      <4>1. inString = FALSE /\ index' = 3
        BY <1>1, <1>3, <3>1
      <4>2. inString' = TRUE /\ escaped' = FALSE
        BY <1>1, <2>2, <4>1
      <4> QED
        BY <4>1, <4>2 DEF Standing
    <3>2. CASE index = 4
      <4>1. inString = TRUE /\ index' = 5
        BY <1>1, <1>3, <3>2
      <4>2. inString' = FALSE /\ escaped' = FALSE
        BY <1>1, <2>2, <4>1
      <4> QED
        BY <4>1, <4>2 DEF Standing
    <3> QED
      BY <1>5, <3>1, <3>2
  <2> QED
    BY <1>1, <2>2, <2>3, GoesOn
<1>6. CASE index = 6
  <2>1. body[index] = "quote" /\ inString = FALSE
    BY <1>1, <1>6 DEF Laid
  <2>2. inString' = TRUE /\ UNCHANGED <<escaped, cut, phase>>
    BY <1>1, <2>1, ScanByte
  <2>3. PICK at : Places(Escaped(summary), Inside(summary), at)
    BY <1>3
  <2>4. 0 \in 0 .. Len(summary) /\ at[0] = 0
    BY <1>1, <2>3, LenProperties DEF Places
  <2>5. index' = 7 + at[0]
    BY <1>1, <1>6, <2>4
  <2>6. Standing'
    <3>1. Between(summary, at, index', FALSE)
      BY <2>4, <2>5 DEF Between
    <3>2. escaped' = FALSE /\ summary' = summary
      BY <1>1, <2>2
    <3> QED
      BY <2>2, <2>3, <3>1, <3>2 DEF Standing
  <2> QED
    BY <1>1, <2>2, <2>6, GoesOn
<1>7. CASE index = n + 8
  <2>1. inString = FALSE
    BY <1>3, <1>7
  <2>2. body[index] = "comma"
    BY <1>1, <1>7 DEF Laid
  <2>3. cut' = n + 8 /\ phase' = "done"
    BY <1>1, <1>7, <2>1, <2>2, ScanByte
  <2>4. Cloud!Summary' = Cloud!Summary
    BY <1>1 DEF Cloud!Summary
  <2> QED
    BY <1>1, <2>3, <2>4 DEF TextInv
<1> QED
  BY <1>4, <1>5, <1>6, <1>7

\* Inside the summary.
LEMMA ScanInside ==
    ASSUME TextInv, Cloud!Scan, inString = TRUE, NEW at, Places(Escaped(summary), Inside(summary), at),
           Between(summary, at, index, escaped)
    PROVE  TextInv'
<1> DEFINE n == Len(Inside(summary))
           e(k) == Cloud!Escape(summary[k])
<1>1. /\ phase = "scan" /\ Cloud!Summary # <<>> /\ summary \in Seq(Cloud!Character)
      /\ index' = index + 1 /\ escaped \in BOOLEAN
      /\ UNCHANGED <<category, summary, body>> /\ Laid(body, summary)
  <2>1. escaped \in BOOLEAN
    BY DEF Between
  <2> QED
    BY <2>1, ScanByte DEF TextInv
<1>2. summary # <<>>
  BY <1>1 DEF Cloud!Summary
<1>3. n \in Nat /\ Len(summary) \in Nat /\ \A k \in 1 .. Len(summary) : summary[k] \in Cloud!Character
  BY <1>1, <1>2, EntryLaid, EscapedForm
<1>4. /\ at \in [0 .. Len(summary) -> Nat] /\ at[0] = 0 /\ at[Len(summary)] = n
      /\ \A k \in 1 .. Len(summary) :
             /\ at[k] = at[k - 1] + Len(e(k))
             /\ \A i \in 1 .. Len(e(k)) : Inside(summary)[at[k - 1] + i] = e(k)[i]
  <2>1. Len(Escaped(summary)) = Len(summary) /\ \A k \in 1 .. Len(summary) : Escaped(summary)[k] = e(k)
    BY <1>1, <1>2, EscapedForm
  <2> DEFINE q == Escaped(summary)
  <2>2. /\ at \in [0 .. Len(q) -> Nat] /\ at[0] = 0 /\ at[Len(q)] = n
        /\ \A k \in 1 .. Len(q) :
               /\ at[k] = at[k - 1] + Len(q[k])
               /\ \A i \in 1 .. Len(q[k]) : Inside(summary)[at[k - 1] + i] = q[k][i]
    BY Zenon DEF Places
  <2> HIDE DEF e, q, n
  <2>3. ASSUME NEW k \in 1 .. Len(summary)
        PROVE  /\ at[k] = at[k - 1] + Len(e(k))
               /\ \A i \in 1 .. Len(e(k)) : Inside(summary)[at[k - 1] + i] = e(k)[i]
    <3>1. k \in 1 .. Len(q) /\ q[k] = e(k)
      BY <2>1 DEF q
    <3> QED
      BY <2>2, <3>1, Zenon
  <2>4. at \in [0 .. Len(summary) -> Nat] /\ at[0] = 0 /\ at[Len(summary)] = n
    BY <2>1, <2>2, Zenon DEF q
  <2> QED
    BY <2>3, <2>4
<1> PICK m \in 0 .. Len(summary) :
              \/ index = 7 + at[m] /\ escaped = FALSE
              \/ m > 0 /\ Len(e(m)) = 2 /\ index = 8 + at[m - 1] /\ escaped = TRUE
  BY DEF Between
<1>5. ASSUME UNCHANGED <<inString, cut, phase>>, Between(summary, at, index', escaped') PROVE TextInv'
  <2>1. Standing'
    BY <1>1, <1>5 DEF Standing
  <2> QED
    BY <1>1, <1>5, <2>1, GoesOn
<1>6. CASE escaped = TRUE
  <2>1. m > 0 /\ Len(e(m)) = 2 /\ index = 8 + at[m - 1]
    BY <1>6
  <2>2. m \in 1 .. Len(summary) /\ m - 1 \in 0 .. Len(summary) /\ at[m] = at[m - 1] + 2 /\ at[m - 1] \in Nat
    <3> HIDE DEF e
    <3>1. m \in 1 .. Len(summary) /\ m - 1 \in 0 .. Len(summary)
      BY <1>3, <2>1
    <3>2. at[m] = at[m - 1] + Len(e(m))
      BY <1>4, <3>1
    <3> QED
      BY <1>4, <2>1, <3>1, <3>2
  <2>3. escaped' = FALSE /\ UNCHANGED <<inString, cut, phase>>
    BY <1>6, ScanByte
  <2>4. index' = 7 + at[m]
    BY <1>1, <2>1, <2>2
  <2>5. Between(summary, at, index', escaped')
    BY <2>3, <2>4 DEF Between
  <2> QED
    BY <1>5, <2>3, <2>5
<1>7. CASE escaped = FALSE /\ m = Len(summary)
  <2>1. index = n + 7
    BY <1>3, <1>4, <1>7
  <2>2. body[index] = "quote"
    BY <1>1, <2>1 DEF Laid
  <2>3. inString' = FALSE /\ UNCHANGED <<escaped, cut, phase>>
    BY <1>7, <2>2, ScanByte
  <2>4. index' = n + 8
    BY <1>1, <1>3, <2>1
  <2>5. Standing'
    BY <1>1, <1>7, <2>3, <2>4 DEF Standing
  <2> QED
    BY <1>1, <2>3, <2>5, GoesOn
<1>8. CASE escaped = FALSE /\ m # Len(summary)
  <2> DEFINE k == m + 1
             c == summary[k]
             w == e(k)
  <2>1. k \in 1 .. Len(summary) /\ k - 1 = m /\ index = 7 + at[m] /\ at[m] \in Nat /\ c \in Cloud!Character
    BY <1>3, <1>4, <1>8
  <2>2. at[k] = at[m] + Len(w) /\ at[k] \in Nat /\ \A i \in 1 .. Len(w) : Inside(summary)[at[m] + i] = w[i]
    <3> HIDE DEF k, e
    <3>1. at[k] = at[k - 1] + Len(e(k)) /\ \A i \in 1 .. Len(e(k)) : Inside(summary)[at[k - 1] + i] = e(k)[i]
      BY <1>4, <2>1
    <3>2. at[k] \in Nat
      BY <1>3, <1>4, <2>1
    <3>3. at[k - 1] = at[m]
      BY <2>1
    <3> QED
      BY <3>1, <3>2, <3>3
  <2>3. at[k] =< n
    <3> SUFFICES ASSUME at[k] > n PROVE FALSE
      BY <1>3, <2>2
    <3> DEFINE T == {i \in 0 .. Len(summary) : i >= k /\ ~(at[i] > n)}
    <3>1. Len(summary) \in T
      BY <1>3, <1>4, <2>1
    <3>2. PICK i \in T : \A j \in T : i =< j
      <4>1. T \subseteq Nat
        BY <1>3
      <4> HIDE DEF T
      <4> QED
        BY <3>1, <4>1, LeastElement
    <3>3. i # k /\ i - 1 \in 0 .. Len(summary) /\ i - 1 >= k /\ i \in 1 .. Len(summary)
      BY <1>3, <2>1, <3>2
    <3>4. at[i - 1] > n
      BY <3>2, <3>3
    <3>5. Len(e(i)) \in Nat
      <4>1. summary[i] \in Cloud!Character
        BY <1>3, <3>3
      <4>2. e(i) \in Seq(Cloud!Character)
        BY <4>1, EscapeSeq
      <4> QED
        BY <4>2, LenProperties
    <3>6. at[i] = at[i - 1] + Len(e(i)) /\ at[i - 1] \in Nat
      BY <1>4, <3>3
    <3>7. ~(at[i] > n)
      BY <3>2
    <3> HIDE DEF e, n, T
    <3>8. at[i - 1] + Len(e(i)) > n
      BY <1>3, <3>4, <3>5, <3>6
    <3> QED
      BY <3>6, <3>7, <3>8
  <2>4. CASE c \in {"quote", "backslash"}
    <3>1. w = <<"backslash", c>>
      BY <2>4 DEF Cloud!Escape
    <3>2. Len(w) = 2 /\ w[1] = "backslash"
      BY <3>1
    <3> HIDE DEF w, c
    <3>3. Inside(summary)[at[m] + 1] = "backslash" /\ at[m] + 1 \in 1 .. n
      BY <1>3, <2>1, <2>2, <2>3, <3>2
    <3>4. 6 + (at[m] + 1) = index
      BY <2>1
    <3>5. body[6 + (at[m] + 1)] = "backslash"
      BY <1>1, <3>3 DEF Laid
    <3>6. body[index] = "backslash"
      BY <3>4, <3>5
    <3>7. escaped' = TRUE /\ UNCHANGED <<inString, cut, phase>>
      BY <1>8, <3>6, ScanByte
    <3>8. index' = 8 + at[k - 1] /\ k > 0 /\ k \in 0 .. Len(summary)
      BY <1>1, <2>1
    <3>9. Between(summary, at, index', escaped')
      <4>1. Len(Cloud!Escape(summary[k])) = 2
        BY <3>2 DEF w
      <4> HIDE DEF k
      <4> QED
        BY <3>7, <3>8, <4>1 DEF Between
    <3> QED
      BY <1>5, <3>7, <3>9
  <2>5. CASE c \in {"comma", "other"}
    <3>1. w = <<c>>
      BY <2>5 DEF Cloud!Escape
    <3>2. Len(w) = 1 /\ w[1] = c
      BY <3>1
    <3> HIDE DEF w, c
    <3>3. Inside(summary)[at[m] + 1] = c /\ at[m] + 1 \in 1 .. n
      BY <1>3, <2>1, <2>2, <2>3, <3>2
    <3>4. 6 + (at[m] + 1) = index
      BY <2>1
    <3>5. body[6 + (at[m] + 1)] = c
      BY <1>1, <3>3 DEF Laid
    <3>6. body[index] \in {"comma", "other"}
      BY <2>5, <3>4, <3>5
    <3>7. UNCHANGED <<inString, escaped, cut, phase>>
      BY <1>8, <3>6, ScanByte
    <3>8. index' = 7 + at[k] /\ k \in 0 .. Len(summary)
      BY <1>1, <2>1, <2>2, <3>2
    <3>9. Between(summary, at, index', escaped')
      <4> HIDE DEF k
      <4> QED
        BY <1>8, <3>7, <3>8 DEF Between
    <3> QED
      BY <1>5, <3>7, <3>9
  <2> QED
    BY <2>1, <2>4, <2>5 DEF Cloud!Character
<1> QED
  BY <1>1, <1>6, <1>7, <1>8

LEMMA TextStep == ASSUME TextInv, Cloud!Next PROVE TextInv'
<1>1. ASSUME NEW c \in Cloud!Character, Cloud!Type(c) PROVE TextInv'
  BY <1>1, TypeInv
<1>2. CASE Cloud!MarshalForCloudWatch
  BY <1>2, MarshalInv
<1>3. CASE Cloud!Scan
  <2>1. Standing
    BY <1>3 DEF TextInv, Cloud!Scan
  <2>2. CASE \/ index \in {1, 2, 5, 6, Len(Inside(summary)) + 8} /\ inString = FALSE /\ escaped = FALSE
             \/ index \in {3, 4} /\ inString = TRUE /\ escaped = FALSE
    BY <1>3, <2>2, ScanOutside
  <2>3. ASSUME NEW at, Places(Escaped(summary), Inside(summary), at), inString = TRUE,
               Between(summary, at, index, escaped)
        PROVE  TextInv'
    BY <1>3, <2>3, ScanInside
  <2> QED
    BY <2>1, <2>2, <2>3 DEF Standing
<1> QED
  BY <1>1, <1>2, <1>3 DEF Cloud!Next

LEMMA TextShown == ASSUME TextInv PROVE Cloud!NewlineAfterSummary
<1> DEFINE n == Len(Inside(summary))
<1>1. CASE Cloud!Summary # <<>>
  <2>1. Cloud!Summary = summary /\ summary # <<>> /\ category = "TRAFFIC" /\ summary \in Seq(Cloud!Character)
    BY <1>1 DEF TextInv, Cloud!Summary
  <2>2. Len(Cloud!FirstField) = n + 7 /\ n \in Nat
    BY <1>1, <2>1, EntryLaid DEF Cloud!FirstField
  <2>3. phase = "done" => cut = n + 8 /\ body[n + 8] = "comma"
    BY <1>1 DEF TextInv, Laid
  <2>4. phase # "done" => cut = 0
    BY DEF TextInv
  <2> HIDE DEF n
  <2>5. cut # 0 => cut = Len(Cloud!FirstField) + 1 /\ body[cut] = "comma"
    BY <2>2, <2>3, <2>4
  <2>6. phase = "done" => cut # 0
    BY <2>2, <2>3
  <2> QED
    BY <2>1, <2>5, <2>6 DEF Cloud!NewlineAfterSummary
<1>2. CASE Cloud!Summary = <<>>
  <2>1. cut = 0
    BY <1>2 DEF TextInv
  <2>2. ~(category = "TRAFFIC" /\ summary # <<>>)
    BY <1>2 DEF Cloud!Summary
  <2> QED
    BY <2>1, <2>2 DEF Cloud!NewlineAfterSummary
<1> QED
  BY <1>1, <1>2

\* What is set means in every user of it what SPEC.md says: the retries and the health
\* URLs, see PolicyKept and URLsResolved.
THEOREM SettingsKept == Spec => []SettingsAsSpecified
<1>1. RetriesAsConfigured /\ HealthURLsAsSpecified => SettingsAsSpecified
  BY DEF SettingsAsSpecified
<1> QED
  BY <1>1, PolicyKept, URLsResolved, PTL

\* What a log entry shows of a body is complete or marked, and the newline leaves it the
\* same JSON: XMLIsComplete (of attributes that share a local name only the last is
\* shown), TruncationShows and NewlineAfterSummary, for every document, depth and
\* summary (ParseBody, decodeXMLElement; insertNewlineAfterSummary).
THEOREM EntriesFaithful == Spec => []EntriesAreFaithful
<1> DEFINE Inv == (subject = "parser" => BodyInv) /\ (subject = "text" => TextInv)
<1>1. Init => Inv
  BY InputAssumption, BodyInit, TextInit DEF Init
<1>2. Inv /\ [Next]_vars => Inv'
  <2> SUFFICES ASSUME Inv, [Next]_vars PROVE Inv'
    OBVIOUS
  <2>1. CASE subject = "parser"
    <3>1. subject' = "parser" /\ BodyInv /\ (Body!Next \/ UNCHANGED Body!vars)
      BY <2>1, Turns
    <3>2. CASE Body!Next
      BY <3>1, <3>2, BodyStep, InputAssumption
    <3>3. CASE UNCHANGED Body!vars
      BY <3>1, <3>3 DEF Body!vars, BodyInv, Ended
    <3> QED
      BY <3>1, <3>2, <3>3
  <2>2. CASE subject = "text"
    <3>1. subject' = "text" /\ TextInv /\ (Cloud!Next \/ UNCHANGED Cloud!vars)
      BY <2>2, Turns
    <3>2. CASE Cloud!Next
      BY <3>1, <3>2, TextStep
    <3>3. CASE UNCHANGED Cloud!vars
      BY <3>1, <3>3 DEF Cloud!vars, TextInv, Standing, Cloud!Summary
    <3> QED
      BY <3>1, <3>2, <3>3
  <2>3. CASE subject \notin {"parser", "text"}
    BY <2>3, Turns
  <2> QED
    BY <2>1, <2>2, <2>3
<1>3. Inv => EntriesAreFaithful
  BY InputAssumption, BodyShown, TextShown DEF EntriesAreFaithful
<1> QED
  BY <1>1, <1>2, <1>3, PTL DEF Spec
=============================================================================
