-------------------------------- MODULE Emf --------------------------------
(***************************************************************************)
(* How metric data become EMF events (internal/aws/cwlogs/emf.go) in one   *)
(* call of logWithMetrics (both sinks) or Publish: partitionDatums splits  *)
(* the data into batches, then each batch is encoded by buildEMF, which    *)
(* partitions the batch once more, possibly with other reserved keys, and  *)
(* fails unless it stays in one piece.                                     *)
(*                                                                         *)
(* Field names and values are atoms.  JSON text is left out, except that   *)
(* one value (NaN) has no JSON form and is not equal to itself.            *)
(***************************************************************************)
EXTENDS Integers, Sequences, FiniteSets, Functions, MetricData

CONSTANTS
    Data,            \* the data there are
    Input,           \* what a call may be given: sequences of data
    EmptyName,       \* the name ""
    NaN,             \* a value that JSON cannot express
    LogReserved,     \* reservedLogRootKeys
    MetricReserved,  \* reservedMetricRootKeys
    MaxMetrics,      \* 100
    MaxDimensions    \* 30

\* What the two key tables satisfy, and the form of a datum.  That no datum is named like a dimension
\* of its own holds of all data cwproxy builds; canAdd does not look for it.
EmfAssumption ==
    /\ Input \subseteq Seq(Data)
    /\ MetricReserved \subseteq LogReserved
    /\ \A d \in Data :
           /\ d = datum(d.name, d.value, d.unit, [k \in DOMAIN d.dims |-> d.dims[k]])
           /\ d.name \notin DOMAIN d.dims
    /\ MaxMetrics \in Nat
    /\ MaxDimensions \in Nat

VARIABLES
    op,        \* "Log": logWithMetrics, of either sink; "Publish"
    input,     \* the call's data
    pos,       \* how many of them partitionDatums has looked at
    batch,     \* its emfBatchState: the data, their metric and dimension values
    batches,   \* the batches it has closed
    phase,     \* "partition", "encode" or "returned"
    current,   \* the batch being encoded
    again,     \* the emfBatchState of buildEMF's own partition of that batch
    events,    \* the events written: [batch, dims, metrics, directives]
    failed     \* the batches that could not be written, 0 for the partition

vars == <<op, input, pos, batch, batches, phase, current, again, events, failed>>

----------------------------------------------------------------------------
(* partitionDatums. *)

newBatchState == [datums |-> <<>>, metrics |-> <<>>, dims |-> <<>>]

\* Comparing with !=, a NaN differs from every value.
SameMetric(m, d) == m.value = d.value /\ m.value # NaN /\ m.unit = d.unit

\* Mutant of canAdd: a metric that is already there is not compared.
IgnoresValues(s, d, reserved) ==
    /\ d.name # EmptyName
    /\ Cardinality(DOMAIN s.metrics) < MaxMetrics
    /\ d.name \notin reserved
    /\ d.name \notin DOMAIN s.dims
    /\ Cardinality(DOMAIN d.dims) =< MaxDimensions
    /\ \A key \in DOMAIN d.dims :
           /\ key # EmptyName
           /\ key \notin reserved
           /\ key \notin DOMAIN s.metrics
           /\ key \in DOMAIN s.dims => s.dims[key] = d.dims[key]

\* Mutant of canAdd: a metric is never repeated in an event.
RefusesRepetition(s, d, reserved) ==
    d.name \notin DOMAIN s.metrics /\ IgnoresValues(s, d, reserved)

\* Whether datum d may join the batch s.
canAdd(s, d, reserved) ==
    /\ d.name # EmptyName
    /\ Cardinality(DOMAIN s.metrics) < MaxMetrics
    /\ d.name \notin reserved
    /\ d.name \notin DOMAIN s.dims
    /\ d.name \in DOMAIN s.metrics => SameMetric(s.metrics[d.name], d)
    /\ Cardinality(DOMAIN d.dims) =< MaxDimensions
    /\ \A key \in DOMAIN d.dims :
           /\ key # EmptyName
           /\ key \notin reserved
           /\ key \notin DOMAIN s.metrics
           /\ key \in DOMAIN s.dims => s.dims[key] = d.dims[key]

\* Mutant of add: the metric is not noted.
AddForgetsMetric(s, d) ==
    [datums  |-> Append(s.datums, d),
     metrics |-> s.metrics,
     dims    |-> [k \in DOMAIN s.dims \cup DOMAIN d.dims |->
                     IF k \in DOMAIN d.dims THEN d.dims[k] ELSE s.dims[k]]]

add(s, d) ==
    [datums  |-> Append(s.datums, d),
     metrics |-> [n \in DOMAIN s.metrics \cup {d.name} |->
                     IF n = d.name THEN [value |-> d.value, unit |-> d.unit] ELSE s.metrics[n]],
     dims    |-> [k \in DOMAIN s.dims \cup DOMAIN d.dims |->
                     IF k \in DOMAIN d.dims THEN d.dims[k] ELSE s.dims[k]]]

\* Mutant of PartitionKeys: the keys of a metric event for a log entry too.
MetricKeysAlways == MetricReserved

\* The keys the data are partitioned with ...
PartitionKeys == IF op = "Log" THEN LogReserved ELSE MetricReserved

\* ... and those buildEMF partitions batch k with: only the first event of a
\* log call carries the log entry.
EncodeKeys(k) == IF op = "Log" /\ k = 1 THEN LogReserved ELSE MetricReserved

Init ==
    /\ op \in {"Log", "Publish"}
    /\ input \in Input
    /\ pos = 0
    /\ batch = newBatchState
    /\ batches = <<>>
    /\ phase = "partition"
    /\ current = 1
    /\ again = newBatchState
    /\ events = <<>>
    /\ failed = {}

Looking == phase = "partition" /\ pos < Len(input)

Join ==
    /\ Looking
    /\ canAdd(batch, input[pos + 1], PartitionKeys)
    /\ pos' = pos + 1
    /\ batch' = add(batch, input[pos + 1])
    /\ UNCHANGED <<op, input, batches, phase, current, again, events, failed>>

\* Mutant of Split: the datum that did not fit is forgotten.
SplitForgets ==
    /\ Looking
    /\ ~canAdd(batch, input[pos + 1], PartitionKeys)
    /\ batch.datums # <<>>
    /\ canAdd(newBatchState, input[pos + 1], PartitionKeys)
    /\ pos' = pos + 1
    /\ batches' = Append(batches, batch.datums)
    /\ batch' = newBatchState
    /\ UNCHANGED <<op, input, phase, current, again, events, failed>>

\* The datum does not fit: the batch is closed and the next begins with it.
Split ==
    /\ Looking
    /\ ~canAdd(batch, input[pos + 1], PartitionKeys)
    /\ batch.datums # <<>>
    /\ canAdd(newBatchState, input[pos + 1], PartitionKeys)
    /\ pos' = pos + 1
    /\ batches' = Append(batches, batch.datums)
    /\ batch' = add(newBatchState, input[pos + 1])
    /\ UNCHANGED <<op, input, phase, current, again, events, failed>>

\* A datum that fits nowhere fails the whole call, entry included.
Reject ==
    /\ Looking
    /\ ~canAdd(newBatchState, input[pos + 1], PartitionKeys)
    /\ ~canAdd(batch, input[pos + 1], PartitionKeys)
    /\ phase' = "returned"
    /\ failed' = {0}
    /\ UNCHANGED <<op, input, pos, batch, batches, current, again, events>>

\* The last batch is closed; a call without data has nothing to encode (the log
\* call falls back on Log, Publish returns nil).
EndOfData ==
    /\ phase = "partition"
    /\ pos = Len(input)
    /\ phase' = IF input = <<>> THEN "returned" ELSE "encode"
    /\ batches' = IF input = <<>> THEN batches ELSE Append(batches, batch.datums)
    /\ batch' = newBatchState
    /\ UNCHANGED <<op, input, pos, current, again, events, failed>>

----------------------------------------------------------------------------
(* buildEMF and the writing of the event. *)

Encoding == phase = "encode"
Redone   == Len(again.datums)

\* On to the next batch, or back to the caller.
NextBatch ==
    /\ phase' = IF current = Len(batches) THEN "returned" ELSE "encode"
    /\ current' = current + 1
    /\ again' = newBatchState

\* The batch cannot be written: a log call returns at once if that was its
\* first event, and otherwise the next batch has its turn.
BatchFails ==
    /\ failed' = failed \cup {current}
    /\ IF op = "Log" /\ current = 1
       THEN phase' = "returned" /\ UNCHANGED <<current, again>>
       ELSE NextBatch

\* The next datum of the batch, which fails when it does not stay in one piece.
Repartition ==
    /\ Encoding
    /\ Redone < Len(batches[current])
    /\ IF canAdd(again, batches[current][Redone + 1], EncodeKeys(current))
       THEN /\ again' = add(again, batches[current][Redone + 1])
            /\ UNCHANGED <<phase, current, failed>>
       ELSE BatchFails
    /\ UNCHANGED <<op, input, pos, batch, batches, events>>

Least(S) == CHOOSE i \in S : \A j \in S : i =< j
Most(S)  == CHOOSE i \in S : \A j \in S : i >= j
Names(b) == {b[i].name : i \in DOMAIN b}
DimKeys(b) == UNION {DOMAIN b[i].dims : i \in DOMAIN b}

\* The root fields: of a metric the first value, of a dimension the last.
metricFields(b) ==
    [n \in Names(b) |-> b[Least({i \in DOMAIN b : b[i].name = n})].value]
dimensionFields(b) ==
    [k \in DimKeys(b) |-> b[Most({i \in DOMAIN b : k \in DOMAIN b[i].dims})].dims[k]]

\* One directive for each set of dimensions, each of its metrics listed once.
directives(b) ==
    {[keys |-> K,
      metrics |-> {[name |-> n,
                    unit |-> b[Least({i \in DOMAIN b : DOMAIN b[i].dims = K /\ b[i].name = n})].unit] :
                   n \in {b[i].name : i \in {j \in DOMAIN b : DOMAIN b[j].dims = K}}}] :
     K \in {DOMAIN b[i].dims : i \in DOMAIN b}}

buildEMFParts(b) == [metrics |-> metricFields(b), dims |-> dimensionFields(b), directives |-> directives(b)]

Expressible(b) == \A i \in DOMAIN b : b[i].value # NaN

\* The fields are written, unless one of them cannot be expressed.
WriteEvent ==
    /\ Encoding
    /\ Redone = Len(batches[current])
    /\ Expressible(batches[current])
    /\ events' = Append(events, [batch |-> current, emf |-> buildEMFParts(batches[current])])
    /\ NextBatch
    /\ UNCHANGED <<op, input, pos, batch, batches, failed>>

WriteFails ==
    /\ Encoding
    /\ Redone = Len(batches[current])
    /\ ~Expressible(batches[current])
    /\ BatchFails
    /\ UNCHANGED <<op, input, pos, batch, batches, events>>

Next == Join \/ Split \/ Reject \/ EndOfData \/ Repartition \/ WriteEvent \/ WriteFails

Spec == Init /\ [][Next]_vars

----------------------------------------------------------------------------
(* Properties. *)

BatchState(s) ==
    /\ s.datums \in Seq(Data)
    /\ DOMAIN s.metrics = Names(s.datums)
    /\ DOMAIN s.dims = DimKeys(s.datums)

\* Type invariant.
TypeOK ==
    /\ op \in {"Log", "Publish"}
    /\ input \in Input
    /\ pos \in 0 .. Len(input)
    /\ BatchState(batch)
    /\ BatchState(again)
    /\ batches \in Seq(Seq(Data))
    /\ phase \in {"partition", "encode", "returned"}
    /\ current \in 1 .. Len(batches) + 1
    /\ failed \subseteq 0 .. Len(batches)

\* What partitionDatums has let into one batch, buildEMF can encode as one
\* event, also when the batch was formed for a log event and is written as a
\* metric event: a batch fails only for a value JSON cannot express.
EncodingSucceeds ==
    \A k \in failed \ {0} : ~Expressible(batches[k])

\* The data CloudWatch reads from an event: each directive's metrics, with the
\* values and dimension values it finds in the root.  A later field hides an
\* earlier one of the same name.
Extracted(emf) ==
    LET root(k) == IF k \in DOMAIN emf.metrics THEN emf.metrics[k] ELSE emf.dims[k]
    IN  UNION {{datum(m.name, root(m.name), m.unit, [k \in dir.keys |-> root(k)]) :
                m \in dir.metrics} : dir \in emf.directives}

\* An event that several data share gives back exactly these data: no value,
\* unit or dimension of one of them is overwritten by another (buildEMFParts
\* merges them into one map, canAdd must keep the conflicting ones apart).
NothingOverwritten ==
    \A i \in DOMAIN events : Extracted(events[i].emf) = Range(batches[events[i].batch])

\* The data may share one event, by SPEC.md's "in the same CloudWatch Logs event
\* when possible": defined on the data as a whole and not datum by datum.  An event
\* that has its full number of metrics takes nothing more, not even a repetition.
Compatible(s, reserved) ==
    /\ Cardinality(Names(SubSeq(s, 1, Len(s) - 1))) < MaxMetrics
    /\ (Names(s) \cup DimKeys(s)) \cap (reserved \cup {EmptyName}) = {}
    /\ Names(s) \cap DimKeys(s) = {}
    /\ \A d \in Range(s) : Cardinality(DOMAIN d.dims) =< MaxDimensions
    /\ \A i, j \in DOMAIN s :
           /\ i # j /\ s[i].name = s[j].name => SameMetric(s[i], s[j])
           /\ \A k \in DOMAIN s[i].dims \cap DOMAIN s[j].dims : s[i].dims[k] = s[j].dims[k]

\* partitionDatums uses one event exactly when one is possible.
OneEventWhenPossible ==
    phase # "partition" /\ input # <<>>
        => (Compatible(input, PartitionKeys) <=> Len(batches) = 1 /\ 0 \notin failed)
=============================================================================
