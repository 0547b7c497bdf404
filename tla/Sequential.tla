----------------------------- MODULE Sequential -----------------------------
(***************************************************************************)
(* The algorithms of cwproxy that run in one goroutine and share no state, *)
(* each in small steps and each with its reference: a behaviour takes one  *)
(* of them as its subject and runs it on one of its inputs, while the      *)
(* variables of the others rest.  The constants are those of the modules.  *)
(***************************************************************************)
EXTENDS Integers, Sequences, MetricData

CONSTANTS
    NaN, Inf, Absent, Blank, Garbage, None, Failed, Unset,
    Data, Input, EmptyName, LogReserved, MetricReserved, MaxMetrics, MaxDimensions,  \* Emf
    Status, Latency, Bytes,                                                          \* MetricData
    Name, Attributes, Text, MaxXMLDepth, MaxTokens,                                  \* BodyParser
    MaxSummary,                                                                      \* CloudWatchText
    Value, KeyOrder, Digest(_), MaxShapeDepth, MaxWraps,                             \* Signature
    Budget, Delays, Region, PodName, DefaultAppPort, Port,                           \* Startup
    Setting, Default,                                                                \* RetryPolicy
    Entry, AppHost, TargetPort, MaxEntries                                           \* HealthURLs

VARIABLES
    subject,   \* the module that takes the steps
    phase,     \* of the subject, None if it has no phases
    op, input, pos, batch, batches, current, again, events, failed,  \* Emf
    media, truncated, stack, result, tokens, open,                   \* BodyParser
    category, summary, body, index, inString, escaped, cut,          \* CloudWatchText
    first, second, wraps,                                            \* Signature
    spent, task, container, eks, ec2, portEnv, child, detected,      \* Startup
    cfg, region, signs, told,
    next, policy, used, waits,                                       \* RetryPolicy
    entries, urls                                                    \* HealthURLs

emf       == <<op, input, pos, batch, batches, current, again, events, failed>>
parser    == <<media, truncated, stack, result, tokens, open>>
text      == <<category, summary, body, index, inString, escaped, cut>>
signature == <<first, second, wraps>>
startup   == <<spent, task, container, eks, ec2, portEnv, child, detected, cfg, region, signs, told>>
retry     == <<next, policy, used, waits>>
health    == <<entries, urls>>
vars      == <<subject, phase, emf, parser, text, signature, startup, retry, health>>

----------------------------------------------------------------------------
Metrics == INSTANCE Emf
Body    == INSTANCE BodyParser WITH MaxDepth <- MaxXMLDepth
Cloud   == INSTANCE CloudWatchText
Shape   == INSTANCE Signature WITH MaxDepth <- MaxShapeDepth
Start   == INSTANCE Startup
Retry   == INSTANCE RetryPolicy WITH Raw <- Setting
Health  == INSTANCE HealthURLs WITH AppPort <- TargetPort

\* What a call may be given besides any other data: those of an exchange or of a probe.
Traffic == {buildMetrics(status, t, n, m) : status \in Status, t \in Latency, n, m \in Bytes}
Probes  == {healthMetrics(up, t) : up \in BOOLEAN, t \in Latency}

MetricNames ==
    {"RequestCount", "Latency", "RequestBodySize", "ResponseBodySize",
     "2XXStatusCode", "4XXStatusCode", "5XXStatusCode", "HealthStatus", "HealthLatency"}

\* The inputs are ones the modules are meant for.
ASSUME InputAssumption ==
    /\ Metrics!EmfAssumption
    /\ Retry!PolicyAssumption
    /\ Health!EntryAssumption
    /\ Start!StartupAssumption
    /\ Shape!ShapeAssumption
    /\ Body!DepthAssumption

\* An event has room for the metrics of an exchange, five names with three dimensions,
\* and none of their names is a reserved key (emf.go); their values are numbers.
ASSUME ExchangeAssumption ==
    /\ Status \subseteq Nat /\ Latency \subseteq Nat /\ Bytes \subseteq Nat /\ NaN \notin Nat
    /\ MaxMetrics > 5 /\ MaxDimensions >= 3
    /\ (MetricNames \cup {"AppName", "Endpoint", "Method"}) \cap (LogReserved \cup {EmptyName}) = {}

----------------------------------------------------------------------------
Rest(v) == v = None

Init ==
    /\ subject \in {"emf", "parser", "text", "signature", "startup", "retry", "health"}
    /\ IF subject = "emf" THEN Metrics!Init
       ELSE /\ Rest(op) /\ Rest(input) /\ Rest(pos) /\ Rest(batch) /\ Rest(batches)
            /\ Rest(current) /\ Rest(again) /\ Rest(events) /\ Rest(failed)
    /\ IF subject = "parser" THEN Body!Init
       ELSE Rest(media) /\ Rest(truncated) /\ Rest(stack) /\ Rest(result) /\ Rest(tokens) /\ Rest(open)
    /\ IF subject = "text" THEN Cloud!Init
       ELSE /\ Rest(category) /\ Rest(summary) /\ Rest(body) /\ Rest(index)
            /\ Rest(inString) /\ Rest(escaped) /\ Rest(cut)
    /\ IF subject = "signature" THEN Shape!Init ELSE Rest(first) /\ Rest(second) /\ Rest(wraps)
    /\ IF subject = "startup" THEN Start!Init
       ELSE /\ Rest(spent) /\ Rest(task) /\ Rest(container) /\ Rest(eks) /\ Rest(ec2) /\ Rest(portEnv)
            /\ Rest(child) /\ Rest(detected) /\ Rest(cfg) /\ Rest(region) /\ Rest(signs) /\ Rest(told)
    /\ IF subject = "retry" THEN Retry!Init ELSE Rest(next) /\ Rest(policy) /\ Rest(used) /\ Rest(waits)
    /\ IF subject = "health" THEN Health!Init ELSE Rest(entries) /\ Rest(urls)
    /\ subject \in {"signature", "health"} => Rest(phase)

Next ==
    \/ subject = "emf" /\ Metrics!Next
       /\ UNCHANGED <<subject, parser, text, signature, startup, retry, health>>
    \/ subject = "parser" /\ Body!Next
       /\ UNCHANGED <<subject, emf, text, signature, startup, retry, health>>
    \/ subject = "text" /\ Cloud!Next
       /\ UNCHANGED <<subject, emf, parser, signature, startup, retry, health>>
    \/ subject = "signature" /\ Shape!Next
       /\ UNCHANGED <<subject, phase, emf, parser, text, startup, retry, health>>
    \/ subject = "startup" /\ Start!Next
       /\ UNCHANGED <<subject, emf, parser, text, signature, retry, health>>
    \/ subject = "retry" /\ Retry!Next
       /\ UNCHANGED <<subject, emf, parser, text, signature, startup, health>>
    \/ subject = "health" /\ Health!Next
       /\ UNCHANGED <<subject, phase, emf, parser, text, signature, startup, retry>>

Spec == Init /\ [][Next]_vars

----------------------------------------------------------------------------
(* Properties, each about one subject. *)

\* What partitionDatums has let into one batch, buildEMF can encode as one event:
\* see Emf.
EncodingSucceeds == subject = "emf" => Metrics!TypeOK /\ Metrics!EncodingSucceeds

\* No datum is lost, doubled or moved: the batches are the data, cut at some places.
BatchesAreTheData ==
    0 \notin failed =>
        \E end \in [0 .. Len(batches) -> 0 .. pos] :
            /\ end[0] = 0
            /\ \A k \in DOMAIN batches :
                   end[k - 1] < end[k] /\ batches[k] = SubSeq(input, end[k - 1] + 1, end[k])
            /\ batch.datums = SubSeq(input, end[Len(batches)] + 1, pos)

\* The names and dimension sets SPEC.md lists for an exchange.
StatusMetric == [c \in {2, 4, 5} |->
    CASE c = 2 -> "2XXStatusCode" [] c = 4 -> "4XXStatusCode" [] c = 5 -> "5XXStatusCode"]
Listed(status) ==
    ({"RequestCount", "Latency", "RequestBodySize", "ResponseBodySize"}
        \cup {StatusMetric[c] : c \in {2, 4, 5} \cap {status \div 100}})
    \X {{"AppName"}, {"AppName", "Endpoint", "Method"}}

\* Every probe and every exchange, whatever its status, is one event, and
\* CloudWatch reads from that of an exchange each metric for both sets of
\* dimensions, with exactly one status metric if its range has one (SPEC.md,
\* Traffic Metrics; buildMetrics and statusBucketMetricName).
ExchangeIsOneEvent ==
    phase = "returned" /\ input \in Traffic \cup Probes
        => /\ Len(events) = 1
           /\ failed = {}
           /\ \A status \in Status, t \in Latency, n, m \in Bytes :
                  input = buildMetrics(status, t, n, m)
                      => {<<d.name, DOMAIN d.dims>> : d \in Metrics!Extracted(events[1].emf)} = Listed(status)

\* The events of a call carry its data, all of them, unchanged and in as few
\* events as SPEC.md asks for: nothing is overwritten in the map that data of
\* one event share, nothing is lost where a batch ends, and data that can share
\* an event do (partitionDatums, buildEMFParts, buildMetrics).
EventsCarryTheData ==
    subject = "emf" =>
        /\ Metrics!NothingOverwritten
        /\ Metrics!OneEventWhenPossible
        /\ BatchesAreTheData
        /\ ExchangeIsOneEvent

\* What a log entry shows of a body is complete or marked: a whole XML document
\* with all its texts and children in order and, of the attributes of an element that
\* share a local name, the last; a truncated body with its mark and never parsed
\* (ParseBody), within a bounded recursion; and the newline behind the summary
\* is put where it leaves the entry the same JSON (MarshalForCloudWatch).
EntriesAreFaithful ==
    /\ subject = "parser" => Body!TypeOK /\ Body!XMLIsComplete /\ Body!TruncationShows
    /\ subject = "text" => Cloud!NewlineAfterSummary

\* Two bodies of one shape have one hash, and bodies of plain keys whose signatures
\* agree have one shape: see Signature.
OneShapeOneHash == subject = "signature" => Shape!OneShapeOneHash

SignatureTellsShapes == subject = "signature" => Shape!SignatureTellsShapes

\* The retry policy the transport uses is the one that was configured, and the
\* waits it leads to are bounded: see RetryPolicy.
RetriesAsConfigured ==
    subject = "retry" => Retry!TypeOK /\ Retry!UsedAsConfigured /\ Retry!BackoffBounded

\* The health URLs are completed as SPEC.md says, and what is probed through the
\* proxy is not metered: see HealthURLs.
HealthURLsAsSpecified ==
    subject = "health" => Health!TypeOK /\ Health!DefaultsAsSpecified /\ Health!ProbesAreNotMetered

\* What is set means in every user of it what SPEC.md says: the retries and the
\* health URLs.
SettingsAsSpecified == RetriesAsConfigured /\ HealthURLsAsSpecified

\* Whatever of the metadata is slow, missing or wrong, cwproxy starts in time, with
\* a region if any source named one, the right name and the right port: see Startup.
StartupFindsItsPlace ==
    subject = "startup" =>
        /\ Start!TypeOK
        /\ Start!StartsInTime
        /\ Start!RegionFromAnySource
        /\ Start!NoFalseDeployment
        /\ Start!PortOfTheChild
=============================================================================
