----------------------------- MODULE MetricData -----------------------------
(***************************************************************************)
(* The metric data cwproxy builds: those of an exchange (buildMetrics,     *)
(* internal/proxy/handler.go) and those of a probe (probeEndpoint,         *)
(* internal/health/runner.go).  A datum has a name, a value, a unit and    *)
(* its dimensions, a function from keys to values.                         *)
(***************************************************************************)
EXTENDS Integers, Sequences

\* Mutant of statusBucketMetricName: the first range ends too late.
InclusiveRange(status) ==
    CASE status \in 200 .. 300 -> {"2XXStatusCode"}
      [] status \in 400 .. 499 -> {"4XXStatusCode"}
      [] status \in 500 .. 599 -> {"5XXStatusCode"}
      [] OTHER -> {}

\* The name of the status metric, or none.
statusBucketMetricName(status) ==
    CASE status \in 200 .. 299 -> {"2XXStatusCode"}
      [] status \in 400 .. 499 -> {"4XXStatusCode"}
      [] status \in 500 .. 599 -> {"5XXStatusCode"}
      [] OTHER -> {}

datum(name, value, unit, dims) == [name |-> name, value |-> value, unit |-> unit, dims |-> dims]

buildTrafficMetricSet(dims, latency, requestBytes, responseBytes) ==
    << datum("RequestCount", 1, "Count", dims),
       datum("Latency", latency, "Milliseconds", dims),
       datum("RequestBodySize", requestBytes, "Bytes", dims),
       datum("ResponseBodySize", responseBytes, "Bytes", dims) >>

AggregateDims == [AppName |-> "app"]
RequestDims   == [AppName |-> "app", Endpoint |-> "/path", Method |-> "GET"]

buildMetrics(status, latency, requestBytes, responseBytes) ==
    buildTrafficMetricSet(AggregateDims, latency, requestBytes, responseBytes)
    \o buildTrafficMetricSet(RequestDims, latency, requestBytes, responseBytes)
    \o IF statusBucketMetricName(status) = {} THEN <<>>
       ELSE LET name == CHOOSE n \in statusBucketMetricName(status) : TRUE
            IN  << datum(name, 1, "Count", AggregateDims), datum(name, 1, "Count", RequestDims) >>

\* What probeEndpoint emits: the endpoint is up or not.
healthMetrics(up, latency) ==
    LET dims == [AppName |-> "app", Endpoint |-> "http://host/health"]
    IN  << datum("HealthStatus", IF up THEN 1 ELSE 0, "Count", dims),
           datum("HealthLatency", latency, "Milliseconds", dims) >>
=============================================================================
