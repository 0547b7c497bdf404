# A TLA+ model of cwproxy

cwproxy is a reverse proxy that stands in front of one application, logs every
exchange, meters it, probes the application's health and ships all of this to
standard output and to CloudWatch Logs. This directory holds TLA+ modules that
model its concurrent core and its sequential algorithms, TLC configurations that
check them on small instances, and TLAPS proofs of their safety properties and of
two refinements for instances of every size.

Paths below are relative to the repository. `tlc -config X.cfg M` in this
directory runs a configuration, `tlapm M.tla` checks the proofs of a module whose name
ends in `Proofs`.

## 1. The system

| Component | State | Operations | Interacts with |
|---|---|---|---|
| CloudWatch sink, `internal/aws/cwlogs/sink.go` | bounded channel, closed flag, stop and done channels, the batch of the worker | `Log`, `LogWithMetrics`, `LogHealthWithMetrics`, `Publish`, `Close`, worker `run` | called by request goroutines, probes and `main`; calls PutLogEvents |
| Metrics publisher, `internal/metrics/metrics.go` | the same, for data instead of events | `Publish`, `Close`, worker `run` | a client (main installs a no-op instead) |
| Retrying transport, `internal/proxy/retry.go` | per request: attempt, buffered body, response in hand | `RoundTrip` and its helpers | called by ReverseProxy, calls the HTTP transport |
| Proxy handler and capture, `internal/proxy/handler.go`, `capture.go` | per exchange: two captures, recorder, status | `ServeHTTP`, `ModifyResponse`, `ErrorHandler`, recovery, `finalize` | the server above, ReverseProxy below, the sinks |
| Health runner, `internal/health/runner.go` | round, ticker, probes | `Run`, `probeAll`, `probeEndpoint`, `emit` | endpoints, both sinks, the run context |
| Lifecycle, `cmd/cwproxy/main.go`, and child process, `internal/inspector` | the phase of `run`, server, shutdown, child, signals, sinks | start, port detection, clean-up, select loop, shutdown, close, exit | everything |
| Stdout sink, multi-sink, `cwlogs/stdout.go`, `logging/sink.go` | a mutex | the sink methods, `write` | called by handler and runner |
| EMF encoding, `cwlogs/emf.go` | none (pure) | `partitionDatums`, `buildEMF` | the sinks |
| Configuration, `internal/config` | none after startup | `LoadFromEnv`, `loadRetryPolicy`, `ResolveHealthURLs` | `main`, transport, runner, handler |
| Metadata, `internal/metadata` | none after startup | `Load`, `InferDefaultAppName`, `InferAWSRegion` | `main`; ECS, Kubernetes, EC2 |
| Entries and hashes, `internal/logging` | none (pure) | `ParseBody`, `MarshalForCloudWatch`, structural hash | handler, runner, sinks |

What is hard here is above all the order of things:
requests, probes, ticks, `Close`, signals, the end of the child and a handful of
timeouts interleave freely; PutLogEvents may time out after it stored its batch;
the transport may read a request body after the exchange is over; the shutdown
may give up on requests that still run. The hazards, each with the line where it
bites and the properties that watch it, are listed in `PROJECT.json`.

What makes each component correct:

* the sinks: what is accepted is delivered once, in order, or its loss is
  reported; callers learn of what was not accepted; `Close` waits for the flush;
* the transport: the backend sees the whole body at every attempt and never sees
  a request twice that must not be repeated; nothing leaks; a cancelled request
  ends;
* the handler: one entry for each exchange, never claiming a success the
  client did not see;
* the runner: rounds do not overlap, no false alarm reaches CloudWatch, it stops;
* the lifecycle: no orphan, the right exit code, telemetry outlives traffic, the
  program ends when told to;
* the way to the sinks: lines on stdout are whole, one sink's failure is neither
  the other's nor forgotten, nobody is left waiting for the mutex;
* the encodings: the events of a call carry exactly its data; a body is shown
  completely or marked; one shape, one hash;
* the start: settings mean what SPEC.md says, and metadata that is slow, missing or
  wrong costs neither the start nor what other sources know.

## 2. Modules

| Module | Models | Checked by |
|---|---|---|
| `Delivery` | the abstract service both asynchronous workers implement | as `ServiceSpec` in two runs, as a part in `Telemetry` |
| `LogSink` | the CloudWatch sink | `MCLogSink`, two configurations |
| `MetricsPublisher` | the metrics publisher | `MCMetricsPublisher` |
| `RetryTransport` | one request in the retrying transport | `MCRetryTransport` |
| `ProxyExchange` | one exchange in the handler | two configurations |
| `HealthRunner` | the health runner | `MCHealthRunner.cfg` |
| `Lifecycle` | main and the child process | `MCLifecycle`, two configurations |
| `Telemetry` | exchanges and probes, multi-sink, stdout sink and, by INSTANCE of `Delivery`, the CloudWatch sink | two configurations |
| `MetricData` | the metric data of exchanges and probes | `MCSequential` |
| `Emf` | partition and encoding of data in one call of a sink | `MCSequential` |
| `BodyParser` | `ParseBody` and the XML decoder | `MCSequential` |
| `CloudWatchText` | `MarshalForCloudWatch` | `MCSequential` |
| `Signature` | the structural hash | `MCSequential` |
| `RetryPolicy` | the retry settings, from the environment to the delays | `MCSequential` |
| `HealthURLs` | `ResolveHealthURLs` and the users of its result | `MCSequential` |
| `Startup` | metadata, name, log groups, port, region | `MCSequential` |
| `Sequential` | the eight above as one specification | `MCSequential` |
| `LogSinkProofs`, `MetricsPublisherProofs`, `RetryTransportProofs`, `ProxyExchangeProofs`, `HealthRunnerProofs`, `LifecycleProofs`, `TelemetryProofs`, `SequentialProofs` | theorems about the module they are named after | tlapm |

The eight from `MetricData` to `Startup` run in one goroutine each and share no state. `Sequential` makes one
specification of them: a behaviour chooses one of the seven state machines and runs it
on one of its inputs, the variables of the others rest. Its constants are those of the
modules, so the proofs are about every set of inputs; `MCSequential` gives them small ones.

Operators whose comment begins with "Mutant of" are deliberately wrong variants of
a definition. They occur in no specification; each stands for a plausible bug
that breaks the property `PROJECT.json` pairs it with.

### Delivery

A bounded FIFO service: `Accept`, `Settle` (a whole batch is stored, or reported,
or, when the answer was lost, both), `Stop`, `Finish`. It does not promise that
what is accepted after the stop is settled, because the code does not.

### LogSink

An event is a pair of a call and the number of its message; its text is its size
and whether it can be encoded. A call is `Begin` (closed flag, partition), then for
each message `Check` (encoding, size, context) and `Send` (the non-blocking send),
two steps because other goroutines run between them. `Close` is `CloseStore` and
`CloseStop` (the two statements inside `once.Do`), `CloseAgain` (another caller) and
`CloseReturn`. The worker is `Receive` (a channel receive with the whole of
`appendEvent`, whose flush it may begin), `Tick`, `SeeStop`, `Drained` and one
`PutLogEvents` step for each attempt. `accepted`, `settled`, `stored`, `reported`
and `mark` record what happened and guide nothing.

PutLogEvents is external: it answers ok, throttled (the retryable codes),
rejected or timeout, and a timeout may or may not have stored the batch.

### MetricsPublisher

The same shape, with its differences: the flag is looked at once for each call, a
done context ends the call, a full batch is flushed after the append and not
before the next one, there is no retry and no byte limit.

### RetryTransport

One request with its policy; requests share nothing else. A body is the sequence
of its positions, so that an offset or a lost prefix shows. `Start`, `Prepare`,
then `BeginAttempt`, `EndAttempt` and `WaitEnds` or `WaitCancelled` until the return;
`Cancel` at any moment. A delay is either zero or positive: its length is not
modelled.

### ProxyExchange

One exchange. Bodies are numbers of bytes that move in chunks. The transport's
goroutine reads the request (`ReadRequest`) and captures the chunk in another step
(`CaptureRequest`), also after the exchange is over. ReverseProxy, the transport and
the server are external: error, panic, final answer, 1xx, 101, copy, aborted copy.
`finalize` is two steps because it looks at the request capture twice; as nothing
guards the capture, each field is seen before or after a chunk that is on its way
(`Seen`).

### HealthRunner

The runner and one goroutine for each endpoint. `EmitStdout`, `EmitCloud` (the look
at the context) and `Send` are separate steps. There is no bound on the number of
rounds: only the current round is kept.

### Lifecycle

`main` is the position in `run`. The child goes through running, reaped, recorded
(result set) and done (channel closed), since `main` looks at the last two
separately. It may fork a helper that listens. The server's goroutine and the one
of `server.Shutdown` take steps of their own. Opening the sinks is one step with
every combination of outcomes.

### Telemetry

Each exchange and each probe goes through `Finalize` (the time is taken), `Lock`,
`WriteBody`, `WriteNewline` (the two writes of `StdoutSink.write`, each of which may
fail, the first after a part), `Enqueue` (the CloudWatch sink, if it could be opened)
and `Report` (the joined error). The CloudWatch sink of the exchanges is the service
`Delivery`, which `LogSink` is shown to implement, together with what PutLogEvents
asks for: a batch that is not in the order of its timestamps is refused. Which of
the two CloudWatch sinks exist is chosen at the start.

### Emf, MetricData

One call of `logWithMetrics` or `Publish`. `Join`, `Split`, `Reject` and `EndOfData` are
the steps of `partitionDatums`; `Repartition`, `WriteEvent` and `WriteFails` those of
`buildEMF` on each batch, which partitions it once more, with the keys of a metric
event for all but the first batch of a log call. `Extracted` is what CloudWatch reads
from an event, the reference for what was written. Names and values are atoms; one
value, NaN, cannot be written as JSON and differs from itself.

### BodyParser, CloudWatchText, Signature

`BodyParser` reads an XML document token by token; its state is the stack of the
calls of `decodeXMLElement`. `Meaning` defines what the log should show of an element as
a whole. `CloudWatchText` scans the encoded entry with the two flags of
`insertNewlineAfterSummary`. `Signature` compares two bodies that grow in the same
surroundings. A signature is a text, a sequence of the tokens the code writes; keys are
such sequences too and are written raw, as in the code, so that one may hold the
delimiters of the signature. The hash is an operator of the environment, `Digest`, of
which nothing is assumed: equal texts have equal hashes, and that is all.

### RetryPolicy, HealthURLs, Startup

`RetryPolicy` reads the eight variables in the order of `loadRetryPolicy`, normalizes
and waits. A multiplier is a number of halves, NaN or Inf. `HealthURLs` adds an entry
at a time and resolves the list. `Startup` asks the task, the container, Kubernetes and
EC2 in the order of `metadata.Load`, each answer with a delay against one budget of
time; then `DetectPort`, `LoadFromEnv` and `resolveAWSRegion`.

## 3. Runs

| Run | Shows |
|---|---|
| `log_sink` | type invariant; nothing lost or reordered; stored in order and once; stored or reported; batch limits and exact byte count; Close flushes; calls account for their events; refinement of `Delivery`; what is accepted before a stop is settled in the end; a stop ends the worker |
| `log_sink_stranded` | **violated**: after Close returned nil an accepted event is left behind |
| `metrics_publisher` | a nil of Publish or Close is kept; refinement of `Delivery` |
| `retry_transport` | whole bodies, no forbidden repetition, responses released, bounded attempts (the panic is unreachable, at most one late attempt), a cancelled request returns |
| `proxy_exchange` | captures within the limit and marked; one entry for each exchange; a logged success is complete; entries are consistent |
| `proxy_exchange_status` | **violated**: an aborted copy is logged as 500, a 101 as 502 |
| `lifecycle` | no orphan, exit codes, a clean exit is flushed, sinks outlive traffic, the program ends when told to |
| `lifecycle_launcher` | **violated**: port detection fails although a descendant listens |
| `health_runner` | rounds do not overlap, no false alarm in CloudWatch, ticks are served and cancellation ends the runner |
| `telemetry` | lines intact under one mutex; failures independent and no loss without a report; every call returns |
| `telemetry_order` | **violated**: a batch out of chronological order is refused as a whole |
| `sequential` | the encodings, hashes and settings agree with their references |

The four violated runs state what SPEC.md or README.md says; `findings` in
`PROJECT.json` quotes the lines. Four lesser disagreements showed up while modelling.
The models take the steps of the code that lead to them, and the properties claim
nothing of those states, so that the passing runs say neither that the code is right
there nor that the documents are wrong:

* The transport hands the last chunk of a request body to the capture between the two
  looks of `finalize` (handler.go:195 and 215; there is no lock): the entry is made of a
  body cut without a mark. `EntryIsConsistent` excepts an entry that raced in this way.
  (SPEC.md:252: "Truncated request or response bodies must be marked".)
* A multiplier of NaN passes the comparisons of `parseFloatEnv` (config.go:404) and of
  `normalize`, and every delay but the first vanishes. `BackoffBounded` bounds the delays
  from below for the other multipliers. (SPEC.md:152: "The multiplier must be greater
  than or equal to `1`.")
* An APP_PORT that is set and blank turns the port detection off (main.go:65) and then
  names no port (config.go:194), so that the proxy forwards to 8080 whatever the target
  listens on. `PortOfTheChild` leaves this combination out. (SPEC.md:49: "If `APP_PORT` is
  not explicitly configured, `cwproxy` must automatically detect the child process
  `LISTEN` port.")
* Null and other scalars have different signatures (hash.go:61 and 102).
  `OneShapeOneHash` is about bodies with nulls in the same places; `SignatureTellsShapes`
  uses the shapes of SPEC.md. (SPEC.md:255: "based on keys and container shape only,
  ignoring scalar values".)

Properties of a module that are not listed in a configuration are conjuncts of the
one that is: `NilIsKept`, `AttemptsBounded`, `EndsWhenTold`, `RunnerGoesOnAndEnds`, and
those of `MCSequential`. `PROJECT.json` lists a mutant for nearly every conjunct.

### Bounds

* `log_sink`: two calls of 3 messages each, one oversized and one that cannot be
  encoded, the second under the run context, and two calls of Close, against a
  queue of 2 and a batch of 2 events or 9 bytes: the queue overflows, the batch
  overflows by number alone and by bytes alone, a call is cut off by the context, a
  batch is retried (2 attempts) and given up, a closer waits in `once.Do`.
* `metrics_publisher`: data of 3, 1 and 0, queue 1, batch 2, two closers.
* `retry_transport`: bodies of 0 to 4 bytes around a buffer of 2 (and no buffer), announced
  and chunked; up to 3 attempts, as the third is the first that follows a wait
  after a repeated attempt.
* `proxy_exchange`: bodies of up to 3 bytes against a limit of 2, in chunks of
  every size.
* `lifecycle`: both sinks, three exit codes, the signal channel's real capacity of 2.
* `health_runner`: two good endpoints and a malformed one, unbounded rounds.
* `telemetry`: two exchanges and a probe, so that two callers wait while one writes
  and two events share a batch. One timestamp is enough here because a failing
  service may refuse any batch; `telemetry_order` needs two, and a service that works.
* `sequential`: for `Emf` every sequence of up to 3 data over 12 that hold each reason
  of `canAdd`, one sequence beyond the limit of names (6 for 100), and the data of
  exchanges at both ends of every status range; documents of 8 tokens, the least with
  three children of one name, and one level more than the limit of 3 (for 64);
  summaries of 6 characters; pairs of trees one level deeper than the limit of 2 (for 32),
  with three keys, one of which, `a:v;b`, reads like two fields, and a hash that has
  collisions; every setting
  below, at and above its limit; lists of 3 health URLs; delays such that two answers
  fit into the budget and three do not.

### Fairness

* The goroutine of a sink is scheduled, its ticker ticks, and each PutLogEvents
  call has a deadline of 2 s: weak fairness of the worker as a whole. Weak fairness
  is enough: while draining, the queue only refills finitely often because the
  calls are finitely many.
* `once.Do` and `Close`, whose caller has a deadline: weak fairness.
* The transport: only after the cancellation, when each of its blocking calls
  returns.
* Telemetry: a goroutine that can go on does, and writes to stdout return: weak
  fairness; `sync.Mutex` hands itself to the longest waiter after a millisecond:
  strong fairness of `Lock`.
* The runner: each probe has a timeout of 5 s; a Go select chooses among ready
  cases at random, so a case that is ready again and again is chosen some time:
  strong fairness of `Leave`.
* The lifecycle: every wait of `main` past the opening of the sinks has a
  deadline. The AWS calls that open the sinks have none, so nothing is assumed of
  them, and the liveness properties begin after that phase or stop at it.
  A child that obeys exits after it has been told; one that does not obey keeps
  cwproxy waiting for ever, by design.

## 4. Proofs

Each theorem holds for every value of the constants that satisfies the assumption
of the module; the run beside it shows the same on a small instance.

| Module | Theorem | States |
|---|---|---|
| `LogSinkProofs` | `TypeCorrect` | `Spec => []TypeOK` |
| | `FIFO` | `Spec => []NothingLostOrReordered` |
| | `Limits` | `Spec => []BatchWithinLimits` |
| | `InOrderOnce` | `Spec => []StoredInOrderOnce` |
| | `NoSilentLoss` | `Spec => []StoredOrReported` |
| | `CloseWaits` | `Spec => []CloseFlushes` |
| | `CallsAccount` | `Spec => []CallsAccountForEvents` |
| | `BytesExact` | `Spec => []BatchBytesExact` |
| | `Implements` | `Spec => ServiceSpec` |
| `MetricsPublisherProofs` | `NilKept` | `Spec => []NilIsKept` |
| | `Implements` | `Spec => ServiceSpec` |
| `RetryTransportProofs` | `WholeBody` | `Spec => []WholeBodyEveryAttempt` |
| | `NoRepetition` | `Spec => []NeverRepeated` |
| | `NoResponseLeak` | `Spec => []ResponsesReleased` |
| | `Bounded` | `Spec => []AttemptsBounded` |
| `ProxyExchangeProofs` | `Truncation` | `Spec => []TruncationIsMarked` |
| | `OneEntry` | `Spec => []OneEntryPerExchange` |
| | `SuccessComplete` | `Spec => []SuccessIsComplete` |
| | `EntryConsistent` | `Spec => []EntryIsConsistent` |
| `HealthRunnerProofs` | `RoundsApart` | `Spec => []RoundsDoNotOverlap` |
| | `NoFalseDown` | `Spec => []NoFalseDownInCloud` |
| `LifecycleProofs` | `Orphans` | `Spec => []NoOrphan` |
| | `ChildsExitCode` | `Spec => []ExitCodeIsChilds` |
| | `CleanExit` | `Spec => []CleanExitIsFlushed` |
| | `SinksLast` | `Spec => []SinksOutliveTraffic` |
| `TelemetryProofs` | `Lines` | `Spec => []LinesIntact` |
| | `Losses` | `Spec => []LossIsReported` |
| `SequentialProofs` | `Encodable` | `Spec => []EncodingSucceeds` |
| | `DataCarried` | `Spec => []EventsCarryTheData` |
| | `EntriesFaithful` | `Spec => []EntriesAreFaithful` |
| | `ShapeHash` | `Spec => []OneShapeOneHash` |
| | `PolicyKept` | `Spec => []RetriesAsConfigured` |
| | `URLsResolved` | `Spec => []HealthURLsAsSpecified` |
| | `SettingsKept` | `Spec => []SettingsAsSpecified`, the two above |
| | `PlaceFound` | `Spec => []StartupFindsItsPlace` |

Almost none of the invariants is inductive alone. Each module defines `IndInv`, which
TLC has checked on the constants of its run (`SequentialProofs` has an invariant for each
algorithm instead); lemmas go through the actions one by one and `Inductive` puts them
together. What the invariants add, and why:

**LogSink.** `SinkAssumption` says that the limits are positive (which `New` ensures)
and that the largest event fits into an empty batch (true of the defaults, 256 KiB +
26 against 900 KiB, which main always uses; `New` does not check it for other
options).

* `CallInv`: a call that has not returned is within its messages, and one that
  is about to send has passed the size check;
* `AcceptedInv`: accepted events are not oversized and lie behind the position
  of their call, hence none is accepted twice: `StoredInOrderOnce` needs this;
* `FlushInv`: an event is held back only during a flush, and never during the last
  one: `MarkInv` needs this;
* `BytesInv`: an empty batch has no bytes: together with the size check this gives
  the byte limit;
* `StoredInv`: what is stored is settled, in the order of acceptance, so a batch
  that is sent again cannot be there already;
* `StopInv`: one closer at a time is inside `once.Do`, and the worker drains only
  after the stop;
* `MarkInv`: what was accepted before the stop is settled, or in the last batch;
* `TrackInv`, on top of `IndInv`, for `CallsAccountForEvents`: the error of a call says
  whether one of the messages behind its position is missing, at every position;
* `Summed`, likewise for `BatchBytesExact`. `TotalWeight` is a recursive function, whose sums
  are the ones that begin with 0 and grow by an element's weight (`SumsUnique`: by the
  least index where two such sums differ); appending an event adds its weight
  (`SumsAppend`), so the invariant follows the steps of the worker.

**The refinements.** `Implements` of both workers maps the queue, the batch and the event
in hand to what `Delivery` has accepted and not settled. The initial state maps to the
initial state; `Send` is `Accept`, the last attempt at a batch is `Settle`, `CloseStop` is
`Stop`, the worker's last step is `Finish`, and all other steps leave the mapped state
alone. `NothingLostOrReordered` makes a flushed batch the part of `accepted` that comes next.

**MetricsPublisher.** The same with `FIFO`, `CallInv` (a call that would return nil has had
everything behind its position accepted), `BatchInv` (outside of a Put there is room in the
batch) and `StopInv`. `PublisherAssumption`: the capacities are positive, as `New` ensures.

**RetryTransport.** `BodyInv` is the heart: a replayable body was saved completely, and
otherwise what was read ahead and what is left make up the body until the only
attempt takes both. `LoopInv` says that a second attempt and a wait need a replayable
body, `CountInv` ties the calls of the transport to the counter of the loop, `RepeatInv`,
`OpenInv` and `LateInv` say where the forbidden, the open and the late cannot be.
`TransportAssumption` is about requests as net/http gives them to a transport.

**ProxyExchange.** `CopyInv` and `BytesInv`: the bytes at the client, in the capture and
unread add up to the backend's length; `AnsweredInv`: behind the copy and the recovery
the status is one of the handler's own, or the whole response went out; `EntryOf`: what an
entry has from the state, and that after an undisturbed snapshot nothing reaches the
capture any more.

**HealthRunner.** `ProbeInv`: a probe that met the cancellation proves that the context is
done, and a context stays done, so the later look in `EmitCloud` stops it.

**Lifecycle.** `FailedInv`, `StartedInv`, `ServerInv` and `EndInv` say what each phase of `run`
may rely on; `ExitInv` collects it at the exit.

**Telemetry.** `MutexInv`: the holder is the one who writes; `LineInv`: a body at the end
of stdout belongs to the one who is about to write its newline, or has failed to;
`StageInv`: what a caller has behind it at each place, the joined error being not nil
exactly when a sink refused; `SettledInv`: what the service settled is stored or reported.

**Emf.** `canAdd` and `add` work on two maps, datum by datum, and the second partition
repeats that with other keys. `Fits` says of a batch as a whole what they check, datum
against datum, so that no induction over the batch is needed: `Extended` (what `canAdd`
lets in keeps the batch one that fits) and `Allowed` (a batch that fits can be built up
again from any prefix, with the same or fewer keys reserved). `Encodable` then follows from
`MetricReserved \subseteq LogReserved`. `FitsIsCompatible` shows that `Fits` is the reference
`Compatible`, and `GivesBack` that CloudWatch reads from the fields and directives of such a
batch exactly its data. `BatchesAreTheData` keeps, as the state goes, the places where the
data were cut. That an exchange is one event follows from `ExchangeFits`: its data agree
with each other and stay within an event, which `ExchangeAssumption` gives room for.
`EmfAssumption` also says that no datum is named like one of its own dimensions, without
which `GivesBack` is false; cwproxy builds no such datum.

**BodyParser.** The decoder works on a stack of calls, token by token; `Meaning` is about
whole elements, level by level, and as recursive as the bodies below. `BodyInv` says that
the calls on the stack are exactly those of the open elements: `FrameOf` is what the
children so far amount to, computed from the element instead of from the steps. A text
(`TextMore`) and a child (`ChildMore`, `FieldsMore`: one value becomes a list at the second,
which grows from the third on) take a frame to that of the element with one more child, and
at its end tag a frame is the meaning of its element (`ElementShown`). A child's level is one
less than its parent's, so the root's meaning is known when it ends, whatever the limit.

**CloudWatchText.** `Laid` is how an encoded entry begins. `Places` says where each character
of the summary stands in it (`Flattened`), and `TextInv` that within the summary the scan is
always in front of such a character with `escaped` off, or behind its backslash with
`escaped` on: so only the quote behind the last one ends the string.

**Signature.** The bodies of at most n levels, their signatures and their shapes are
recursive functions of n. The definition of such a function says something of it only if
a function that satisfies it exists: `AllLevels` builds the three level by level, and
`Levels` concludes what each level is. `GroupedAbove` is the step from one level to the
next: if parts of one shape have one signature, so have objects and arrays made of them,
at any depth: an object's text is put together from its parts' key by key, an array's
depends on the set of its parts' alone. `AllGrouped` concludes by the least level where
this would fail, and the invariant `ShapeInv` says that the two bodies have no more levels
than surroundings. Nothing is assumed of keys or of `Digest`. The converse is false of
the code for keys with delimiters and for colliding hashes; what is left of it,
`SignatureTellsShapes`, is about reading a text back, an induction over the text, and is
only model-checked.

**RetryPolicy.** `Powers` is the same for powers; `Grows` and `Backoffs` bound the wait.
`RetryInv` follows the settings from the loader to their use: nothing that the loader
accepts is changed by `normalize` (`NothingToRepair`). `PolicyAssumption` says what
the parsers can make of a text and that the defaults are within the limits.

**HealthURLs.** The invariant `HealthInv` is about each resolved URL; `Resolved` derives it
entry by entry from the definition. `EntryAssumption` lists the forms an entry can have.

**Startup.** `Answered`: every region an answer named is still there to be asked for when
the region is chosen; `Detected`: a deployment was inferred only where Kubernetes was found;
`PortFound` and `Configured` say the same of the port and the name.

Only model-checked, and why:

* liveness (`EventuallySettled`, `StopEndsWorker`, `CancelledReturns`, `EndsWhenTold`,
  `RunnerGoesOnAndEnds`, `CallsReturn`): the prover does not do fairness and ENABLED;
* `SignatureTellsShapes`, see Signature above;
* the four violated properties.

## 5. Not modelled

* Texts: JSON, the normalisation of headers, cookies and numbers, the rewriting of
  URLs and headers by the handler, the names of log streams and the calls that
  create them (their outcome is in `Lifecycle`).
* What hashes cannot tell apart. Keys are not escaped in a signature, so
  `{"a:v;b": 1}` and `{"a": 1, "b": 1}` have one; `SignatureTellsShapes` is therefore about
  bodies whose keys hold no delimiter. Three bytes of SHA-256 also collide; no property
  depends on their not doing so. `queries_hash` and `global_hash` hash further
  concatenations of the same signatures.
* Attributes of an XML element that share a local name (`a:id` and `b:id`): the code
  keeps the last, and so does the reference of `XMLIsComplete`, which shares
  `AttributeFields` with the model. No document says which one is to be kept.
* Floating point: the delay is computed without rounding.
* A datum that is named like one of its own dimensions, which `canAdd` does not look
  for and cwproxy does not build (`EmfAssumption`).
* The checks of PutLogEvents other than the order of timestamps.
* Deadlines the code does not have: a metrics client that hangs, and the AWS calls
  that open the sinks, hold their caller for ever.
* Enumeration of processes and sockets; the Windows build; the web pages;
  `logging.StdoutSink` and `NopSink`, which main does not use.

## 6. Plan

1. (done) `Delivery`, `LogSink`, its proofs; `RetryTransport`; `ProxyExchange`;
   `Lifecycle`; `HealthRunner`; `MetricsPublisher`.
2. (done) The sequential algorithms against reference definitions; `Telemetry`, the
   composition of exchanges, probes and sinks; timestamps.
3. (done) Proofs of the safety invariants of all modules and of both refinements of
   `Delivery`.
