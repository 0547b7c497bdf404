---------------------------- MODULE RetryPolicy ----------------------------
(***************************************************************************)
(* The retry policy from the environment to the waits it causes:           *)
(* loadRetryPolicy (internal/config/config.go) reads eight variables in    *)
(* turn and stops at the first error, newRetryTransport normalizes the     *)
(* result (internal/proxy/retry.go) and retryBackoff turns it into the     *)
(* delay after each attempt.                                               *)
(*                                                                         *)
(* A variable's text is abstracted to what its parser makes of it.  Times  *)
(* are numbers of some unit; a multiplier is a number of halves, so that   *)
(* the truncation of a delay shows, or NaN or Inf, which ParseFloat reads  *)
(* too.  The rounding of floating point is left out.                       *)
(***************************************************************************)
EXTENDS Integers, Sequences, FiniteSets

CONSTANTS
    Raw,       \* Raw[key]: the texts the variable may hold
    Default,   \* Default[key]: the value used instead of an absent one
    Absent,    \* the variable is not set
    Blank,     \* it holds nothing but spaces
    Garbage,   \* its text cannot be parsed, or is negative
    NaN, Inf

\* The order in which loadRetryPolicy reads.
Keys == << "MAX_ATTEMPTS", "INITIAL_BACKOFF", "MAX_BACKOFF", "BACKOFF_MULTIPLIER", "METHODS",
           "STATUS_CODES", "ON_TRANSPORT_ERRORS", "BODY_BUFFER_BYTES" >>
Key  == {Keys[i] : i \in DOMAIN Keys}

\* The status codes a response may have, for the loader and for normalize.
StatusCode == 100 .. 599

\* What the parsers make of a text: a number, a list of ranges, a set of names or a
\* Boolean; and the defaults are within the limits.
PolicyAssumption ==
    /\ DOMAIN Raw = Key /\ DOMAIN Default = Key
    /\ {Absent, Blank, Garbage, NaN, Inf} \cap Int = {} /\ NaN # Inf
    /\ \A key \in {"MAX_ATTEMPTS", "INITIAL_BACKOFF", "MAX_BACKOFF", "BODY_BUFFER_BYTES"} :
           Raw[key] \subseteq Int \cup {Absent, Blank, Garbage}
    /\ Raw["BACKOFF_MULTIPLIER"] \subseteq Int \cup {Absent, Blank, Garbage, NaN, Inf}
    /\ Raw["STATUS_CODES"] \subseteq Seq(Int \X Int \cup {Garbage}) \cup {Absent, Blank, Garbage}
    /\ Default["MAX_ATTEMPTS"] \in Nat \ {0}
    /\ Default["BACKOFF_MULTIPLIER"] \in Nat \ {0, 1}
    /\ {Default["INITIAL_BACKOFF"], Default["MAX_BACKOFF"], Default["BODY_BUFFER_BYTES"]} \subseteq Nat
    /\ Default["STATUS_CODES"] \subseteq StatusCode

VARIABLES
    phase,     \* "load", "failed", "loaded", "attempting" or "direct" (no retries)
    next,      \* the position in Keys
    policy,    \* the values of the settings read so far
    used,      \* the transport's policy, after normalize
    waits      \* the delays after attempts 1, 2, ...

vars == <<phase, next, policy, used, waits>>

Init ==
    /\ phase = "load"
    /\ next = 1
    /\ policy = <<>>
    /\ used = <<>>
    /\ waits = <<>>

----------------------------------------------------------------------------
(* Parsing. *)

\* The minima the loader demands; halves for the multiplier.
Minimum == [MAX_ATTEMPTS |-> 1, INITIAL_BACKOFF |-> 0, MAX_BACKOFF |-> 0,
            BACKOFF_MULTIPLIER |-> 2, BODY_BUFFER_BYTES |-> 0]

\* A NaN is not less than anything.
Less(x, y) == x \notin {NaN, Inf} /\ x < y

\* A token of the status list is a pair: a range, or twice the same code.
StatusOf(token) ==
    LET low == IF token[1] =< token[2] THEN token[1] ELSE token[2]
    IN  low .. (token[1] + token[2] - low)

StatusToken(token) == token # Garbage /\ \A i \in 1 .. 2 : token[i] \in StatusCode

\* Mutant of Accepts: a parse error is ignored.
IgnoresErrors(key, raw) == TRUE

\* Whether the parser of the key accepts the text.
Accepts(key, raw) ==
    /\ raw # Garbage
    /\ key \in DOMAIN Minimum => ~Less(raw, Minimum[key])
    /\ key = "STATUS_CODES" => \A i \in DOMAIN raw : StatusToken(raw[i])

\* What it makes of it.  A blank text counts as absent, except that a blank
\* list of status codes is an empty list.
Parsed(key, raw) ==
    CASE raw \in {Absent, Blank} -> IF raw = Blank /\ key = "STATUS_CODES" THEN {} ELSE Default[key]
      [] raw \notin {Absent, Blank} /\ key = "STATUS_CODES" -> UNION {StatusOf(raw[i]) : i \in DOMAIN raw}
      [] OTHER -> raw

\* Mutant of Contradicts: the two backoffs are not compared.
NeverContradicts(key, value) == FALSE

\* The one check between two settings.
Contradicts(key, value) == key = "MAX_BACKOFF" /\ value < policy.INITIAL_BACKOFF

\* One variable is read; the first error ends loadRetryPolicy.
ReadVariable(raw) ==
    /\ phase = "load"
    /\ LET key == Keys[next]
           value == Parsed(key, raw)
           ok == (raw \in {Absent, Blank} \/ Accepts(key, raw)) /\ ~Contradicts(key, value)
       IN  /\ raw \in Raw[key]
           /\ policy' = IF ok THEN [k \in DOMAIN policy \cup {key} |-> IF k = key THEN value ELSE policy[k]]
                              ELSE policy
           /\ next' = next + 1
           /\ phase' = IF ~ok THEN "failed" ELSE IF next = Len(Keys) THEN "loaded" ELSE "load"
    /\ UNCHANGED <<used, waits>>

----------------------------------------------------------------------------
(* The transport. *)

Larger(x, y) == IF x >= y THEN x ELSE y

\* ToUpper, on the names the methods may be written in.
Upper(m) == CASE m = "get" -> "GET" [] m = "post" -> "POST" [] OTHER -> m

normalize(p) ==
    [p EXCEPT !.MAX_ATTEMPTS = Larger(@, 1),
              !.INITIAL_BACKOFF = Larger(@, 0),
              !.MAX_BACKOFF = Larger(@, p.INITIAL_BACKOFF),
              !.BACKOFF_MULTIPLIER = IF Less(@, 2) THEN 2 ELSE @,
              !.METHODS = {Upper(m) : m \in @},
              !.STATUS_CODES = @ \cap StatusCode,
              !.BODY_BUFFER_BYTES = Larger(@, 0)]

enabled(p) ==
    /\ p.MAX_ATTEMPTS > 1
    /\ p.METHODS # {}
    /\ p.STATUS_CODES # {} \/ p.ON_TRANSPORT_ERRORS

newRetryTransport ==
    /\ phase = "loaded"
    /\ used' = normalize(policy)
    /\ phase' = IF enabled(used') THEN "attempting" ELSE "direct"
    /\ UNCHANGED <<next, policy, waits>>

\* Mutant of Clamp: the maximum is forgotten.
Unclamped(delay, max) == delay

Clamp(delay, max) == IF delay > max THEN max ELSE delay

\* Power[n][b] is b to the n.
Power[n \in Nat] == [b \in Nat |-> IF n = 0 THEN 1 ELSE b * Power[n - 1][b]]

\* The delays retryBackoff may return.  Converting NaN to a Duration gives zero
\* on one processor and the least integer on another; both make waitForRetry
\* return at once.
retryBackoff(p, attempt) ==
    LET initial == p.INITIAL_BACKOFF
        m == p.BACKOFF_MULTIPLIER
        grows == initial > 0 /\ attempt > 1
    IN  CASE ~grows -> {Clamp(initial, p.MAX_BACKOFF)}
          [] grows /\ m = NaN -> {0}
          [] grows /\ m = Inf -> {p.MAX_BACKOFF}
          [] OTHER -> {Clamp((initial * Power[attempt - 1][m]) \div Power[attempt - 1][2], p.MAX_BACKOFF)}

\* An attempt fails and is not the last one: the transport waits.
Wait ==
    /\ phase = "attempting"
    /\ Len(waits) + 1 < used.MAX_ATTEMPTS
    /\ \E delay \in retryBackoff(used, Len(waits) + 1) : waits' = Append(waits, delay)
    /\ UNCHANGED <<phase, next, policy, used>>

Next ==
    \/ phase = "load" /\ \E raw \in Raw[Keys[next]] : ReadVariable(raw)
    \/ newRetryTransport
    \/ Wait

Spec == Init /\ [][Next]_vars

----------------------------------------------------------------------------
(* Properties. *)

\* Type invariant.
TypeOK ==
    /\ phase \in {"load", "failed", "loaded", "attempting", "direct"}
    /\ next \in 1 .. Len(Keys) + 1
    /\ DOMAIN policy = {Keys[i] : i \in 1 .. (IF phase = "failed" THEN next - 2 ELSE next - 1)}
    /\ \A key \in DOMAIN policy \cap DOMAIN Minimum : policy[key] \in Nat \cup {NaN, Inf}
    /\ \A i \in DOMAIN waits : waits[i] \in Nat

\* What the operator configured is what the transport uses: the loader's checks
\* leave normalize nothing to repair, so no setting is changed silently.
UsedAsConfigured ==
    phase \in {"attempting", "direct"}
        => \A key \in Key \ {"METHODS"} : used[key] = policy[key]

\* "Bounded exponential backoff" (SPEC.md): a request never waits longer than the
\* maximum, and so no longer than MAX_ATTEMPTS - 1 maxima in all; it waits at
\* least the initial backoff and each time no less than before.  The latter is not so for
\* a multiplier of NaN, which passes the comparisons of parseFloatEnv and normalize.
BackoffBounded ==
    /\ Len(waits) > 0 => Len(waits) < policy.MAX_ATTEMPTS
    /\ \A i \in DOMAIN waits :
           /\ waits[i] =< policy.MAX_BACKOFF
           /\ policy.BACKOFF_MULTIPLIER # NaN =>
                  /\ waits[i] >= policy.INITIAL_BACKOFF
                  /\ i > 1 => waits[i] >= waits[i - 1]
=============================================================================
