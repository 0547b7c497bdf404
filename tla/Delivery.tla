------------------------------ MODULE Delivery ------------------------------
(***************************************************************************)
(* What an asynchronous telemetry worker promises to the calls that feed   *)
(* it: cwlogs.Sink and metrics.AsyncPublisher both implement it.           *)
(*                                                                         *)
(* Events are accepted one at a time, at most Capacity of them are         *)
(* outstanding, and they are settled in the order of acceptance, a batch   *)
(* of at most MaxBatch at a time.  Settling a batch is all or nothing: the *)
(* service stores it, or the loss is reported (or both, when the service   *)
(* stored a batch whose answer never arrived).  Once a stop is requested   *)
(* the worker may finish, but only after it settled everything that had    *)
(* been accepted by then.                                                  *)
(***************************************************************************)
EXTENDS Integers, Sequences, Functions

CONSTANTS
    Event,      \* everything a caller may hand over
    Capacity,   \* the events the worker can hold without settling any
    MaxBatch    \* the largest batch

VARIABLES
    accepted,   \* the events whose enqueue returned nil, in order
    settled,    \* the prefix of accepted the worker is finished with
    stored,     \* what the service holds, in the order it was stored
    reported,   \* the events whose loss was reported
    stopping,   \* a stop was requested
    mark,       \* how many events had been accepted by then
    finished    \* the worker is gone

vars == <<accepted, settled, stored, reported, stopping, mark, finished>>

Init ==
    /\ accepted = <<>>
    /\ settled = <<>>
    /\ stored = <<>>
    /\ reported = {}
    /\ stopping = FALSE
    /\ mark = 0
    /\ finished = FALSE

\* An event enters at most once.  Nothing stops it from entering after a stop
\* request, or even after the worker finished.
Accept(e) ==
    /\ e \notin Range(accepted)
    /\ Len(accepted) < Len(settled) + Capacity
    /\ accepted' = Append(accepted, e)
    /\ UNCHANGED <<settled, stored, reported, stopping, mark, finished>>

\* The worker may leave once everything accepted before the stop is settled.
MayFinish == stopping /\ Len(settled') >= mark

Settle(n) ==
    /\ ~finished
    /\ Len(settled) + n =< Len(accepted)
    /\ LET b == SubSeq(accepted, Len(settled) + 1, Len(settled) + n)
       IN  /\ settled' = settled \o b
           /\ \/ stored' = stored \o b /\ reported' = reported
              \/ stored' \in {stored, stored \o b} /\ reported' = reported \cup Range(b)
    /\ finished' \in {FALSE, MayFinish}
    /\ UNCHANGED <<accepted, stopping, mark>>

Stop ==
    /\ ~stopping
    /\ stopping' = TRUE
    /\ mark' = Len(accepted)
    /\ UNCHANGED <<accepted, settled, stored, reported, finished>>

Finish ==
    /\ ~finished
    /\ settled' = settled
    /\ MayFinish
    /\ finished' = TRUE
    /\ UNCHANGED <<accepted, stored, reported, stopping, mark>>

Next ==
    \/ \E e \in Event : Accept(e)
    \/ \E n \in 1 .. MaxBatch : Settle(n)
    \/ Stop
    \/ Finish

Spec == Init /\ [][Next]_vars
=============================================================================
