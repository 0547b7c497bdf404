----------------------------- MODULE MCLogSink -----------------------------
(***************************************************************************)
(* Small instances of LogSink.  One traffic entry whose metrics need three *)
(* messages, and three data published under the run context, one of which  *)
(* cannot be encoded; or, for the stranded event, one plain log entry.     *)
(***************************************************************************)
EXTENDS LogSink, TLC

CONSTANTS traffic, plain, health, k1, k2

MCOp == [c \in Call |->
    CASE c = traffic -> "LogWithMetrics" [] c = plain -> "Log" [] c = health -> "Publish"]
MCMessages == [c \in Call |-> IF c = plain THEN 1 ELSE 3]

\* Sizes against MaxEventBytes = 5 and MaxBatchBytes = 9, with an overhead of
\* 2: an event of 5 bytes leaves no room for another, one of 6 is oversized,
\* and of those of 1 byte a batch is full by number before it is by bytes.
MCSize == [e \in Event |->
    CASE e = <<traffic, 1>> -> 5
      [] e = <<traffic, 2>> -> 6
      [] OTHER -> 1]
MCUnencodable == {<<health, 2>>} \cap Event
=============================================================================
