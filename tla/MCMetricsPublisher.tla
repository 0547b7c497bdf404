------------------------- MODULE MCMetricsPublisher -------------------------
(***************************************************************************)
(* MetricsPublisher with a call of three data, one of one and an empty     *)
(* one, against a channel of one and a batch of two.                       *)
(***************************************************************************)
EXTENDS MetricsPublisher, TLC

CONSTANTS c1, c2, c3

MCData == (c1 :> 3) @@ (c2 :> 1) @@ (c3 :> 0)
=============================================================================
