---------------------------- MODULE MCLifecycle ----------------------------
(***************************************************************************)
(* Lifecycle with the two CloudWatch sinks of main, and a target that      *)
(* succeeds, fails or is ended by a signal.                                *)
(***************************************************************************)
EXTENDS Lifecycle

MCClosers == <<"traffic", "health">>
MCExitCodes == {-1, 0, 3}
=============================================================================
