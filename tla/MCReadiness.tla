---------------------------- MODULE MCReadiness ----------------------------
(* Model-checking instance of Readiness. *)
EXTENDS Readiness

CONSTANTS none
=============================================================================
