--------------------------- MODULE MCEnsureBucket ---------------------------
(* Model-checking instance of EnsureBucket.                                *)
EXTENDS EnsureBucket

CONSTANTS none

MCErrors == EnsureExceptions
=============================================================================
