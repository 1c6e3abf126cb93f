----------------------------- MODULE MCS3Policy -----------------------------
(* Model-checking instance of S3Policy. *)
EXTENDS S3Policy

CONSTANTS none

MCErrors == Exceptions
=============================================================================
