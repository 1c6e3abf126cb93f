------------------------------ MODULE MCRetry ------------------------------
(* Model-checking instance of Retry: four attempts of an fn that can raise *)
(* any of three distinguishable exceptions.                               *)
EXTENDS Retry

CONSTANTS e1, e2, e3, none

MCErrors == {e1, e2, e3}
=============================================================================
