---------------------------- MODULE MCJobPoller ----------------------------
(* Model-checking instance of JobPoller: a 4 s deadline stands for 180 s;  *)
(* a request takes up to 2 s, so the deadline can pass in mid-request.     *)
EXTENDS JobPoller
=============================================================================
