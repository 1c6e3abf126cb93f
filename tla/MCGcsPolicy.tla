---------------------------- MODULE MCGcsPolicy ----------------------------
(* Model-checking instance of GcsPolicy: the objectViewer binding can hold  *)
(* allUsers and one other member; the run sees up to MaxFaults faults.     *)
EXTENDS GcsPolicy

CONSTANTS allUsers, alice, none, noPolicy

MCMembers == {allUsers, alice}

MCErrors == GcsExceptions
=============================================================================
