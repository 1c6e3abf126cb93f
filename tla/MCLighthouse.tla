---------------------------- MODULE MCLighthouse ----------------------------
(***************************************************************************)
(* lighthouse_auth.py with a DevTools deadline of three polls: enough for  *)
(* Chrome to come up after one or two refused polls, or never.            *)
(***************************************************************************)
EXTENDS Lighthouse
=============================================================================
