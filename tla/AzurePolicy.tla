---------------------------- MODULE AzurePolicy ----------------------------
(***************************************************************************)
(* The Azure container policy scenario: exercise_azure_container_policy   *)
(* (runner.py lines 303-363) run under retry(..., attempts=6) by           *)
(* run_scenario (line 516).                                                *)
(*                                                                         *)
(* The server's container policy is abstracted to its publicAccess level  *)
(* and the shape of its storedAccessPolicies: "empty" ([]), "null" (None), *)
(* "e2e" (a list holding the runner's e2e-read entry), "other" (a list of  *)
(* other entries) or "nonlist" (any other JSON value).  What DELETE does   *)
(* is the backend's choice (ResetEffects); only the GET after it can tell. *)
(***************************************************************************)
EXTENDS Retry, Transport

CONSTANTS
    ResetEffects,  \* the policies a 2xx DELETE .../policy may leave
    MaxFaults      \* bound on the faults and bad replies of one run

StoredShapes == {"empty", "null", "e2e", "other", "nonlist"}

\* Every container policy.
PolicySet == [publicAccess : {"private", "container"}, stored : StoredShapes]

ASSUME ResetEffectsAssumption == ResetEffects \subseteq PolicySet
ASSUME AzureMaxFaultsAssumption == MaxFaults \in Nat
\* retry's exception set holds every exception the adapter raises.
ASSUME AzureErrorsAssumption == Exceptions \subseteq Errors

\* A container policy as the server keeps it.
Policy(pub, st) == [publicAccess |-> pub, stored |-> st]

\* The policy of a container nobody has touched.
Private == Policy("private", "empty")

\* The document the runner PUTs (lines 317-325).
E2EPolicy == Policy("container", "e2e")

\* GET's "exists": the policy is not the trivial one (spec section 3).
Exists(p) == p.publicAccess # "private" \/ p.stored \notin {"empty", "null"}

\* The checks of lines 337-346 on the GET after the PUT.
AppliedOk(p) == Exists(p) /\ p.publicAccess = "container" /\ p.stored = "e2e"

\* The checks of lines 353-361 on the GET after the reset: publicAccess is
\* private, and storedAccessPolicies is [] or None, or not a list at all.
ResetOk(p) == p.publicAccess = "private" /\ p.stored \in {"empty", "null", "nonlist"}

VARIABLES
    pc,           \* the next step of exercise_azure_container_policy
    policy,       \* the server's container policy
    resetEffect,  \* the policy the backend's DELETE leaves
    faults        \* faults and bad replies so far

vars == <<retryVars, pc, policy, resetEffect, faults>>

Steps == {"get", "validate", "put", "get_after", "reset", "get_after_reset",
          "done"}

TypeOK ==
    /\ RetryTypeOK
    /\ pc \in Steps
    /\ policy \in PolicySet
    /\ resetEffect \in ResetEffects
    /\ faults \in 0..MaxFaults

\* A container left private, or with the policy of an earlier aborted run.
Init ==
    /\ RetryInit
    /\ pc = "get"
    /\ policy \in {Private, E2EPolicy}
    /\ resetEffect \in ResetEffects
    /\ faults = 0

Raise(e) == CallRaises(e) /\ pc' = "get"

Fault == faults < MaxFaults /\ faults' = faults + 1

At(step) == CanCall /\ pc = step

Proceed(step, nxt) == At(step) /\ pc' = nxt /\ UNCHANGED retryVars

\* What a DELETE that reaches the server does.
AfterReset == resetEffect

-----------------------------------------------------------------------------
(* The steps of exercise_azure_container_policy.                           *)

\* Mutant of GetInitial: the initial GET requires a private container,
\* as if every attempt started on a clean server.
GetInitialExpectsPrivate ==
    /\ IF ~Exists(policy) THEN Proceed("get", "validate")
                          ELSE At("get") /\ Raise(RuntimeErr)
    /\ UNCHANGED <<policy, resetEffect, faults>>

\* GET .../policy (lines 312-315): any dict is accepted.
GetInitial ==
    /\ Proceed("get", "validate")
    /\ UNCHANGED <<policy, resetEffect, faults>>

\* POST .../policy/validate (lines 327-330): {"ok": false} raises a
\* RuntimeError; a rejection is a bad reply and counts against MaxFaults.
Validate ==
    /\ \/ Proceed("validate", "put") /\ UNCHANGED faults
       \/ At("validate") /\ Fault /\ Raise(RuntimeErr)
    /\ UNCHANGED <<policy, resetEffect>>

\* PUT .../policy (lines 332-333).
Put ==
    /\ Proceed("put", "get_after")
    /\ policy' = E2EPolicy
    /\ UNCHANGED <<resetEffect, faults>>

\* GET .../policy after the PUT (lines 335-346).
GetAfterPut ==
    /\ IF AppliedOk(policy) THEN Proceed("get_after", "reset")
                            ELSE At("get_after") /\ Raise(RuntimeErr)
    /\ UNCHANGED <<policy, resetEffect, faults>>

\* DELETE .../policy (lines 348-349).
Reset ==
    /\ Proceed("reset", "get_after_reset")
    /\ policy' = AfterReset
    /\ UNCHANGED <<resetEffect, faults>>

\* Mutant of GetAfterReset: the publicAccess check of lines 356-357 is
\* missing.
GetAfterResetNoAccessCheck ==
    /\ At("get_after_reset")
    /\ IF policy.stored \in {"empty", "null", "nonlist"}
         THEN CallReturns /\ pc' = "done"
         ELSE Raise(RuntimeErr)
    /\ UNCHANGED <<policy, resetEffect, faults>>

\* GET .../policy after the reset (lines 351-363); then the adapter returns.
GetAfterReset ==
    /\ At("get_after_reset")
    /\ IF ResetOk(policy) THEN CallReturns /\ pc' = "done"
                          ELSE Raise(RuntimeErr)
    /\ UNCHANGED <<policy, resetEffect, faults>>

\* A request meets a fault, or a GET a reply that is not a dict; a lost
\* write still took effect.
RequestFails(step, f, effect) ==
    /\ At(step)
    /\ Fault
    /\ Raise(IF f = "malformed" THEN RuntimeErr ELSE ExcOf(f))
    /\ policy' = IF Performed(f) THEN effect ELSE policy
    /\ UNCHANGED resetEffect

Backoff ==
    /\ Sleep
    /\ UNCHANGED <<pc, policy, resetEffect, faults>>

Next ==
    \/ GetInitial \/ Validate \/ Put \/ GetAfterPut \/ Reset
    \/ GetAfterReset \/ Backoff
    \/ \E s \in {"get", "get_after", "get_after_reset"},
          f \in FaultKinds \cup {"malformed"} :
          RequestFails(s, f, policy)
    \/ \E f \in FaultKinds :
          \/ RequestFails("validate", f, policy)
          \/ RequestFails("put", f, E2EPolicy)
          \/ RequestFails("reset", f, AfterReset)

Spec == Init /\ [][Next]_vars

-----------------------------------------------------------------------------
(***************************************************************************)
(* Properties.                                                             *)
(***************************************************************************)

\* Against a backend whose DELETE leaves a policy the runner accepts,
\* retry gives up on the scenario only after `attempts` faults or bad
\* replies: what an attempt cut short leaves on the server (the e2e
\* policy of a PUT whose reply was lost, or of an earlier run) never fails
\* a later attempt.  Each fault costs one attempt of six (line 516).
RetriesAbsorbFaults ==
    rstate = "raised" => ~ResetOk(resetEffect) \/ faults >= Attempts

\* When the retried adapter returns, the container is private again and
\* holds no stored access policy (spec section 8: "after reset,
\* publicAccess="private" and stored list is empty"), whatever it held
\* before and whatever the backend's DELETE did.
ResetOnReturn ==
    rstate = "returned" => /\ policy.publicAccess = "private"
                           /\ policy.stored \in {"empty", "null"}
=============================================================================
