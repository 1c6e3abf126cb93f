------------------------------ MODULE S3Policy ------------------------------
(***************************************************************************)
(* The S3 bucket policy scenario: exercise_bucket_policy (runner.py lines *)
(* 246-298) run under retry(..., attempts=6) by run_scenario (line 514).   *)
(*                                                                         *)
(* The server keeps whether the bucket has a policy.  The runner never    *)
(* cleans up after an aborted run, so a bucket may start with one.  What  *)
(* DELETE does is the backend's choice (DeleteEffects): "reset" removes    *)
(* the policy, "noop" answers 2xx and leaves it; only the GET after the    *)
(* DELETE can tell.  A GET may also answer 2xx with an envelope that fails *)
(* the runner's shape checks ("malformed"), a protocol violation.          *)
(***************************************************************************)
EXTENDS Retry, Transport

CONSTANTS
    DeleteEffects,  \* what a 2xx DELETE .../policy does on the server
    ValidateOk,     \* what POST .../policy/validate may answer for "ok"
    MaxFaults       \* bound on the faults and bad replies of one run

ASSUME DeleteEffectsAssumption == DeleteEffects \subseteq {"reset", "noop"}
ASSUME ValidateOkAssumption == ValidateOk \subseteq BOOLEAN
ASSUME S3MaxFaultsAssumption == MaxFaults \in Nat
\* retry's exception set holds every exception the adapter raises.
ASSUME S3ErrorsAssumption == Exceptions \subseteq Errors

\* A GET whose 2xx reply fails the shape checks of lines 257-262, 287 or 295.
GetFaultKinds == FaultKinds \cup {"malformed"}

\* The exception of a GET fault: a malformed envelope is a RuntimeError the
\* runner raises itself.
GetExc(f) == IF f = "malformed" THEN RuntimeErr ELSE ExcOf(f)

VARIABLES
    pc,           \* the next step of exercise_bucket_policy
    exists,       \* the server's bucket has a policy
    deleteEffect, \* the backend's DELETE behaviour
    faults,       \* faults and bad replies so far
    checkFailed   \* history: an attempt ended on a failed response check

vars == <<retryVars, pc, exists, deleteEffect, faults, checkFailed>>

Steps == {"get", "validate", "put", "get_after", "delete", "get_after_del",
          "done"}

TypeOK ==
    /\ RetryTypeOK
    /\ pc \in Steps
    /\ exists \in BOOLEAN
    /\ deleteEffect \in DeleteEffects
    /\ faults \in 0..MaxFaults
    /\ checkFailed \in BOOLEAN

Init ==
    /\ RetryInit
    /\ pc = "get"
    /\ exists \in BOOLEAN
    /\ deleteEffect \in DeleteEffects
    /\ faults = 0
    /\ checkFailed = FALSE

Raise(e) == CallRaises(e) /\ pc' = "get"

Fault == faults < MaxFaults /\ faults' = faults + 1

At(step) == CanCall /\ pc = step

\* A request of step `step` answered well: go on to `nxt`.
Proceed(step, nxt) == At(step) /\ pc' = nxt /\ UNCHANGED retryVars

\* A response check of the runner fails: it raises a RuntimeError.
CheckFails(step) == At(step) /\ Raise(RuntimeErr) /\ checkFailed' = TRUE

-----------------------------------------------------------------------------
(* The steps of exercise_bucket_policy.                                    *)

\* Mutant of GetInitial: the initial GET requires a bucket without a
\* policy, as if every attempt started on a clean server.
GetInitialExpectsNone ==
    /\ IF ~exists THEN Proceed("get", "validate") /\ UNCHANGED checkFailed
                  ELSE CheckFails("get")
    /\ UNCHANGED <<exists, deleteEffect, faults>>

\* GET .../policy (lines 255-262): the reply must name the bucket and carry
\* "exists"; either value of exists is accepted.
GetInitial ==
    /\ Proceed("get", "validate")
    /\ UNCHANGED <<exists, deleteEffect, faults, checkFailed>>

\* POST .../policy/validate (lines 277-280): {"ok": false} raises.  A
\* rejection is a bad reply of the server and counts against MaxFaults.
Validate ==
    /\ \E ok \in ValidateOk :
          IF ok THEN Proceed("validate", "put") /\ UNCHANGED <<checkFailed, faults>>
                ELSE CheckFails("validate") /\ Fault
    /\ UNCHANGED <<exists, deleteEffect>>

\* PUT .../policy with the public-read document (lines 282-283).
Put ==
    /\ Proceed("put", "get_after")
    /\ exists' = TRUE
    /\ UNCHANGED <<deleteEffect, faults, checkFailed>>

\* GET .../policy after the PUT (lines 285-288): exists must be true.
GetAfterPut ==
    /\ IF exists THEN Proceed("get_after", "delete") /\ UNCHANGED checkFailed
                 ELSE CheckFails("get_after")
    /\ UNCHANGED <<exists, deleteEffect, faults>>

\* DELETE .../policy (lines 290-291).
Delete ==
    /\ Proceed("delete", "get_after_del")
    /\ exists' = (exists /\ deleteEffect = "noop")
    /\ UNCHANGED <<deleteEffect, faults, checkFailed>>

\* Mutant of GetAfterDelete: the check copied from line 287, `is not True`.
GetAfterDeleteCopiedCheck ==
    /\ IF exists THEN At("get_after_del") /\ CallReturns /\ pc' = "done"
                      /\ UNCHANGED checkFailed
                 ELSE CheckFails("get_after_del")
    /\ UNCHANGED <<exists, deleteEffect, faults>>

\* GET .../policy after the DELETE (lines 293-298): exists must be false;
\* then the adapter returns.
GetAfterDelete ==
    /\ IF ~exists THEN At("get_after_del") /\ CallReturns /\ pc' = "done"
                       /\ UNCHANGED checkFailed
                  ELSE CheckFails("get_after_del")
    /\ UNCHANGED <<exists, deleteEffect, faults>>

\* A GET meets a fault or a malformed envelope; nothing changes on the server.
GetFails(step, f) ==
    /\ At(step)
    /\ Fault
    /\ Raise(GetExc(f))
    /\ checkFailed' = (checkFailed \/ f = "malformed")
    /\ UNCHANGED <<exists, deleteEffect>>

\* A write meets a fault; a lost reply still took effect.
WriteFails(step, f, effect) ==
    /\ At(step)
    /\ Fault
    /\ Raise(ExcOf(f))
    /\ exists' = IF Performed(f) THEN effect ELSE exists
    /\ UNCHANGED <<deleteEffect, checkFailed>>

Backoff ==
    /\ Sleep
    /\ UNCHANGED <<pc, exists, deleteEffect, faults, checkFailed>>

Next ==
    \/ GetInitial \/ Validate \/ Put \/ GetAfterPut \/ Delete
    \/ GetAfterDelete \/ Backoff
    \/ \E s \in {"get", "get_after", "get_after_del"}, f \in GetFaultKinds :
          GetFails(s, f)
    \/ \E f \in FaultKinds :
          \/ WriteFails("validate", f, exists)
          \/ WriteFails("put", f, TRUE)
          \/ WriteFails("delete", f, exists /\ deleteEffect = "noop")

Spec == Init /\ [][Next]_vars

-----------------------------------------------------------------------------
(***************************************************************************)
(* Properties.                                                             *)
(***************************************************************************)

\* Against a backend whose DELETE really removes the policy, retry gives
\* up on the scenario only after `attempts` faults or bad replies: what an
\* attempt cut short leaves on the server (a policy whose PUT reply was
\* lost, a DELETE that took effect unanswered, a policy of an earlier run)
\* never fails a later attempt.  Each fault costs one attempt of six
\* (line 514), and no more.
RetriesAbsorbFaults ==
    rstate = "raised" => deleteEffect = "noop" \/ faults >= Attempts

\* A protocol violation or a failed assertion is never retried: the attempt
\* it ends is the last one (spec section 7, error taxonomy: "never retried
\* - they abort the scenario immediately").
CheckFailureNotRetried == checkFailed => rstate = "raised"
=============================================================================
