----------------------------- MODULE GcsPolicy -----------------------------
(***************************************************************************)
(* The GCS IAM policy scenario: exercise_gcs_iam_policy (runner.py lines  *)
(* 366-480) run under retry(..., attempts=3) by run_scenario (line 518),  *)
(* against a server that holds the bucket's IAM policy.                    *)
(*                                                                         *)
(* A policy is abstracted to the members of its roles/storage.objectViewer *)
(* binding, the only binding the runner touches; NoPolicy is a GET reply   *)
(* whose "policy" is not an object.  The runner's steps are one action     *)
(* each, a request either succeeding or meeting one of Transport's faults. *)
(***************************************************************************)
EXTENDS Retry, Transport

CONSTANTS
    Members,         \* members that can appear in the objectViewer binding
    AllUsers,        \* "allUsers"
    NoPolicy,        \* a reply whose "policy" is not a dict
    DeleteReplies,   \* what DELETE .../policy may answer (see deleteReply)
    StrictModes,     \* the values E2E_GCS_IAM may give `required`
    MaxFaults        \* bound on the faults and bad replies of one run

ASSUME MembersAssumption == AllUsers \in Members
ASSUME DeleteRepliesAssumption ==
    DeleteReplies \subseteq {"unsupported", "other_code", "accepted"}
ASSUME MaxFaultsAssumption == MaxFaults \in Nat
ASSUME StrictModesAssumption == StrictModes \subseteq BOOLEAN
\* A reply without a policy object is not a binding's member set.
ASSUME NoPolicyAssumption == \A s \in SUBSET Members : NoPolicy # s

\* The code the API answers a GCS policy DELETE with (line 477).
DeleteUnsupported == "bucket_policy_delete_unsupported"

\* The exceptions of this scenario: Transport's, and the rejection of DELETE.
GcsExceptions ==
    Exceptions \cup {HTTPFailure(400, ErrorBody(TRUE, DeleteUnsupported)),
                     HTTPFailure(400, ErrorBody(TRUE, "other_code"))}

\* retry's exception set holds every exception the scenario raises.
ASSUME GcsErrorsAssumption == GcsExceptions \subseteq Errors

VARIABLES
    required,     \* E2E_GCS_IAM set to a truthy value (line 373); the
                  \* environment does not change during a run
    pc,           \* the next step of exercise_gcs_iam_policy
    policy,       \* the server's policy of the bucket
    deleteReply,  \* how the server answers DELETE: "unsupported" (400 with
                  \* the code above), "other_code" (400, another code) or
                  \* "accepted" (2xx, policy removed)
    original,     \* the local `original`, as a member set
    skipped,      \* skip() returned instead of raising
    faults,       \* faults injected so far
    policy0,      \* history: the policy before the scenario
    published     \* history: the modified policy reached the server

vars == <<retryVars, required, pc, policy, deleteReply, original, skipped, faults,
          policy0, published>>

Steps == {"get", "validate", "put", "get_after", "restore", "delete", "done"}

Policies == {NoPolicy} \cup SUBSET Members

TypeOK ==
    /\ RetryTypeOK
    /\ required \in BOOLEAN
    /\ pc \in Steps
    /\ policy \in Policies
    /\ deleteReply \in DeleteReplies
    /\ original \in Policies \ {NoPolicy}
    /\ skipped \in BOOLEAN
    /\ faults \in 0..MaxFaults
    /\ policy0 \in Policies
    /\ published \in BOOLEAN

\* Mutant of Granted: `original = initial.get("policy")` without the
\* fallback to an empty binding list.
GrantedNoFallback(p) == p

\* The objectViewer members a policy grants; a missing policy grants none
\* (lines 395-397 fall back to {"version": 1, "bindings": []}).
Granted(p) == IF p = NoPolicy THEN {} ELSE p

\* Lines 399-432: the deep copy of original with allUsers added to the
\* objectViewer binding, the binding created when absent.
Modified(orig) == orig \cup {AllUsers}

Init ==
    /\ RetryInit
    /\ required \in StrictModes
    /\ pc = "get"
    /\ policy \in Policies
    /\ deleteReply \in DeleteReplies
    /\ original = {}
    /\ skipped = FALSE
    /\ faults = 0
    /\ policy0 = policy
    /\ published = FALSE

-----------------------------------------------------------------------------
(* How one step of the adapter ends.                                       *)

\* The adapter raises e to retry; the next attempt starts from the top.
Raise(e) == CallRaises(e) /\ pc' = "get"

\* The adapter returns normally.
Return == CallReturns /\ pc' = "done"

\* skip(where, e), lines 375-383 and the `return` after each call: in
\* strict mode re-raise e, otherwise log and end the scenario normally.
Skip(e) ==
    IF required THEN Raise(e) /\ UNCHANGED skipped
              ELSE Return /\ skipped' = TRUE

\* A fault of the transport, within the bound.
Fault(f) == /\ faults < MaxFaults
            /\ faults' = faults + 1

At(step) == CanCall /\ pc = step

-----------------------------------------------------------------------------
(* The steps of exercise_gcs_iam_policy.                                   *)

\* GET .../policy (lines 386-397): remember the policy as `original`.
GetInitial ==
    /\ At("get")
    /\ original' = Granted(policy)
    /\ pc' = "validate"
    /\ UNCHANGED <<retryVars, policy, deleteReply, skipped, faults, policy0,
                   published>>

GetInitialFails(f) ==
    /\ At("get")
    /\ Fault(f)
    /\ Skip(ExcOf(f))
    /\ UNCHANGED <<policy, deleteReply, original, policy0, published>>

\* GET .../policy answers 2xx with a body that is not a dict (lines
\* 392-393): a RuntimeError outside skip(), so it reaches retry even when
\* strict mode is off.  A bad reply of the server, counted with the faults.
GetInitialMalformed ==
    /\ At("get")
    /\ Fault("malformed")
    /\ Raise(RuntimeErr)
    /\ UNCHANGED <<policy, deleteReply, original, skipped, policy0, published>>

\* POST .../policy/validate (lines 434-441): the server accepts the
\* modified document, or answers {"ok": false}, a RuntimeError that is
\* skipped like a failed request.
Validate ==
    /\ At("validate")
    /\ pc' = "put"
    /\ UNCHANGED <<retryVars, policy, deleteReply, original, skipped, faults,
                   policy0, published>>

ValidateFails(f) ==
    /\ At("validate")
    /\ Fault(f)
    /\ Skip(ExcOf(f))
    /\ UNCHANGED <<policy, deleteReply, original, policy0, published>>

ValidateRejects ==
    /\ At("validate")
    /\ Fault("http")
    /\ Skip(RuntimeErr)
    /\ UNCHANGED <<policy, deleteReply, original, policy0, published>>

\* PUT .../policy with the modified document (lines 443-448).
Put ==
    /\ At("put")
    /\ policy' = Modified(original)
    /\ published' = TRUE
    /\ pc' = "get_after"
    /\ UNCHANGED <<retryVars, deleteReply, original, skipped, faults,
                   policy0>>

PutFails(f) ==
    /\ At("put")
    /\ Fault(f)
    /\ policy' = IF Performed(f) THEN Modified(original) ELSE policy
    /\ published' = (published \/ Performed(f))
    /\ Skip(ExcOf(f))
    /\ UNCHANGED <<deleteReply, original, policy0>>

\* GET .../policy after the PUT (lines 450-459): a reply without a policy
\* object is a RuntimeError outside skip(), so it reaches retry.
GetAfterPut ==
    /\ At("get_after")
    /\ IF policy # NoPolicy
         THEN pc' = "restore" /\ UNCHANGED retryVars
         ELSE Raise(RuntimeErr)
    /\ UNCHANGED <<policy, deleteReply, original, skipped, faults, policy0,
                   published>>

GetAfterPutFails(f) ==
    /\ At("get_after")
    /\ Fault(f)
    /\ Skip(ExcOf(f))
    /\ UNCHANGED <<policy, deleteReply, original, policy0, published>>

\* PUT .../policy with `original` (lines 461-469): best effort unless
\* strict, where the failure propagates to retry.
Restore ==
    /\ At("restore")
    /\ policy' = original
    /\ pc' = "delete"
    /\ UNCHANGED <<retryVars, deleteReply, original, skipped, faults, policy0,
                   published>>

RestoreFails(f) ==
    /\ At("restore")
    /\ Fault(f)
    /\ policy' = IF Performed(f) THEN original ELSE policy
    /\ IF required THEN Raise(ExcOf(f))
                 ELSE pc' = "delete" /\ UNCHANGED retryVars
    /\ UNCHANGED <<deleteReply, original, skipped, policy0, published>>

\* DELETE .../policy (lines 471-478): only an HTTPFailure whose code is
\* bucket_policy_delete_unsupported ends the scenario well.  A success
\* raises "Expected GCS IAM delete to fail"; another code raises a new
\* RuntimeError.
DeleteReplyException ==
    IF deleteReply = "unsupported"
      THEN HTTPFailure(400, ErrorBody(TRUE, DeleteUnsupported))
      ELSE HTTPFailure(400, ErrorBody(TRUE, "other_code"))

\* Mutant of Delete: the `raise RuntimeError("Expected GCS IAM delete to
\* fail")` after a successful DELETE is missing.
DeleteAcceptsSuccess ==
    /\ At("delete")
    /\ IF deleteReply = "accepted"
         THEN /\ policy' = NoPolicy
              /\ Return
         ELSE /\ UNCHANGED policy
              /\ IF DeleteReplyException.code = DeleteUnsupported
                   THEN Return
                   ELSE Raise(RuntimeErr)
    /\ UNCHANGED <<deleteReply, original, skipped, faults, policy0, published>>

Delete ==
    /\ At("delete")
    /\ IF deleteReply = "accepted"
         THEN /\ policy' = NoPolicy
              /\ Raise(RuntimeErr)
         ELSE /\ UNCHANGED policy
              /\ IF DeleteReplyException.code = DeleteUnsupported
                   THEN Return
                   ELSE Raise(RuntimeErr)
    /\ UNCHANGED <<deleteReply, original, skipped, faults, policy0, published>>

\* A transient HTTPFailure has another code and becomes a RuntimeError; a
\* network error or a timeout is not an HTTPFailure and propagates as is.
DeleteFails(f) ==
    /\ At("delete")
    /\ Fault(f)
    /\ policy' = IF Performed(f) /\ deleteReply = "accepted"
                   THEN NoPolicy ELSE policy
    /\ IF ExcOf(f).kind = "HTTPFailure"
         THEN Raise(RuntimeErr)
         ELSE Raise(ExcOf(f))
    /\ UNCHANGED <<deleteReply, original, skipped, policy0, published>>

\* retry's backoff between two attempts of the adapter.
Backoff ==
    /\ Sleep
    /\ UNCHANGED <<pc, policy, deleteReply, original, skipped, faults, policy0,
                   published>>

AdapterStep ==
    \/ GetInitial
    \/ GetInitialMalformed
    \/ Validate
    \/ ValidateRejects
    \/ Put
    \/ GetAfterPut
    \/ Restore
    \/ Delete
    \/ Backoff
    \/ \E f \in FaultKinds :
          \/ GetInitialFails(f)
          \/ ValidateFails(f)
          \/ PutFails(f)
          \/ GetAfterPutFails(f)
          \/ RestoreFails(f)
          \/ DeleteFails(f)

\* A step of the adapter or of retry; E2E_GCS_IAM stays as it was.
Next == AdapterStep /\ UNCHANGED required

Spec == Init /\ [][Next]_vars

-----------------------------------------------------------------------------
(***************************************************************************)
(* Properties.                                                             *)
(***************************************************************************)

\* When the retried adapter returns, either it skipped and strict mode is
\* off, or the run really exercised the endpoint: the modified policy
\* reached the server and DELETE was refused with
\* bucket_policy_delete_unsupported (spec 4.5: strict mode turns skips into
\* failures; the DELETE check is a negative contract test).
VerifiedUnlessSkipped ==
    rstate = "returned" =>
        IF skipped THEN ~required
                   ELSE /\ published
                        /\ deleteReply = "unsupported"

\* When the retried adapter returns without skipping, the bucket grants
\* what it granted before the scenario ("Restore original policy to leave
\* the emulator in a clean state", line 461).
RestoresOriginal ==
    rstate = "returned" /\ ~skipped => Granted(policy) = Granted(policy0)
=============================================================================
