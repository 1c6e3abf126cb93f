-------------------------- MODULE GcsPolicyProofs --------------------------
(***************************************************************************)
(* Proofs about exercise_gcs_iam_policy under retry (module GcsPolicy),   *)
(* for every number of attempts, fault bound, member set and DELETE       *)
(* behaviour of the server: the state stays well typed, and when the      *)
(* retried adapter returns it either skipped outside strict mode or saw   *)
(* the modified policy published and DELETE refused with                  *)
(* bucket_policy_delete_unsupported.  The retry part of the argument is   *)
(* RetryProofs' invariant.                                                 *)
(***************************************************************************)
EXTENDS GcsPolicy, RetryProofs, TLAPS

USE AttemptsAssumption, NoErrAssumption, MembersAssumption,
    DeleteRepliesAssumption, MaxFaultsAssumption, GcsErrorsAssumption,
    StrictModesAssumption

\* The exception of a transport fault is one retry records.
LEMMA ExcOfErrors == \A f \in FaultKinds : ExcOf(f) \in Errors
<1>1. \A f \in FaultKinds : ExcOf(f) \in Exceptions
  BY Zenon DEF FaultKinds, ExcOf, Exceptions
<1>2. QED
  BY <1>1 DEF GcsExceptions

\* The RuntimeError the adapter raises itself is one retry records.
LEMMA RuntimeErrErrors == RuntimeErr \in Errors
BY DEF GcsExceptions, Exceptions, NetworkError

\* Only the refusal with bucket_policy_delete_unsupported carries that code.
LEMMA DeleteCode ==
    DeleteReplyException.code = DeleteUnsupported <=> deleteReply = "unsupported"
BY DEF DeleteReplyException, HTTPFailure, ErrorBody, ParseErrorCode,
       DeleteUnsupported

\* The inductive invariant: retry's, the types, and the two facts the
\* property rests on: a skip happens only outside strict mode (E2E_GCS_IAM
\* never changes), and the steps after the PUT are reached only once the
\* modified policy was published.
GIInv ==
    /\ TypeOK
    /\ RetryIInv
    /\ skipped => ~required
    /\ pc \in {"get_after", "restore", "delete"} => published
    /\ VerifiedUnlessSkipped

\* The initial state satisfies GIInv.
LEMMA InitGIInv == Init => GIInv
<1> SUFFICES ASSUME Init PROVE GIInv
  OBVIOUS
<1>1. RetryIInv
  BY InitIInv DEF Init
<1>2. {} \in Policies \ {NoPolicy}
  <2>1. {} \in SUBSET Members
    OBVIOUS
  <2>2. {} # NoPolicy
    BY <2>1, NoPolicyAssumption
  <2>3. QED
    BY <2>1, <2>2 DEF Policies
<1>3. faults \in 0..MaxFaults
  BY DEF Init
<1>4. TypeOK
  BY <1>1, <1>2, <1>3 DEF Init, TypeOK, RetryIInv, Steps
<1>5. QED
  BY <1>1, <1>4 DEF Init, GIInv, RetryInit, VerifiedUnlessSkipped

\* An attempt that raises e goes back to the top and does not return.
LEMMA RaiseGIInv ==
    ASSUME RetryIInv, NEW e \in Errors, Raise(e)
    PROVE  RetryIInv' /\ rstate' # "returned" /\ pc' = "get"
<1>1. RetryIInv'
  BY RaisesIInv DEF Raise
<1>2. QED
  BY <1>1 DEF Raise, CallRaises

\* An attempt that returns ends the scenario.
LEMMA ReturnGIInv ==
    ASSUME RetryIInv, Return
    PROVE  RetryIInv' /\ rstate' = "returned" /\ pc' = "done"
BY ReturnsIInv DEF Return, CallReturns

\* What a request's reply leaves as `original` is a member set.
LEMMA GrantedType ==
    ASSUME NEW p \in Policies
    PROVE  Granted(p) \in Policies \ {NoPolicy}
<1>1. {} # NoPolicy /\ (p # NoPolicy => p \in SUBSET Members)
  BY NoPolicyAssumption DEF Policies
<1>2. QED
  BY <1>1, NoPolicyAssumption DEF Granted, Policies

\* The modified policy is a member set.
LEMMA ModifiedType ==
    ASSUME NEW o \in Policies \ {NoPolicy}
    PROVE  Modified(o) \in Policies \ {NoPolicy}
<1>1. o \in SUBSET Members
  BY DEF Policies
<1>2. Modified(o) \in SUBSET Members
  BY <1>1 DEF Modified
<1>3. QED
  BY <1>2, NoPolicyAssumption DEF Policies

\* skip(): outside strict mode the scenario returns having skipped;
\* in strict mode the attempt raises and skipped is unchanged.
LEMMA SkipGIInv ==
    ASSUME RetryIInv, skipped \in BOOLEAN, skipped => ~required,
           NEW e \in Errors, Skip(e), required \in BOOLEAN
    PROVE  /\ RetryIInv'
           /\ skipped' \in BOOLEAN
           /\ skipped' => ~required
           /\ pc' \in {"get", "done"}
           /\ rstate' = "returned" => skipped' /\ ~required
<1>1. CASE required
  <2>1. Raise(e) /\ skipped' = skipped
    BY <1>1 DEF Skip
  <2>2. QED
    BY <1>1, <2>1, RaiseGIInv
<1>2. CASE ~required
  <2>1. Return /\ skipped' = TRUE
    BY <1>2 DEF Skip
  <2>2. QED
    BY <1>2, <2>1, ReturnGIInv
<1>3. QED
  BY <1>1, <1>2

\* Every step of the scenario under retry keeps GIInv.
LEMMA NextGIInv == GIInv /\ [Next]_vars => GIInv'
<1> SUFFICES ASSUME GIInv, [Next]_vars PROVE GIInv'
  OBVIOUS
<1> USE DEF GIInv, TypeOK, RetryIInv, retryVars
<1>1. CASE GetInitial /\ UNCHANGED required
  <2>1. RetryIInv' /\ original' \in Policies \ {NoPolicy}
    BY <1>1, StutterIInv, GrantedType DEF GetInitial
  <2>2. QED
    BY <1>1, <2>1 DEF GetInitial, At, CanCall, Steps, VerifiedUnlessSkipped
<1>2. CASE Validate /\ UNCHANGED required
  <2>1. RetryIInv'
    BY <1>2, StutterIInv DEF Validate
  <2>2. QED
    BY <1>2, <2>1 DEF Validate, At, CanCall, Steps, VerifiedUnlessSkipped
<1>3. ASSUME NEW e \in Errors, NEW f,
             Fault(f) /\ Skip(e) /\ UNCHANGED required,
             UNCHANGED <<deleteReply, original, policy0>>,
             policy' \in Policies, published' \in BOOLEAN
      PROVE  GIInv'
  <2>1. /\ RetryIInv'
        /\ skipped' \in BOOLEAN
        /\ skipped' => ~required
        /\ pc' \in {"get", "done"}
        /\ rstate' = "returned" => skipped' /\ ~required
    BY <1>3, SkipGIInv
  <2>2. faults' \in 0..MaxFaults
    BY <1>3 DEF Fault
  <2>3. QED
    BY <2>1, <2>2, <1>3 DEF Steps, VerifiedUnlessSkipped
<1>4. CASE ValidateRejects /\ UNCHANGED required
  <2>1. /\ Fault("http") /\ Skip(RuntimeErr) /\ UNCHANGED required
        /\ UNCHANGED <<deleteReply, original, policy0>>
        /\ policy' \in Policies /\ published' \in BOOLEAN
    BY <1>4 DEF ValidateRejects
  <2>2. QED
    BY <2>1, <1>3, RuntimeErrErrors
<1>5. ASSUME NEW f \in FaultKinds,
             \/ GetInitialFails(f) \/ ValidateFails(f) \/ GetAfterPutFails(f)
             \/ PutFails(f),
             UNCHANGED required
      PROVE  GIInv'
  <2>1. ExcOf(f) \in Errors
    BY ExcOfErrors
  <2>2. policy' \in Policies
    BY <1>5, ModifiedType DEF GetInitialFails, ValidateFails,
                              GetAfterPutFails, PutFails
  <2>3. /\ Fault(f) /\ Skip(ExcOf(f)) /\ UNCHANGED required
        /\ UNCHANGED <<deleteReply, original, policy0>>
        /\ published' \in BOOLEAN
    BY <1>5 DEF GetInitialFails, ValidateFails, GetAfterPutFails, PutFails
  <2>4. QED
    BY <2>1, <2>2, <2>3, <1>3
<1>6. CASE Put /\ UNCHANGED required
  <2>1. RetryIInv' /\ policy' \in Policies
    BY <1>6, StutterIInv, ModifiedType DEF Put
  <2>2. QED
    BY <1>6, <2>1 DEF Put, At, CanCall, Steps, VerifiedUnlessSkipped
<1>7. CASE GetAfterPut /\ UNCHANGED required
  <2>1. CASE policy # NoPolicy
    <3>1. RetryIInv'
      BY <1>7, <2>1, StutterIInv DEF GetAfterPut
    <3>2. QED
      BY <1>7, <2>1, <3>1 DEF GetAfterPut, At, CanCall, Steps,
                              VerifiedUnlessSkipped
  <2>2. CASE policy = NoPolicy
    <3>1. RetryIInv' /\ rstate' # "returned" /\ pc' = "get"
      BY <1>7, <2>2, RaiseGIInv, RuntimeErrErrors DEF GetAfterPut
    <3>2. QED
      BY <1>7, <3>1 DEF GetAfterPut, Steps, VerifiedUnlessSkipped
  <2>3. QED
    BY <2>1, <2>2
<1>8. CASE Restore /\ UNCHANGED required
  <2>1. RetryIInv'
    BY <1>8, StutterIInv DEF Restore
  <2>2. QED
    BY <1>8, <2>1 DEF Restore, At, CanCall, Steps, VerifiedUnlessSkipped,
                      Policies
<1>9. ASSUME NEW f \in FaultKinds, RestoreFails(f), UNCHANGED required
      PROVE  GIInv'
  <2>1. faults' \in 0..MaxFaults /\ policy' \in Policies
    BY <1>9 DEF RestoreFails, Fault, Policies
  <2>2. CASE required
    <3>1. RetryIInv' /\ rstate' # "returned" /\ pc' = "get"
      BY <1>9, <2>2, RaiseGIInv, ExcOfErrors DEF RestoreFails
    <3>2. QED
      BY <1>9, <2>1, <3>1 DEF RestoreFails, Steps, VerifiedUnlessSkipped
  <2>3. CASE ~required
    <3>1. RetryIInv'
      BY <1>9, <2>3, StutterIInv DEF RestoreFails
    <3>2. QED
      BY <1>9, <2>1, <2>3, <3>1 DEF RestoreFails, At, CanCall, Steps,
                                    VerifiedUnlessSkipped
  <2>4. QED
    BY <2>2, <2>3
<1>10. CASE Delete /\ UNCHANGED required
  <2>1. CASE deleteReply = "accepted"
    <3>1. RetryIInv' /\ rstate' # "returned" /\ pc' = "get"
      BY <1>10, <2>1, RaiseGIInv, RuntimeErrErrors DEF Delete
    <3>2. QED
      BY <1>10, <2>1, <3>1 DEF Delete, Steps, VerifiedUnlessSkipped, Policies
  <2>2. CASE deleteReply = "unsupported"
    <3>1. Return
      BY <1>10, <2>2, DeleteCode DEF Delete
    <3>2. RetryIInv' /\ rstate' = "returned" /\ pc' = "done"
      BY <3>1, ReturnGIInv
    <3>3. published
      BY <1>10 DEF Delete, At
    <3>4. QED
      BY <1>10, <2>2, <3>2, <3>3 DEF Delete, Steps, VerifiedUnlessSkipped
  <2>3. CASE deleteReply = "other_code"
    <3>1. Raise(RuntimeErr)
      BY <1>10, <2>3, DeleteCode DEF Delete
    <3>2. RetryIInv' /\ rstate' # "returned" /\ pc' = "get"
      BY <3>1, RaiseGIInv, RuntimeErrErrors
    <3>3. QED
      BY <1>10, <2>3, <3>2 DEF Delete, Steps, VerifiedUnlessSkipped
  <2>4. QED
    BY <2>1, <2>2, <2>3
<1>11. ASSUME NEW f \in FaultKinds, DeleteFails(f), UNCHANGED required
       PROVE  GIInv'
  <2>1. faults' \in 0..MaxFaults /\ policy' \in Policies
    BY <1>11 DEF DeleteFails, Fault, Policies
  <2>2. \E e \in Errors : Raise(e)
    <3>1. ExcOf(f) \in Errors /\ RuntimeErr \in Errors
      BY ExcOfErrors, RuntimeErrErrors
    <3>2. Raise(RuntimeErr) \/ Raise(ExcOf(f))
      BY <1>11 DEF DeleteFails
    <3>3. QED
      BY <3>1, <3>2
  <2>3. RetryIInv' /\ rstate' # "returned" /\ pc' = "get"
    BY <2>2, RaiseGIInv
  <2>4. QED
    BY <1>11, <2>1, <2>3 DEF DeleteFails, Steps, VerifiedUnlessSkipped
<1>15. CASE GetInitialMalformed /\ UNCHANGED required
  <2>1. RetryIInv' /\ rstate' # "returned" /\ pc' = "get"
    BY <1>15, RaiseGIInv, RuntimeErrErrors DEF GetInitialMalformed
  <2>2. faults' \in 0..MaxFaults
    BY <1>15 DEF GetInitialMalformed, Fault
  <2>3. QED
    BY <1>15, <2>1, <2>2 DEF GetInitialMalformed, Steps, VerifiedUnlessSkipped
<1>12. CASE Backoff /\ UNCHANGED required
  <2>1. RetryIInv' /\ rstate' = "call"
    BY <1>12, SleepIInv DEF Backoff, Sleep
  <2>2. QED
    BY <1>12, <2>1 DEF Backoff, VerifiedUnlessSkipped
<1>13. CASE UNCHANGED vars
  <2>1. RetryIInv'
    BY <1>13, StutterIInv DEF vars
  <2>2. QED
    BY <1>13, <2>1 DEF vars, VerifiedUnlessSkipped
<1>14. QED
  BY <1>1, <1>2, <1>4, <1>5, <1>6, <1>7, <1>8, <1>9, <1>10, <1>11, <1>12,
     <1>13, <1>15 DEF Next, AdapterStep

\* GIInv holds in every state of the scenario under retry.
THEOREM GcsPolicyInvariant == Spec => []GIInv
BY InitGIInv, NextGIInv, PTL DEF Spec

\* The scenario's state stays well typed under retry: the policy, the
\* remembered original and the fault count keep their ranges whatever
\* the server answers.
THEOREM GcsPolicyTypeCorrect == Spec => []TypeOK
<1>1. GIInv => TypeOK
  BY DEF GIInv
<1>2. QED
  BY GcsPolicyInvariant, <1>1, PTL

\* When exercise_gcs_iam_policy returns under retry, it either skipped
\* outside strict mode (E2E_GCS_IAM unset), or the modified policy reached
\* the server and DELETE was refused with bucket_policy_delete_unsupported:
\* strict mode never lets a skip pass, and a DELETE that succeeds or fails
\* otherwise never counts as success.
THEOREM VerifiedUnlessSkippedHolds == Spec => []VerifiedUnlessSkipped
<1>1. GIInv => VerifiedUnlessSkipped
  BY DEF GIInv
<1>2. QED
  BY GcsPolicyInvariant, <1>1, PTL

-----------------------------------------------------------------------------
(* The scenario under retry keeps retry's contract.                        *)

\* Seen from retry, every step of the scenario is a step of the retry loop
\* or leaves it alone: an attempt that raises raises one of retry's
\* exceptions, one that returns (a skip included) returns, and a backoff is
\* retry's sleep.
LEMMA RetryStep == GIInv /\ [Next]_vars => [RetryNext]_retryVars
<1> SUFFICES ASSUME GIInv, [Next]_vars PROVE [RetryNext]_retryVars
  OBVIOUS
<1>1. ASSUME NEW e \in Errors, Raise(e) PROVE [RetryNext]_retryVars
  BY <1>1 DEF Raise, RetryNext
<1>2. ASSUME Return PROVE [RetryNext]_retryVars
  BY <1>2 DEF Return, RetryNext
<1>3. ASSUME NEW e \in Errors, Skip(e) PROVE [RetryNext]_retryVars
  BY <1>1, <1>2, <1>3 DEF Skip
<1>4. ExcOf("http") \in Errors /\ ExcOf("net") \in Errors
      /\ ExcOf("lost") \in Errors /\ RuntimeErr \in Errors
  BY ExcOfErrors, RuntimeErrErrors DEF FaultKinds
<1>5. CASE GetInitial \/ Validate \/ Put \/ Restore
  BY <1>5 DEF GetInitial, Validate, Put, Restore
<1>6. CASE ValidateRejects
  BY <1>3, <1>4, <1>6 DEF ValidateRejects
<1>15. CASE GetInitialMalformed
  BY <1>1, <1>4, <1>15 DEF GetInitialMalformed
<1>7. ASSUME NEW f \in FaultKinds,
             GetInitialFails(f) \/ ValidateFails(f) \/ PutFails(f)
             \/ GetAfterPutFails(f)
      PROVE  [RetryNext]_retryVars
  <2>1. ExcOf(f) \in Errors
    BY ExcOfErrors
  <2>2. QED
    BY <1>3, <1>7, <2>1 DEF GetInitialFails, ValidateFails, PutFails,
                              GetAfterPutFails
<1>8. CASE GetAfterPut
  BY <1>1, <1>4, <1>8 DEF GetAfterPut
<1>9. ASSUME NEW f \in FaultKinds, RestoreFails(f) PROVE [RetryNext]_retryVars
  <2>1. ExcOf(f) \in Errors
    BY ExcOfErrors
  <2>2. QED
    BY <1>1, <1>9, <2>1 DEF RestoreFails
<1>10. CASE Delete
  BY <1>1, <1>2, <1>4, <1>10 DEF Delete
<1>11. ASSUME NEW f \in FaultKinds, DeleteFails(f) PROVE [RetryNext]_retryVars
  <2>1. ExcOf(f) \in Errors
    BY ExcOfErrors
  <2>2. QED
    BY <1>1, <1>4, <1>11, <2>1 DEF DeleteFails
<1>12. CASE Backoff
  BY <1>12 DEF Backoff, RetryNext
<1>13. CASE UNCHANGED vars
  BY <1>13 DEF vars
<1>14. QED
  BY <1>5, <1>6, <1>7, <1>8, <1>9, <1>10, <1>11, <1>12, <1>13, <1>15
     DEF Next, AdapterStep

\* exercise_gcs_iam_policy under retry(..., attempts=3) keeps retry's
\* contract: the composed system, mapped to retry's status, history and
\* raised exception, is a behaviour of RetryAbstract, so run_scenario sees
\* the adapter return, or the last of `attempts` failures raised.
THEOREM GcsRetryRefinement == Spec => RefinesAbstract
<1>1. Init => AR!Init
  BY DEF Init, RetryInit, AR!Init, RetryStatus
<1>2. GIInv /\ [Next]_vars => [AR!Next]_absVars
  BY RetryStep, StepRefines DEF GIInv
<1>3. QED
  BY <1>1, <1>2, GcsPolicyInvariant, PTL
     DEF Spec, RefinesAbstract, AR!Spec, absVars
=============================================================================
