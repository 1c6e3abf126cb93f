--------------------------- MODULE S3PolicyProofs ---------------------------
(***************************************************************************)
(* Proofs about the S3 policy adapter under retry (module S3Policy), for  *)
(* every number of attempts and fault bound: against a backend whose      *)
(* DELETE works it fails only by running out of attempts on faults, and   *)
(* the adapter under retry keeps retry's contract.                        *)
(***************************************************************************)
EXTENDS S3Policy, RetryProofs, TLAPS

USE DeleteEffectsAssumption, S3MaxFaultsAssumption

-----------------------------------------------------------------------------
(* The adapter under retry keeps retry's contract.                         *)

\* Every exception the adapter raises is one of retry's.
LEMMA RaisedErrors ==
    /\ \A f \in GetFaultKinds : GetExc(f) \in Errors
    /\ \A f \in FaultKinds : ExcOf(f) \in Errors
    /\ RuntimeErr \in Errors
<1>1. \A f \in FaultKinds : ExcOf(f) \in Exceptions
  BY Zenon DEF FaultKinds, ExcOf, Exceptions
<1>2. RuntimeErr \in Exceptions
  BY DEF Exceptions, NetworkError
<1>3. QED
  BY <1>1, <1>2, S3ErrorsAssumption DEF GetFaultKinds, GetExc

\* Seen from retry, every step of the adapter is a step of the retry loop
\* or leaves it alone.
LEMMA RetryStep == [Next]_vars => [RetryNext]_retryVars
<1> SUFFICES ASSUME [Next]_vars PROVE [RetryNext]_retryVars
  OBVIOUS
<1>1. ASSUME NEW e \in Errors, Raise(e) PROVE [RetryNext]_retryVars
  BY <1>1 DEF Raise, RetryNext
<1>2. ASSUME NEW s, NEW n, Proceed(s, n) PROVE [RetryNext]_retryVars
  BY <1>2 DEF Proceed
<1>3. ASSUME NEW s, CheckFails(s) PROVE [RetryNext]_retryVars
  BY <1>1, <1>3, RaisedErrors DEF CheckFails
<1>4. CASE GetInitial \/ Put \/ Delete
  BY <1>2, <1>4 DEF GetInitial, Put, Delete
<1>5. CASE Validate
  BY <1>2, <1>3, <1>5 DEF Validate
<1>6. CASE GetAfterPut
  BY <1>2, <1>3, <1>6 DEF GetAfterPut
<1>7. CASE GetAfterDelete
  BY <1>3, <1>7 DEF GetAfterDelete, RetryNext
<1>8. ASSUME NEW s, NEW f \in GetFaultKinds, GetFails(s, f)
      PROVE  [RetryNext]_retryVars
  BY <1>1, <1>8, RaisedErrors DEF GetFails
<1>9. ASSUME NEW s, NEW f \in FaultKinds, NEW eff, WriteFails(s, f, eff)
      PROVE  [RetryNext]_retryVars
  BY <1>1, <1>9, RaisedErrors DEF WriteFails
<1>10. CASE Backoff
  BY <1>10 DEF Backoff, RetryNext
<1>11. CASE UNCHANGED vars
  BY <1>11 DEF vars
<1>12. QED
  BY <1>4, <1>5, <1>6, <1>7, <1>8, <1>9, <1>10, <1>11 DEF Next

\* A raising attempt adds one entry to retry's history of failures and
\* sends the adapter back to its first step.
LEMMA RaiseCounts ==
    ASSUME RetryTypeOK, NEW e, Raise(e)
    PROVE  Len(errors') = Len(errors) + 1 /\ pc' = "get"
BY DEF Raise, CallRaises, RetryTypeOK

(***************************************************************************)
(* RetriesAbsorbFaults is not inductive: it speaks only of the end.  The  *)
(* strengthening counts: against a resetting backend every failed attempt *)
(* consumed a fault, because the two checks that could fail on a sound    *)
(* server cannot: the GET after the PUT runs right after the attempt's    *)
(* own PUT, and the GET after the DELETE right after its own DELETE.      *)
(* retry's invariant then turns `attempts` failures into `attempts`       *)
(* faults.                                                                 *)
(***************************************************************************)
S3IInv ==
    /\ RetryIInv
    /\ faults \in Nat
    /\ deleteEffect \in DeleteEffects
    /\ deleteEffect = "reset" =>
          /\ Len(errors) <= faults
          /\ pc = "get_after" => exists
          /\ pc = "get_after_del" => ~exists

LEMMA InitS3IInv == Init => S3IInv
BY InitIInv DEF Init, RetryInit, S3IInv

\* The part of S3IInv about the adapter, for a step that keeps the backend.
S3Counts ==
    deleteEffect = "reset" =>
        /\ Len(errors) <= faults
        /\ pc = "get_after" => exists
        /\ pc = "get_after_del" => ~exists

LEMMA NextS3Counts ==
    ASSUME S3IInv, [Next]_vars PROVE S3Counts'
<1> USE DEF S3IInv, S3Counts, RetryIInv, RetryTypeOK
<1>1. CASE GetInitial
  BY <1>1 DEF GetInitial, Proceed, retryVars
<1>2. CASE Validate
  BY <1>2, RaiseCounts DEF Validate, Proceed, CheckFails, Fault, retryVars
<1>3. CASE Put
  BY <1>3 DEF Put, Proceed, retryVars
<1>4. CASE GetAfterPut
  BY <1>4, RaiseCounts DEF GetAfterPut, Proceed, CheckFails, At, retryVars
<1>5. CASE Delete
  BY <1>5 DEF Delete, Proceed, retryVars
<1>6. CASE GetAfterDelete
  BY <1>6, RaiseCounts
     DEF GetAfterDelete, CheckFails, At, CallReturns
<1>7. CASE Backoff
  BY <1>7 DEF Backoff, Sleep
<1>8. ASSUME NEW s, NEW f, GetFails(s, f) PROVE S3Counts'
  BY <1>8, RaiseCounts DEF GetFails, Fault
<1>9. ASSUME NEW s, NEW f, NEW eff, WriteFails(s, f, eff) PROVE S3Counts'
  BY <1>9, RaiseCounts DEF WriteFails, Fault
<1>10. CASE UNCHANGED vars
  BY <1>10 DEF vars, retryVars
<1>11. QED
  BY <1>1, <1>2, <1>3, <1>4, <1>5, <1>6, <1>7, <1>8, <1>9, <1>10 DEF Next

\* Every step of the adapter keeps the backend and counts faults in Nat.
LEMMA NextS3Frame ==
    ASSUME S3IInv, [Next]_vars
    PROVE  faults' \in Nat /\ deleteEffect' = deleteEffect
<1>1. CASE Validate
  BY <1>1 DEF S3IInv, Validate, Fault
<1>2. ASSUME NEW s, NEW f, GetFails(s, f) PROVE faults' \in Nat
  BY <1>2 DEF S3IInv, GetFails, Fault
<1>3. ASSUME NEW s, NEW f, NEW eff, WriteFails(s, f, eff) PROVE faults' \in Nat
  BY <1>3 DEF S3IInv, WriteFails, Fault
<1>4. QED
  BY <1>1, <1>2, <1>3 DEF S3IInv, Next, vars, GetInitial, Validate, Put,
     GetAfterPut, Delete, GetAfterDelete, Backoff, GetFails, WriteFails

LEMMA NextS3IInv == S3IInv /\ [Next]_vars => S3IInv'
<1> SUFFICES ASSUME S3IInv, [Next]_vars PROVE S3IInv'
  OBVIOUS
<1>1. RetryIInv'
  BY RetryStep, NextIInv DEF S3IInv
<1>2. S3Counts'
  BY NextS3Counts
<1>3. QED
  BY <1>1, <1>2, NextS3Frame DEF S3IInv, S3Counts

\* Against a backend whose DELETE works, the retried S3 adapter (run_scenario
\* line 514) gives up only after `attempts` faults, for every number of
\* attempts and fault bound: nothing an aborted attempt leaves on the
\* server fails a later one.
THEOREM RetriesAbsorbFaultsHolds == Spec => []RetriesAbsorbFaults
<1>1. S3IInv => RetriesAbsorbFaults
  BY DEF S3IInv, RetryIInv, RetryTypeOK, RaisesLastError, RetriesAbsorbFaults
<1>2. QED
  BY <1>1, InitS3IInv, NextS3IInv, PTL DEF Spec

\* exercise_bucket_policy under retry(..., attempts=6) keeps retry's
\* contract: the composed system, mapped to retry's status, history and
\* raised exception, is a behaviour of RetryAbstract, whatever the
\* backend's DELETE does.
THEOREM S3RetryRefinement == Spec => RefinesAbstract
<1>1. Init => RetryIInv /\ AR!Init
  BY InitIInv DEF Init, RetryInit, AR!Init, RetryStatus
<1>2. RetryIInv /\ [Next]_vars => RetryIInv'
  BY RetryStep, NextIInv
<1>3. RetryIInv /\ [Next]_vars => [AR!Next]_absVars
  BY RetryStep, StepRefines
<1>4. QED
  BY <1>1, <1>2, <1>3, PTL DEF Spec, RefinesAbstract, AR!Spec, absVars
=============================================================================
