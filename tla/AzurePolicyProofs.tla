------------------------- MODULE AzurePolicyProofs -------------------------
(***************************************************************************)
(* Proofs about the Azure container policy adapter under retry (module   *)
(* AzurePolicy), for every number of attempts and fault bound: against a *)
(* backend whose DELETE leaves a policy the runner accepts it fails only  *)
(* by running out of attempts on faults, and the adapter under retry      *)
(* keeps retry's contract.                                                 *)
(***************************************************************************)
EXTENDS AzurePolicy, RetryProofs, TLAPS

USE AzureMaxFaultsAssumption

-----------------------------------------------------------------------------
(* The adapter under retry keeps retry's contract.                         *)

\* Every exception the adapter raises is one of retry's.
LEMMA RaisedErrors ==
    /\ \A f \in FaultKinds \cup {"malformed"} :
          (IF f = "malformed" THEN RuntimeErr ELSE ExcOf(f)) \in Errors
    /\ RuntimeErr \in Errors
<1>1. \A f \in FaultKinds : ExcOf(f) \in Exceptions
  BY Zenon DEF FaultKinds, ExcOf, Exceptions
<1>2. RuntimeErr \in Exceptions
  BY DEF Exceptions, NetworkError
<1>3. QED
  BY <1>1, <1>2, AzureErrorsAssumption

\* Seen from retry, every step of the adapter is a step of the retry loop
\* or leaves it alone.
LEMMA RetryStep == [Next]_vars => [RetryNext]_retryVars
<1> SUFFICES ASSUME [Next]_vars PROVE [RetryNext]_retryVars
  OBVIOUS
<1>1. ASSUME NEW e \in Errors, Raise(e) PROVE [RetryNext]_retryVars
  BY <1>1 DEF Raise, RetryNext
<1>2. ASSUME NEW s, NEW n, Proceed(s, n) PROVE [RetryNext]_retryVars
  BY <1>2 DEF Proceed
<1>3. CASE GetInitial \/ Put \/ Reset
  BY <1>2, <1>3 DEF GetInitial, Put, Reset
<1>10. CASE Validate
  BY <1>1, <1>2, <1>10, RaisedErrors DEF Validate
<1>4. CASE GetAfterPut
  BY <1>1, <1>2, <1>4, RaisedErrors DEF GetAfterPut
<1>5. CASE GetAfterReset
  BY <1>1, <1>5, RaisedErrors DEF GetAfterReset, RetryNext
<1>6. ASSUME NEW s, NEW f \in FaultKinds \cup {"malformed"}, NEW eff,
             RequestFails(s, f, eff)
      PROVE  [RetryNext]_retryVars
  BY <1>1, <1>6, RaisedErrors DEF RequestFails
<1>7. CASE Backoff
  BY <1>7 DEF Backoff, RetryNext
<1>8. CASE UNCHANGED vars
  BY <1>8 DEF vars
<1>9. QED
  BY <1>3, <1>4, <1>5, <1>6, <1>7, <1>8, <1>10 DEF Next

\* exercise_azure_container_policy under retry(..., attempts=6) keeps
\* retry's contract: the composed system, mapped to retry's status,
\* history and raised exception, is a behaviour of RetryAbstract, whatever
\* the backend's DELETE does.
THEOREM AzureRetryRefinement == Spec => RefinesAbstract
<1>1. Init => RetryIInv /\ AR!Init
  BY InitIInv DEF Init, RetryInit, AR!Init, RetryStatus
<1>2. RetryIInv /\ [Next]_vars => RetryIInv'
  BY RetryStep, NextIInv
<1>3. RetryIInv /\ [Next]_vars => [AR!Next]_absVars
  BY RetryStep, StepRefines
<1>4. QED
  BY <1>1, <1>2, <1>3, PTL DEF Spec, RefinesAbstract, AR!Spec, absVars
-----------------------------------------------------------------------------
(***************************************************************************)
(* RetriesAbsorbFaults, as for S3: against a backend whose DELETE leaves   *)
(* an accepted policy, every failed attempt consumed a fault, since the   *)
(* GET after the PUT follows the attempt's own PUT and the GET after the  *)
(* reset the attempt's own DELETE.                                         *)
(***************************************************************************)
AzIInv ==
    /\ RetryIInv
    /\ faults \in Nat
    /\ ResetOk(resetEffect) =>
          /\ Len(errors) <= faults
          /\ pc = "get_after" => policy = E2EPolicy
          /\ pc = "get_after_reset" => policy = resetEffect

\* A raising attempt adds one entry to retry's history of failures and
\* sends the adapter back to its first step.
LEMMA RaiseCounts ==
    ASSUME RetryTypeOK, NEW e, Raise(e)
    PROVE  Len(errors') = Len(errors) + 1 /\ pc' = "get"
BY DEF Raise, CallRaises, RetryTypeOK

LEMMA InitAzIInv == Init => AzIInv
BY InitIInv DEF Init, RetryInit, AzIInv

\* The part of AzIInv about the adapter.
AzCounts ==
    ResetOk(resetEffect) =>
        /\ Len(errors) <= faults
        /\ pc = "get_after" => policy = E2EPolicy
        /\ pc = "get_after_reset" => policy = resetEffect

\* The GET after the e2e PUT passes its checks.
LEMMA E2EApplied == AppliedOk(E2EPolicy)
BY DEF AppliedOk, Exists, E2EPolicy, Policy

LEMMA NextAzCounts ==
    ASSUME AzIInv, [Next]_vars PROVE AzCounts'
<1> USE DEF AzIInv, AzCounts, RetryIInv, RetryTypeOK
<1>1. CASE GetInitial
  BY <1>1 DEF GetInitial, Proceed, retryVars
<1>2. CASE Validate
  BY <1>2, RaiseCounts DEF Validate, Proceed, Fault, retryVars
<1>3. CASE Put
  BY <1>3 DEF Put, Proceed, retryVars
<1>4. CASE GetAfterPut
  BY <1>4, RaiseCounts, E2EApplied DEF GetAfterPut, Proceed, At, retryVars
<1>5. CASE Reset
  BY <1>5 DEF Reset, Proceed, retryVars, AfterReset
<1>6. CASE GetAfterReset
  BY <1>6, RaiseCounts DEF GetAfterReset, At, CallReturns
<1>7. CASE Backoff
  BY <1>7 DEF Backoff, Sleep
<1>8. ASSUME NEW s, NEW f, NEW eff, RequestFails(s, f, eff) PROVE AzCounts'
  BY <1>8, RaiseCounts DEF RequestFails, Fault
<1>9. CASE UNCHANGED vars
  BY <1>9 DEF vars, retryVars
<1>10. QED
  BY <1>1, <1>2, <1>3, <1>4, <1>5, <1>6, <1>7, <1>8, <1>9 DEF Next

\* Every step of the adapter keeps the backend and counts faults in Nat.
LEMMA NextAzFrame ==
    ASSUME AzIInv, [Next]_vars
    PROVE  faults' \in Nat /\ resetEffect' = resetEffect
<1>1. CASE Validate
  BY <1>1 DEF AzIInv, Validate, Fault
<1>2. ASSUME NEW s, NEW f, NEW eff, RequestFails(s, f, eff) PROVE faults' \in Nat
  BY <1>2 DEF AzIInv, RequestFails, Fault
<1>3. QED
  BY <1>1, <1>2 DEF AzIInv, Next, vars, GetInitial, Validate, Put,
     GetAfterPut, Reset, GetAfterReset, Backoff, RequestFails

LEMMA NextAzIInv == AzIInv /\ [Next]_vars => AzIInv'
<1> SUFFICES ASSUME AzIInv, [Next]_vars PROVE AzIInv'
  OBVIOUS
<1>1. RetryIInv'
  BY RetryStep, NextIInv DEF AzIInv
<1>2. AzCounts'
  BY NextAzCounts
<1>3. QED
  BY <1>1, <1>2, NextAzFrame DEF AzIInv, AzCounts

\* Against a backend whose DELETE leaves a policy the reset check accepts,
\* the retried Azure adapter (run_scenario line 516) gives up only after
\* `attempts` faults, for every number of attempts and fault bound: the e2e
\* policy an aborted attempt leaves behind never fails a later one.
THEOREM RetriesAbsorbFaultsHolds == Spec => []RetriesAbsorbFaults
<1>1. AzIInv => RetriesAbsorbFaults
  BY DEF AzIInv, RetryIInv, RetryTypeOK, RaisesLastError, RetriesAbsorbFaults
<1>2. QED
  BY <1>1, InitAzIInv, NextAzIInv, PTL DEF Spec
=============================================================================
