------------------------- MODULE EnsureBucketProofs -------------------------
(***************************************************************************)
(* Proofs about ensure_bucket under retry (module EnsureBucket), for every *)
(* number of attempts, fault bound and backend: when the backend accepts  *)
(* POST /buckets for a name that exists, retry gives up on ensure_bucket  *)
(* only after every attempt met a transport fault.  The retry part of the *)
(* argument is RetryProofs' invariant, whose lemmas are cited here.       *)
(***************************************************************************)
EXTENDS EnsureBucket, RetryProofs, TLAPS

USE AttemptsAssumption, NoErrAssumption, CreateExistingAssumption,
    MaxFaultsAssumption, ErrorsAssumption

\* The exception of a transport fault is one of Transport's.
LEMMA ExcOfType == \A f \in FaultKinds : ExcOf(f) \in Exceptions
BY Zenon DEF FaultKinds, ExcOf, Exceptions

\* Against a backend that accepts an existing name, an attempt raises
\* only on a fault: the history of failed calls is never longer than the
\* faults seen.  This needs that a listing is reached only after the
\* bucket was created (the runner never deletes it), and retry's own
\* invariant for the length of the history when it gives up.
EIInv ==
    /\ TypeOK
    /\ RetryIInv
    /\ pc = "list" => exists
    /\ createExisting = "ok" => Len(errors) <= faults

\* The initial state satisfies EIInv.
LEMMA InitEIInv == Init => EIInv
<1> SUFFICES ASSUME Init PROVE EIInv
  OBVIOUS
<1>1. RetryIInv
  BY InitIInv DEF Init
<1>2. QED
  BY <1>1 DEF Init, EIInv, TypeOK, RetryIInv, RetryInit
\* (RetryTypeOK is part of RetryIInv; errors is empty at the start.)

\* An attempt that raises e, as Raise does, keeps retry's invariant.
LEMMA RaiseIInv ==
    ASSUME RetryIInv, NEW e \in Errors, Raise(e)
    PROVE  RetryIInv' /\ Len(errors') = Len(errors) + 1
<1>1. RetryIInv'
  BY RaisesIInv DEF Raise
<1>2. Len(errors') = Len(errors) + 1
  BY SMT DEF Raise, CallRaises, RetryIInv, RetryTypeOK
<1>3. QED
  BY <1>1, <1>2

\* Every step of ensure_bucket under retry keeps EIInv.
LEMMA NextEIInv == EIInv /\ [Next]_vars => EIInv'
<1> SUFFICES ASSUME EIInv, [Next]_vars PROVE EIInv'
  OBVIOUS
<1> USE DEF EIInv, TypeOK
<1>1. CASE Create
  <2>1. CASE exists /\ createExisting = "conflict"
    <3>1. Conflict \in Errors
      BY DEF EnsureExceptions
    <3>2. RetryIInv' /\ Len(errors') = Len(errors) + 1
      BY <1>1, <2>1, <3>1, RaiseIInv DEF Create
    <3>3. QED
      BY <1>1, <2>1, <3>2 DEF Create, Raise, RetryIInv
  <2>2. CASE ~(exists /\ createExisting = "conflict")
    BY <1>1, <2>2 DEF Create, retryVars, RetryIInv, RetryTypeOK, RaisesLastError
  <2>3. QED
    BY <2>1, <2>2
<1>2. CASE List
  <2>1. exists /\ CallReturns /\ pc' = "done"
    BY <1>2 DEF List, At
  <2>2. RetryIInv'
    BY <2>1, ReturnsIInv
  <2>3. QED
    BY <1>2, <2>1, <2>2 DEF List, CallReturns, RetryIInv
<1>3. CASE Backoff
  <2>1. RetryIInv'
    BY <1>3, SleepIInv DEF Backoff
  <2>2. QED
    BY <1>3, <2>1 DEF Backoff, Sleep, RetryIInv
<1>4. ASSUME NEW f \in FaultKinds, CreateFails(f)
      PROVE  EIInv'
  <2>1. ExcOf(f) \in Errors
    BY ExcOfType DEF EnsureExceptions
  <2>2. RetryIInv' /\ Len(errors') = Len(errors) + 1
    BY <1>4, <2>1, RaiseIInv DEF CreateFails
  <2>3. faults' = faults + 1 /\ faults < MaxFaults
    BY <1>4 DEF CreateFails, Fault
  <2>4. exists' \in BOOLEAN /\ pc' = "create"
    BY <1>4 DEF CreateFails, Raise
  <2>5. QED
    BY <1>4, <2>2, <2>3, <2>4 DEF CreateFails, RetryIInv
<1>5. ASSUME NEW f \in FaultKinds, ListFails(f)
      PROVE  EIInv'
  <2>1. ExcOf(f) \in Errors
    BY ExcOfType DEF EnsureExceptions
  <2>2. RetryIInv' /\ Len(errors') = Len(errors) + 1
    BY <1>5, <2>1, RaiseIInv DEF ListFails
  <2>3. faults' = faults + 1 /\ faults < MaxFaults
    BY <1>5 DEF ListFails, Fault
  <2>4. pc' = "create"
    BY <1>5 DEF ListFails, Raise
  <2>5. QED
    BY <1>5, <2>2, <2>3, <2>4 DEF ListFails, RetryIInv
<1>8. CASE ListMalformed
  <2>1. RuntimeErr \in Errors
    BY DEF EnsureExceptions, Exceptions, NetworkError
  <2>2. RetryIInv' /\ Len(errors') = Len(errors) + 1
    BY <1>8, <2>1, RaiseIInv DEF ListMalformed
  <2>3. faults' = faults + 1 /\ faults < MaxFaults
    BY <1>8 DEF ListMalformed, Fault
  <2>4. pc' = "create"
    BY <1>8 DEF ListMalformed, Raise
  <2>5. QED
    BY <1>8, <2>2, <2>3, <2>4 DEF ListMalformed, RetryIInv
<1>6. CASE UNCHANGED vars
  <2>1. RetryIInv'
    BY <1>6, StutterIInv DEF vars
  <2>2. QED
    BY <1>6, <2>1 DEF vars, retryVars, RetryIInv
<1>7. QED
  BY <1>1, <1>2, <1>3, <1>4, <1>5, <1>6, <1>8 DEF Next

\* EIInv holds in every state of ensure_bucket under retry.
THEOREM EnsureBucketInvariant == Spec => []EIInv
BY InitEIInv, NextEIInv, PTL DEF Spec

\* Against a backend that answers 2xx to POST /buckets for an existing
\* name, retry gives up on ensure_bucket (lines 500-509) only when every
\* one of its `attempts` attempts met a transport fault or a bad reply.  (Against one that
\* answers 409, MCEnsureBucketConflict.cfg shows it does not hold.)
THEOREM GivesUpOnlyOnFaultsHolds ==
    Spec => [](createExisting = "ok" => GivesUpOnlyOnFaults)
<1>1. EIInv => (createExisting = "ok" => GivesUpOnlyOnFaults)
  BY DEF EIInv, RetryIInv, RaisesLastError, GivesUpOnlyOnFaults
<1>2. QED
  BY EnsureBucketInvariant, <1>1, PTL

-----------------------------------------------------------------------------
(* ensure_bucket under retry keeps retry's contract.                       *)

\* Seen from retry, every step of ensure_bucket is a step of the retry
\* loop or leaves it alone: every exception it raises is one of retry's.
LEMMA RetryStep == EIInv /\ [Next]_vars => [RetryNext]_retryVars
<1> SUFFICES ASSUME EIInv, [Next]_vars PROVE [RetryNext]_retryVars
  OBVIOUS
<1>1. ASSUME NEW e \in Errors, Raise(e) PROVE [RetryNext]_retryVars
  BY <1>1 DEF Raise, RetryNext
<1>2. Conflict \in Errors /\ RuntimeErr \in Errors
  BY DEF EnsureExceptions, Exceptions, NetworkError
<1>3. CASE Create
  BY <1>1, <1>2, <1>3 DEF Create
<1>4. CASE List
  BY <1>1, <1>2, <1>4 DEF List, RetryNext
<1>5. CASE Backoff
  BY <1>5 DEF Backoff, RetryNext
<1>6. ASSUME NEW f \in FaultKinds, CreateFails(f) \/ ListFails(f)
      PROVE  [RetryNext]_retryVars
  <2>1. ExcOf(f) \in Errors
    BY ExcOfType DEF EnsureExceptions
  <2>2. QED
    BY <1>1, <1>6, <2>1 DEF CreateFails, ListFails
<1>7. CASE UNCHANGED vars
  BY <1>7 DEF vars
<1>9. CASE ListMalformed
  BY <1>1, <1>2, <1>9 DEF ListMalformed
<1>8. QED
  BY <1>3, <1>4, <1>5, <1>6, <1>7, <1>9 DEF Next

\* ensure_bucket under retry(..., attempts) keeps retry's contract: the
\* composed system, mapped to retry's status, history and raised
\* exception, is a behaviour of RetryAbstract, for every backend.
THEOREM EnsureRetryRefinement == Spec => RefinesAbstract
<1>1. Init => AR!Init
  BY DEF Init, RetryInit, AR!Init, RetryStatus
<1>2. EIInv /\ [Next]_vars => [AR!Next]_absVars
  BY RetryStep, StepRefines DEF EIInv
<1>3. QED
  BY <1>1, <1>2, EnsureBucketInvariant, PTL
     DEF Spec, RefinesAbstract, AR!Spec, absVars
=============================================================================
