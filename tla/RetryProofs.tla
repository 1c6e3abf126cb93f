---------------------------- MODULE RetryProofs ----------------------------
(***************************************************************************)
(* Proofs about the retry coordinator of Retry, for every number of       *)
(* attempts and every set of exceptions.                                   *)
(***************************************************************************)
EXTENDS Retry, TLAPS

USE AttemptsAssumption, NoErrAssumption

\* The initial state satisfies the inductive invariant.
LEMMA InitIInv == RetryInit => RetryIInv
BY SMT DEF RetryInit, RetryIInv, RetryTypeOK, RaisesLastError, RStates

\* fn returning keeps the invariant.
LEMMA ReturnsIInv == RetryIInv /\ CallReturns => RetryIInv'
BY SMT DEF RetryIInv, RetryTypeOK, RaisesLastError, CallReturns, CanCall, RStates

\* fn raising keeps the invariant: the history grows by the new exception,
\* which is both last_err and, on the last attempt, the one raised.
LEMMA RaisesIInv ==
    ASSUME RetryIInv, NEW e \in Errors, CallRaises(e)
    PROVE  RetryIInv'
<1> USE DEF RetryIInv, RetryTypeOK, CallRaises, CanCall, RStates
<1>1. /\ Len(errors') = attempt
      /\ errors'[attempt] = e
      /\ errors' \in Seq(Errors)
  BY SMT
<1>2. CASE attempt >= Attempts
  <2>1. attempt = Attempts
    BY <1>2, SMT
  <2>2. QED
    BY <1>1, <1>2, <2>1, SMT DEF RaisesLastError
<1>3. CASE ~(attempt >= Attempts)
  BY <1>1, <1>3, SMT DEF RaisesLastError
<1>4. QED
  BY <1>2, <1>3

\* Backing off keeps the invariant: the next attempt is still in range.
LEMMA SleepIInv == RetryIInv /\ Sleep => RetryIInv'
BY SMT DEF RetryIInv, RetryTypeOK, RaisesLastError, Sleep, RStates

\* A stuttering step keeps the invariant.
LEMMA StutterIInv == RetryIInv /\ UNCHANGED retryVars => RetryIInv'
BY DEF RetryIInv, RetryTypeOK, RaisesLastError, retryVars

\* Every step of the loop keeps the invariant.
LEMMA NextIInv == RetryIInv /\ [RetryNext]_retryVars => RetryIInv'
<1> SUFFICES ASSUME RetryIInv, [RetryNext]_retryVars PROVE RetryIInv'
  OBVIOUS
<1>1. CASE CallReturns
  BY <1>1, ReturnsIInv
<1>2. CASE \E e \in Errors : CallRaises(e)
  BY <1>2, RaisesIInv
<1>3. CASE Sleep
  BY <1>3, SleepIInv
<1>4. CASE UNCHANGED retryVars
  BY <1>4, StutterIInv
<1>5. QED
  BY <1>1, <1>2, <1>3, <1>4 DEF RetryNext

\* RetryIInv is an invariant of the coordinator.
THEOREM RetryInvariant == RetrySpec => []RetryIInv
BY InitIInv, NextIInv, PTL DEF RetrySpec

\* retry gives up only after exactly `attempts` calls and re-raises the
\* last call's exception unchanged (retry, runner.py lines 54-67).
THEOREM RaisesLastErrorHolds == RetrySpec => []RaisesLastError
<1>1. RetryIInv => RaisesLastError
  BY DEF RetryIInv
<1>2. QED
  BY RetryInvariant, <1>1, PTL

\* The type invariant of the coordinator.
THEOREM RetryTypeCorrect == RetrySpec => []RetryTypeOK
<1>1. RetryIInv => RetryTypeOK
  BY DEF RetryIInv
<1>2. QED
  BY RetryInvariant, <1>1, PTL

-----------------------------------------------------------------------------
(* Refinement of the contract RetryAbstract.                               *)

\* The abstract variables, as the refinement mapping gives them.
absVars == <<RetryStatus, errors, raised>>

\* A failed call is a Fail step of the contract: the history grows by e,
\* and it reaches `attempts` entries exactly on the last attempt, when
\* retry raises e.
LEMMA RaisesRefines ==
    ASSUME RetryIInv, NEW e \in Errors, CallRaises(e)
    PROVE  AR!Fail(e)
<1> USE DEF RetryIInv, RetryTypeOK, CallRaises, CanCall, RStates
<1>1. Len(errors') = attempt /\ errors' = Append(errors, e)
  BY SMT
<1>2. CASE attempt >= Attempts
  BY <1>1, <1>2, SMT DEF AR!Fail, RetryStatus
<1>3. CASE ~(attempt >= Attempts)
  BY <1>1, <1>3, SMT DEF AR!Fail, RetryStatus
<1>4. QED
  BY <1>2, <1>3

\* Every step of the loop is a step of the contract or leaves the mapped
\* state unchanged; a backoff sleep is such a stutter.
LEMMA StepRefines == RetryIInv /\ [RetryNext]_retryVars => [AR!Next]_absVars
<1> SUFFICES ASSUME RetryIInv, [RetryNext]_retryVars
             PROVE  [AR!Next]_absVars
  OBVIOUS
<1>1. CASE CallReturns
  BY <1>1 DEF CallReturns, CanCall, AR!Next, AR!Return, RetryStatus
<1>2. CASE \E e \in Errors : CallRaises(e)
  BY <1>2, RaisesRefines DEF AR!Next
<1>3. CASE Sleep
  BY <1>3 DEF Sleep, absVars, RetryStatus
<1>4. CASE UNCHANGED retryVars
  BY <1>4 DEF retryVars, absVars, RetryStatus
<1>5. QED
  BY <1>1, <1>2, <1>3, <1>4 DEF RetryNext

\* retry implements its contract: every behaviour of the loop, mapped to
\* (running / returned / raised, failures, raised), is a behaviour of
\* RetryAbstract, for every number of attempts and every exception set.
THEOREM RetryRefinement == RetrySpec => RefinesAbstract
<1>1. RetryInit => AR!Init
  BY DEF RetryInit, AR!Init, RetryStatus
<1>2. QED
  BY <1>1, StepRefines, RetryInvariant, PTL
     DEF RetrySpec, RefinesAbstract, AR!Spec, absVars
=============================================================================
