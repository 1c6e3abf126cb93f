-------------------------- MODULE ReadinessProofs --------------------------
(***************************************************************************)
(* Proofs about wait_for_server (Readiness), for every timeout, every      *)
(* request duration and every fault bound.                                 *)
(***************************************************************************)
EXTENDS Readiness, TLAPS

USE TimeoutAssumption, RequestTimeAssumption, SleepTicksAssumption,
    NoErrAssumption, MaxFaultsAssumption

(***************************************************************************)
(* WaitBounded is not inductive: a check at a clock past the bound would   *)
(* still end the wait.  The strengthening bounds the clock at each point   *)
(* of the loop: a request starts only before the deadline, so a sleep      *)
(* begins before the deadline plus one request, and the next check before *)
(* that plus the sleep.  It also records that any time spent without an   *)
(* answer was spent on a failed request, which is what makes a timeout    *)
(* carry last_err, and that last_err is the latest failure.               *)
(***************************************************************************)
ReadyIInv ==
    /\ TypeOK
    /\ wpc = "request" => clock < Timeout
    /\ wpc = "sleep" => clock < Timeout + RequestTime /\ lastErr # NoErr
    /\ wpc \in {"check", "done"} => clock < Timeout + RequestTime + SleepTicks
    /\ lastErr = lastFailure
    /\ outcome # "ready" /\ clock > 0 => lastErr # NoErr
    /\ outcome = "timeout" => wpc = "done" /\ clock >= Timeout
    /\ wpc # "done" => outcome = "none"

\* The exceptions a fault raises are exceptions, never None.
LEMMA ExcOfIsException ==
    ASSUME NEW f \in FaultKinds
    PROVE  ExcOf(f) \in Exceptions
BY DEF FaultKinds, ExcOf, Exceptions

LEMMA InitReady == Init => ReadyIInv
BY DEF Init, ReadyIInv, TypeOK

LEMMA NextReady == ReadyIInv /\ [Next]_vars => ReadyIInv'
<1> SUFFICES ASSUME ReadyIInv, [Next]_vars PROVE ReadyIInv'
  OBVIOUS
<1> USE DEF ReadyIInv, TypeOK
<1>1. CASE Check
  BY <1>1 DEF Check
<1>2. CASE Answer
  BY <1>2 DEF Answer
<1>3. CASE RequestFails
  <2>1. PICK f \in FaultKinds, d \in 0..RequestTime :
               /\ lastErr' = ExcOf(f)
               /\ lastFailure' = ExcOf(f)
               /\ clock' = clock + d
    BY <1>3 DEF RequestFails
  <2>2. lastErr' \in Exceptions /\ lastErr' # NoErr
    BY <2>1, ExcOfIsException
  <2>3. QED
    BY <1>3, <2>1, <2>2 DEF RequestFails, MayFail
<1>4. CASE WaitSleep
  BY <1>4 DEF WaitSleep
<1>5. CASE ServerStarts
  BY <1>5 DEF ServerStarts
<1>6. CASE UNCHANGED vars
  BY <1>6 DEF vars
<1>7. QED
  BY <1>1, <1>2, <1>3, <1>4, <1>5, <1>6 DEF Next, Wait

\* wait_for_server ends before timeout_s plus one request plus one sleep,
\* for every timeout, request time and tick (the deadline check of line 210
\* comes only before each request, the sleep of line 217 after a failure).
THEOREM WaitBoundedHolds == Spec => []WaitBounded
<1>1. ReadyIInv => WaitBounded
  BY DEF ReadyIInv, WaitBounded
<1>2. QED
  BY InitReady, NextReady, <1>1, PTL DEF Spec

\* A timeout always reports the exception of the latest failed GET /meta,
\* never None nor an earlier one (lines 216 and 218), since timeout_s > 0.
THEOREM TimeoutHasLastErrorHolds == Spec => []TimeoutHasLastError
<1>1. ReadyIInv => TimeoutHasLastError
  BY DEF ReadyIInv, TimeoutHasLastError, TypeOK
<1>2. QED
  BY InitReady, NextReady, <1>1, PTL DEF Spec
=============================================================================
