------------------------- MODULE LighthouseProofs -------------------------
(***************************************************************************)
(* Proofs about lighthouse_auth.py (module Lighthouse), for every DevTools *)
(* deadline: the type invariant, and that the finally block of main       *)
(* leaves no Chrome running unless --keep-chrome was given.                *)
(***************************************************************************)
EXTENDS Lighthouse, TLAPS

USE TimeoutAssumption

\* ChromeStoppedOnExit is not inductive: a Chrome still starting when the
\* script exits would come up later.  The strengthening says that Chrome
\* is not started before Popen, and that once the script is waiting for it
\* or has exited, a Chrome it owns is past starting and up: SIGTERM was
\* sent, or it is gone.
LIInv ==
    /\ TypeOK
    /\ pc = "popen" => chrome = "none"
    /\ pc \in {"wait", "exited"} /\ ~keepChrome => chrome \notin {"starting", "up"}
    /\ ChromeStoppedOnExit

\* The queue of sent commands is a sequence of commands when empty and
\* when the four commands have just been sent.
LEMMA QueueTypes ==
    /\ <<>> \in Seq(CommandSet)
    /\ Commands \in Seq(CommandSet)
BY SMT DEF CommandSet, Commands

\* The initial state satisfies LIInv.
LEMMA InitLIInv == Init => LIInv
<1> SUFFICES ASSUME Init PROVE LIInv
  OBVIOUS
<1>1. clock \in 0..Timeout
  BY SMT DEF Init
<1>2. TypeOK
  BY <1>1, QueueTypes, Zenon DEF Init, TypeOK
<1>3. QED
  BY <1>2 DEF Init, LIInv, ChromeStoppedOnExit, Alive

\* The script's steps keep LIInv.
LEMMA ScriptLIInv == LIInv /\ Script => LIInv'
<1> SUFFICES ASSUME LIInv, Script PROVE LIInv'
  OBVIOUS
<1> USE DEF LIInv, TypeOK, ChromeStoppedOnExit, Alive
<1>1. CASE Popen
  BY <1>1 DEF Popen
<1>2. CASE Poll
  BY <1>2, SMT DEF Poll, Raise
<1>3. CASE Inject
  BY <1>3, QueueTypes DEF Inject, Raise
<1>4. CASE CloseSession
  <2>1. TypeOK'
    BY <1>4 DEF CloseSession, chromeVars
  <2>2. QED
    BY <1>4, <2>1 DEF CloseSession, chromeVars
<1>5. CASE RunLighthouse
  <2>1. audited' \in {"no", "authed", "anon", "failed"}
    BY <1>5, Zenon DEF RunLighthouse
  <2>2. QED
    BY <1>5, <2>1 DEF RunLighthouse, chromeVars
<1>6. CASE Cleanup
  BY <1>6 DEF Cleanup
<1>7. CASE WaitReturns
  BY <1>7 DEF WaitReturns, chromeVars
<1>8. CASE WaitTimesOut
  <2>1. TypeOK'
    BY <1>8, QueueTypes DEF WaitTimesOut
  <2>2. QED
    BY <1>8, <2>1 DEF WaitTimesOut
<1>9. QED
  BY <1>1, <1>2, <1>3, <1>4, <1>5, <1>6, <1>7, <1>8 DEF Script

\* Chrome's steps keep LIInv: it only comes up from starting, which it is
\* not once the script waits for it or has exited.
LEMMA ChromeLIInv == LIInv /\ ChromeSteps => LIInv'
<1> SUFFICES ASSUME LIInv, ChromeSteps PROVE LIInv'
  OBVIOUS
<1> USE DEF LIInv, TypeOK, ChromeStoppedOnExit, Alive
<1>1. CASE ChromeUp
  BY <1>1 DEF ChromeUp
<1>2. CASE HandleCommand
  <2>1. Tail(queue) \in Seq(CommandSet)
    BY <1>2, SMT DEF HandleCommand
  <2>2. QED
    BY <1>2, <2>1 DEF HandleCommand
<1>3. CASE Commit
  BY <1>3 DEF Commit
<1>4. CASE ChromeExits
  <2>1. queue' \in Seq(CommandSet)
    BY <1>4, QueueTypes DEF ChromeExits
  <2>2. chrome' = "dead" /\ registered' = FALSE
    BY <1>4 DEF ChromeExits
  <2>3. /\ pc' = pc /\ keepChrome' = keepChrome /\ clock' = clock
        /\ lastErr' = lastErr /\ session' = session /\ nav' = nav
        /\ storage' = storage /\ audited' = audited /\ outcome' = outcome
    BY <1>4 DEF ChromeExits
  <2>4. pc' \in {"popen", "poll", "inject", "sleep", "lighthouse", "cleanup",
              "wait", "exited"}
    BY <2>3
  <2>5. keepChrome' \in BOOLEAN
    BY <2>3
  <2>6. chrome' \in {"none", "starting", "up", "terminating", "dead"}
    BY <2>2
  <2>7. clock' \in 0..Timeout
    BY <2>3
  <2>8. registered' \in BOOLEAN /\ storage' \in BOOLEAN
    BY <2>2, <2>3
  <2>9. /\ lastErr' \in {"None", "refused"}
         /\ session' \in {"none", "open", "closed", "detached"}
         /\ nav' \in {"none", "pending", "committed"}
         /\ audited' \in {"no", "authed", "anon", "failed"}
         /\ outcome' \in {"none", "returned", "raised"}
    BY <2>3
  <2>10. TypeOK'
    BY <2>1, <2>4, <2>5, <2>6, <2>7, <2>8, <2>9
  <2>11. QED
    BY <1>4, <2>2, <2>3, <2>10 DEF ChromeExits
<1>6. CASE Detach
  BY <1>6 DEF Detach
<1>5. QED
  BY <1>1, <1>2, <1>3, <1>4, <1>6 DEF ChromeSteps

\* LIInv is an invariant of lighthouse_auth.py.
THEOREM LighthouseInvariant == Spec => []LIInv
<1>1. LIInv /\ [Next]_vars => LIInv'
  <2> SUFFICES ASSUME LIInv, [Next]_vars PROVE LIInv'
    OBVIOUS
  <2>1. CASE Script
    BY <2>1, ScriptLIInv
  <2>2. CASE ChromeSteps
    BY <2>2, ChromeLIInv
  <2>3. CASE UNCHANGED vars
    BY <2>3 DEF vars, LIInv, TypeOK, ChromeStoppedOnExit, Alive
  <2>4. QED
    BY <2>1, <2>2, <2>3 DEF Next
<1>2. QED
  BY InitLIInv, <1>1, PTL DEF Spec

\* Unless --keep-chrome, main never exits leaving the Chrome it started
\* running, whichever step raised and even if Chrome ignores SIGTERM
\* (lines 112-119).
THEOREM ChromeStoppedOnExitHolds == Spec => []ChromeStoppedOnExit
<1>1. LIInv => ChromeStoppedOnExit
  BY DEF LIInv
<1>2. QED
  BY LighthouseInvariant, <1>1, PTL

\* The type invariant of the Lighthouse model.
THEOREM LighthouseTypeCorrect == Spec => []TypeOK
<1>1. LIInv => TypeOK
  BY DEF LIInv
<1>2. QED
  BY LighthouseInvariant, <1>1, PTL
=============================================================================
