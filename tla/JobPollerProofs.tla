-------------------------- MODULE JobPollerProofs --------------------------
(***************************************************************************)
(* Proofs about poll_job (module JobPoller), for every deadline, request  *)
(* duration and fault bound: the type invariant, with the overrun of the  *)
(* deadline it allows, and that poll_job's result agrees with the job.    *)
(***************************************************************************)
EXTENDS JobPoller, TLAPS

USE DeadlineAssumption, RequestTimeAssumption, MaxFaultsAssumption

\* OutcomeMatchesJob is not inductive: FetchLogs reports a job failure
\* without looking at the job, so the strengthening records that the poller
\* reaches the log fetch only for a job that ended failed or canceled, a
\* status the backend never changes again.  TypeOK's clock bound is not
\* inductive either: it rests on how far the clock can be at each point of
\* the loop.  The refinement of PollAbstract also needs that a result is
\* set exactly when the poller has ended.
JIInv ==
    /\ TypeOK
    /\ ppc = "get" => clock < Deadline
    /\ ppc \in {"sleep", "logs"} => clock < Deadline + MaxRequestTime
    /\ ppc = "check" => clock <= Deadline + MaxRequestTime
    /\ ppc = "logs" => job \in {"failed", "canceled"}
    /\ ppc = "done" <=> outcome # "none"
    /\ OutcomeMatchesJob

\* The initial state satisfies JIInv.
LEMMA InitJIInv == Init => JIInv
BY DEF Init, JIInv, TypeOK, JobStatuses, Outcomes, OutcomeMatchesJob

\* Every step of the poller or of the backend keeps JIInv.
LEMMA NextJIInv == JIInv /\ [Next]_vars => JIInv'
<1> SUFFICES ASSUME JIInv, [Next]_vars PROVE JIInv'
  OBVIOUS
<1> USE DEF JIInv, TypeOK, OutcomeMatchesJob, JobStatuses, Terminal, Outcomes
<1>1. CASE Check
  BY <1>1 DEF Check
<1>2. CASE GetJob
  <2>1. PICK d \in 0..MaxRequestTime : Elapse(d)
    BY <1>2 DEF GetJob
  <2>2. clock' = clock + d /\ clock < Deadline
    BY <1>2, <2>1 DEF GetJob, Elapse
  <2>3. /\ job = "succeeded" => ppc' = "done" /\ outcome' = "returned"
        /\ job \in {"failed", "canceled"} => ppc' = "logs" /\ outcome' = outcome
        /\ job \in {"pending", "running"} => ppc' = "sleep" /\ outcome' = outcome
    BY <1>2, Zenon DEF GetJob
  <2>4. UNCHANGED <<job, logFetches, faults>> /\ seen' = job /\ ppc = "get"
    BY <1>2 DEF GetJob
  <2>5. QED
    BY <2>2, <2>3, <2>4
<1>3. CASE GetJobFails
  BY <1>3 DEF GetJobFails, Elapse
<1>4. CASE FetchLogs
  BY <1>4 DEF FetchLogs, Elapse
<1>5. CASE PollSleep
  BY <1>5 DEF PollSleep, Elapse
<1>6. CASE JobAdvance
  BY <1>6 DEF JobAdvance
<1>7. CASE UNCHANGED vars
  BY <1>7 DEF vars
<1>8. QED
  BY <1>1, <1>2, <1>3, <1>4, <1>5, <1>6, <1>7 DEF Next, Poll

\* JIInv holds in every state of poll_job.
THEOREM JobPollerInvariant == Spec => []JIInv
BY InitJIInv, NextJIInv, PTL DEF Spec

\* poll_job returns only for a job that has succeeded and reports a job
\* failure only for a job that failed or was canceled, whatever the
\* backend did between the GET and the report (lines 224-241).
THEOREM OutcomeMatchesJobHolds == Spec => []OutcomeMatchesJob
<1>1. JIInv => OutcomeMatchesJob
  BY DEF JIInv
<1>2. QED
  BY JobPollerInvariant, <1>1, PTL

\* The poller's variables keep their types; in particular poll_job ends by
\* the deadline plus two requests (the last GET and the log fetch).
THEOREM JobPollerTypeCorrect == Spec => []TypeOK
<1>1. JIInv => TypeOK
  BY DEF JIInv
<1>2. QED
  BY JobPollerInvariant, <1>1, PTL

-----------------------------------------------------------------------------
(* poll_job implements PollAbstract.                                       *)

\* An initial state of poll_job is one of PollAbstract.
LEMMA InitRefines == Init => PA!Init
BY DEF Init, PA!Init

\* Under JIInv, every step of poll_job or of the backend is a step of
\* PollAbstract or leaves the job and the result alone: the backend's step
\* is Advance, the step that sets the outcome is Report, and every other
\* step of the poller changes neither.
LEMMA StepRefines ==
    JIInv /\ [Next]_vars => [PA!Next]_<<job, outcome>>
<1> SUFFICES ASSUME JIInv, [Next]_vars PROVE [PA!Next]_<<job, outcome>>
  OBVIOUS
<1> USE DEF JIInv
<1>1. CASE Check
  BY <1>1 DEF Check, PA!Next, PA!Report
<1>2. CASE GetJob
  <2>1. CASE job = "succeeded"
    BY <1>2, <2>1 DEF GetJob, PA!Next, PA!Report
  <2>2. CASE job # "succeeded"
    BY <1>2, <2>2 DEF GetJob
  <2>3. QED
    BY <2>1, <2>2
<1>3. CASE GetJobFails
  BY <1>3 DEF GetJobFails, PA!Next, PA!Report
<1>4. CASE FetchLogs
  BY <1>4 DEF FetchLogs, PA!Next, PA!Report
<1>5. CASE PollSleep
  BY <1>5 DEF PollSleep
<1>6. CASE JobAdvance
  BY <1>6 DEF JobAdvance, PA!Next, PA!Advance, Terminal, PA!Final,
             JobStatuses, PA!Statuses
<1>7. CASE UNCHANGED vars
  BY <1>7 DEF vars
<1>8. QED
  BY <1>1, <1>2, <1>3, <1>4, <1>5, <1>6, <1>7 DEF Next, Poll

\* poll_job reports one result, once, that the job's status allowed when
\* it was reported, and the backend's job only moves on until it is
\* terminal: JobPoller implements PollAbstract under outcome |-> result.
THEOREM PollRefinement == Spec => RefinesPollAbstract
<1>1. Spec => []JIInv
  BY JobPollerInvariant
<1>2. QED
  BY <1>1, InitRefines, StepRefines, PTL DEF Spec, RefinesPollAbstract,
                                            PA!Spec
=============================================================================
