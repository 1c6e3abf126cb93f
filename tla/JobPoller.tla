----------------------------- MODULE JobPoller -----------------------------
(***************************************************************************)
(* poll_job (runner.py lines 221-243) against a backend job that moves on *)
(* by itself.  The poller reads the clock at the top of each iteration    *)
(* (deadline = start + 180 s), issues GET /jobs/{id}, and on a failed or  *)
(* canceled job fetches the log tail once, best effort, before raising.   *)
(* Time passes only in the poller's own steps: a request takes 0 to       *)
(* MaxRequestTime seconds, a sleep exactly one.                            *)
(***************************************************************************)
EXTENDS Naturals, Transport

CONSTANTS
    Deadline,        \* the 180 s of line 222, in seconds
    MaxRequestTime,  \* the longest a request takes, in seconds
    MaxFaults        \* bound on the transport faults of one run

ASSUME DeadlineAssumption == Deadline \in Nat
ASSUME RequestTimeAssumption == MaxRequestTime \in Nat
ASSUME MaxFaultsAssumption == MaxFaults \in Nat

JobStatuses == {"pending", "running", "succeeded", "failed", "canceled"}
Terminal == {"succeeded", "failed", "canceled"}

VARIABLES
    job,        \* the backend's status of the job
    ppc,        \* "check", "get", "logs", "sleep" or "done"
    seen,       \* the status the last GET returned
    clock,      \* seconds since poll_job started
    outcome,    \* "none", "returned", "job_failed", "timeout" or "error"
    logFetches, \* how many times the log tail was requested
    faults      \* transport faults so far

vars == <<job, ppc, seen, clock, outcome, logFetches, faults>>

Outcomes == {"none", "returned", "job_failed", "timeout", "error"}

TypeOK ==
    /\ job \in JobStatuses
    /\ ppc \in {"check", "get", "logs", "sleep", "done"}
    /\ seen \in JobStatuses \cup {"none"}
    \* a GET may start just before the deadline and the log fetch of a
    \* failed job follows it, so poll_job can overrun by two requests
    /\ clock \in 0..(Deadline + 2 * MaxRequestTime)
    /\ outcome \in Outcomes
    /\ logFetches \in Nat
    /\ faults \in 0..MaxFaults

\* The backend created the job at commit; it is pending or already running.
Init ==
    /\ job \in {"pending", "running"}
    /\ ppc = "check"
    /\ seen = "none"
    /\ clock = 0
    /\ outcome = "none"
    /\ logFetches = 0
    /\ faults = 0

Elapse(d) == clock' = clock + d

\* The backend moves the job on; a terminal status never changes.
JobAdvance ==
    /\ job \notin Terminal
    /\ \E s \in JobStatuses \ {"pending", job} : job' = s
    /\ UNCHANGED <<ppc, seen, clock, outcome, logFetches, faults>>

\* while time.time() < deadline (line 223).
Check ==
    /\ ppc = "check"
    /\ IF clock < Deadline
         THEN ppc' = "get" /\ UNCHANGED outcome
         ELSE ppc' = "done" /\ outcome' = "timeout"
    /\ UNCHANGED <<job, seen, clock, logFetches, faults>>

\* Mutant of GetJob: `if status in ("succeeded", "canceled"): return`.
GetJobCanceledIsSuccess ==
    /\ ppc = "get"
    /\ \E d \in 0..MaxRequestTime : Elapse(d)
    /\ seen' = job
    /\ ppc' = CASE job \in {"succeeded", "canceled"} -> "done"
                [] job = "failed"                   -> "logs"
                [] OTHER                            -> "sleep"
    /\ outcome' = IF job \in {"succeeded", "canceled"} THEN "returned"
                                                      ELSE outcome
    /\ UNCHANGED <<job, logFetches, faults>>

\* GET /jobs/{id} answered (lines 224-229).
GetJob ==
    /\ ppc = "get"
    /\ \E d \in 0..MaxRequestTime : Elapse(d)
    /\ seen' = job
    /\ ppc' = CASE job = "succeeded"            -> "done"
                [] job \in {"failed", "canceled"} -> "logs"
                [] OTHER                          -> "sleep"
    /\ outcome' = IF job = "succeeded" THEN "returned" ELSE outcome
    /\ UNCHANGED <<job, logFetches, faults>>

\* The GET meets a fault: request_json raises and nothing in poll_job
\* catches it, so the exception leaves poll_job.
GetJobFails ==
    /\ ppc = "get"
    /\ faults < MaxFaults
    /\ faults' = faults + 1
    /\ \E d \in 0..MaxRequestTime : Elapse(d)
    /\ ppc' = "done"
    /\ outcome' = "error"
    /\ UNCHANGED <<job, seen, logFetches>>

\* Mutant of FetchLogs: the `raise` of line 241 is missing, so the loop
\* goes on polling after a failed job was reported.
FetchLogsNoRaise ==
    /\ ppc = "logs"
    /\ \E d \in 0..MaxRequestTime : Elapse(d)
    /\ logFetches' = logFetches + 1
    /\ \/ UNCHANGED faults
       \/ faults < MaxFaults /\ faults' = faults + 1
    /\ ppc' = "sleep"
    /\ outcome' = "job_failed"
    /\ UNCHANGED <<job, seen>>

\* GET /jobs/{id}/logs?tailBytes=65536 (lines 230-239): answered or not,
\* poll_job then raises "Job ... ended with status=..." (line 241).
FetchLogs ==
    /\ ppc = "logs"
    /\ \E d \in 0..MaxRequestTime : Elapse(d)
    /\ logFetches' = logFetches + 1
    /\ \/ UNCHANGED faults
       \/ faults < MaxFaults /\ faults' = faults + 1
    /\ ppc' = "done"
    /\ outcome' = "job_failed"
    /\ UNCHANGED <<job, seen>>

\* Mutant of PollSleep: a busy loop, no time passes between polls.
PollSleepNoWait ==
    /\ ppc = "sleep"
    /\ ppc' = "check"
    /\ UNCHANGED <<job, seen, clock, outcome, logFetches, faults>>

\* time.sleep(1) (line 242).
PollSleep ==
    /\ ppc = "sleep"
    /\ Elapse(1)
    /\ ppc' = "check"
    /\ UNCHANGED <<job, seen, outcome, logFetches, faults>>

Poll == Check \/ GetJob \/ GetJobFails \/ FetchLogs \/ PollSleep

Next == Poll \/ JobAdvance

\* The poller is the runner's only thread and always takes its next step;
\* the backend owes no progress to the job.
Spec == Init /\ [][Next]_vars /\ WF_vars(Poll)

-----------------------------------------------------------------------------
\* poll_job's result agrees with the backend: it returns only for a job that
\* has succeeded, and reports a job failure only for a job that failed or
\* was canceled, although the job moves on between the GET and the report.
OutcomeMatchesJob ==
    /\ outcome = "returned" => job = "succeeded"
    /\ outcome = "job_failed" => job \in {"failed", "canceled"}

\* poll_job implements PollAbstract, its outcome being the abstract result:
\* every step of the poller or the backend is a step of the abstract
\* specification or leaves the job and the result alone.
PA == INSTANCE PollAbstract WITH result <- outcome

\* poll_job reports one result, once, and it is one the job's status
\* allowed when it was reported: no step after the report (a further
\* poll, a log fetch, the deadline check) changes it (lines 223-242).
RefinesPollAbstract == PA!Spec

\* poll_job always ends: the clock moves on every iteration.
PollerEnds == <>(ppc = "done")
=============================================================================
