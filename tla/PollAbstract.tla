---------------------------- MODULE PollAbstract ----------------------------
(***************************************************************************)
(* What poll_job (runner.py lines 221-243) promises the scenario, with the *)
(* loop, the clock and the log fetch hidden: the backend's job moves on by *)
(* itself until it reaches a terminal status, and poll_job reports one     *)
(* result, once, and never changes it.  It reports success only for a job *)
(* that has succeeded and a job failure only for one that failed or was    *)
(* canceled; a timeout or an escaping transport error may end it at any    *)
(* time.                                                                   *)
(***************************************************************************)

VARIABLES
    job,     \* the backend's status of the job
    result   \* "none" until poll_job ends, then how it ended

Statuses == {"pending", "running", "succeeded", "failed", "canceled"}
Final == {"succeeded", "failed", "canceled"}

Init ==
    /\ job \in {"pending", "running"}
    /\ result = "none"

\* The backend moves the job on; a terminal status is final.
Advance ==
    /\ job \notin Final
    /\ \E s \in Statuses \ {"pending", job} : job' = s
    /\ UNCHANGED result

\* poll_job ends, with a result the job's status at that moment allows.
Report ==
    /\ result = "none"
    /\ \/ job = "succeeded" /\ result' = "returned"
       \/ job \in {"failed", "canceled"} /\ result' = "job_failed"
       \/ result' \in {"timeout", "error"}
    /\ UNCHANGED job

Next == Advance \/ Report

Spec == Init /\ [][Next]_<<job, result>>
=============================================================================
