----------------------------- MODULE Readiness -----------------------------
(***************************************************************************)
(* wait_for_server (runner.py lines 207-218), the runner's first step      *)
(* (main, line 554), against a backend that is starting.  Until it is up,  *)
(* GET /meta fails (connection refused, a proxy's 502); once up it stays   *)
(* up and answers, except for at most MaxFaults transport faults.  Time    *)
(* passes only in the waiter's own steps and is counted in ticks, a tick   *)
(* being 1/SleepTicks of a second: a request takes 0 to RequestTime ticks  *)
(* (urlopen's timeout of 30 s bounds it), the sleep(1) SleepTicks ticks,   *)
(* and the deadline lies Timeout ticks after the start.  The finer the     *)
(* tick, the closer the discrete clock comes to time.time().              *)
(***************************************************************************)
EXTENDS Naturals, Transport

CONSTANTS
    Timeout,      \* timeout_s (120 by default), in ticks
    RequestTime,  \* the longest one request takes, in ticks
    SleepTicks,   \* the ticks of one second, the time.sleep(1)
    NoErr,        \* None
    MaxFaults     \* bound on the faults of a server that is up

ASSUME TimeoutAssumption == Timeout \in Nat \ {0}
ASSUME RequestTimeAssumption == RequestTime \in Nat
ASSUME SleepTicksAssumption == SleepTicks \in Nat \ {0}
ASSUME NoErrAssumption == NoErr \notin Exceptions
ASSUME MaxFaultsAssumption == MaxFaults \in Nat

VARIABLES
    up,       \* the backend answers GET /meta
    wpc,      \* "check", "request", "sleep" or "done"
    clock,    \* ticks since wait_for_server started
    lastErr,  \* last_err
    outcome,  \* "none", "ready" or "timeout"
    faults,   \* faults of the server while up
    lastFailure  \* history: the exception of the latest failed GET /meta

vars == <<up, wpc, clock, lastErr, outcome, faults, lastFailure>>

TypeOK ==
    /\ up \in BOOLEAN
    /\ wpc \in {"check", "request", "sleep", "done"}
    /\ clock \in Nat
    /\ lastErr \in Exceptions \cup {NoErr}
    /\ outcome \in {"none", "ready", "timeout"}
    /\ faults \in 0..MaxFaults
    /\ lastFailure \in Exceptions \cup {NoErr}

Init ==
    /\ up \in BOOLEAN
    /\ wpc = "check"
    /\ clock = 0
    /\ lastErr = NoErr
    /\ outcome = "none"
    /\ faults = 0
    /\ lastFailure = NoErr

\* The backend finishes starting.
ServerStarts ==
    /\ ~up
    /\ up' = TRUE
    /\ UNCHANGED <<wpc, clock, lastErr, outcome, faults, lastFailure>>

\* Mutant of Check: the deadline recomputed as time.time() + timeout_s in
\* every iteration, so the check always passes.
CheckRearmed ==
    /\ wpc = "check"
    /\ wpc' = "request"
    /\ UNCHANGED <<up, clock, lastErr, outcome, faults, lastFailure>>

\* while time.time() < deadline (line 210); past it, raise the timeout
\* error with last_err (line 218).
Check ==
    /\ wpc = "check"
    /\ IF clock < Timeout
         THEN wpc' = "request" /\ UNCHANGED outcome
         ELSE wpc' = "done" /\ outcome' = "timeout"
    /\ UNCHANGED <<up, clock, lastErr, faults, lastFailure>>

\* GET /meta answered (lines 212-214): log the version and return, however
\* late the answer came.
Answer ==
    /\ wpc = "request"
    /\ up
    /\ \E d \in 0..RequestTime : clock' = clock + d
    /\ wpc' = "done"
    /\ outcome' = "ready"
    /\ UNCHANGED <<up, lastErr, faults, lastFailure>>

\* A server that is down fails every request; one that is up only within
\* the bound.
MayFail ==
    \/ ~up /\ UNCHANGED faults
    \/ up /\ faults < MaxFaults /\ faults' = faults + 1

\* Mutant of RequestFails: `if last_err is None: last_err = e`, the first
\* error kept instead of the latest.
RequestFailsKeepsFirst ==
    /\ wpc = "request"
    /\ MayFail
    /\ \E f \in FaultKinds, d \in 0..RequestTime :
          /\ lastErr' = IF lastErr = NoErr THEN ExcOf(f) ELSE lastErr
          /\ lastFailure' = ExcOf(f)
          /\ clock' = clock + d
    /\ wpc' = "sleep"
    /\ UNCHANGED <<up, outcome>>

\* GET /meta fails (lines 215-216): remember the exception.
RequestFails ==
    /\ wpc = "request"
    /\ MayFail
    /\ \E f \in FaultKinds, d \in 0..RequestTime :
          /\ lastErr' = ExcOf(f)
          /\ lastFailure' = ExcOf(f)
          /\ clock' = clock + d
    /\ wpc' = "sleep"
    /\ UNCHANGED <<up, outcome>>

\* Mutant of WaitSleep: no time passes between two requests.
WaitSleepNoWait ==
    /\ wpc = "sleep"
    /\ wpc' = "check"
    /\ UNCHANGED <<up, clock, lastErr, outcome, faults, lastFailure>>

\* time.sleep(1) (line 217).
WaitSleep ==
    /\ wpc = "sleep"
    /\ clock' = clock + SleepTicks
    /\ wpc' = "check"
    /\ UNCHANGED <<up, lastErr, outcome, faults, lastFailure>>

Wait == Check \/ Answer \/ RequestFails \/ WaitSleep

Next == Wait \/ ServerStarts

\* The waiter is the runner's only thread; the backend owes it nothing.
Spec == Init /\ [][Next]_vars /\ WF_vars(Wait)

-----------------------------------------------------------------------------
\* wait_for_server is over before timeout_s plus one request plus one
\* sleep have passed.  The deadline is checked only before a request: the
\* last request may start just before it and run its full time, and when
\* it fails, the sleep(1) of line 217 still follows before the loop sees
\* the deadline.  Nothing else follows (spec 4.3: "until it answers
\* successfully or a deadline elapses").
WaitBounded == wpc = "done" => clock < Timeout + RequestTime + SleepTicks

\* A timeout reports the error of the latest failed GET /meta, not an
\* earlier one and never None (lines 216 and 218, spec 4.3: "fail fatally
\* with the last observed error").
TimeoutHasLastError ==
    outcome = "timeout" => lastErr # NoErr /\ lastErr = lastFailure

\* wait_for_server always ends, whether or not the backend comes up.
WaiterEnds == <>(wpc = "done")
=============================================================================
