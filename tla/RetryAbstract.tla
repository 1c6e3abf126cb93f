--------------------------- MODULE RetryAbstract ---------------------------
(***************************************************************************)
(* What retry(what, fn, attempts, base_delay_s) (runner.py lines 54-67)   *)
(* promises its callers, with the loop, the loop variable, last_err and   *)
(* the backoff hidden: fn is called until it returns, in which case retry *)
(* returns, or until it has failed `attempts` times, in which case retry  *)
(* raises the exception of the last failure (spec section 4.2).           *)
(***************************************************************************)
EXTENDS Naturals, Sequences

CONSTANTS
    Attempts,   \* the attempts argument
    Errors,     \* the exceptions fn may raise
    NoErr       \* nothing raised

VARIABLES
    status,     \* "running", "returned" or "raised"
    failures,   \* the exceptions of the failed calls, in order
    raised      \* what retry raised, NoErr while it has not

Init ==
    /\ status = "running"
    /\ failures = <<>>
    /\ raised = NoErr

\* fn returns: so does retry.
Return ==
    /\ status = "running"
    /\ status' = "returned"
    /\ UNCHANGED <<failures, raised>>

\* fn raises e: one more failure; the last allowed one is raised as it is.
Fail(e) ==
    /\ status = "running"
    /\ failures' = Append(failures, e)
    /\ IF Len(failures') = Attempts
         THEN status' = "raised" /\ raised' = e
         ELSE UNCHANGED <<status, raised>>

Next == Return \/ \E e \in Errors : Fail(e)

Spec == Init /\ [][Next]_<<status, failures, raised>>
=============================================================================
