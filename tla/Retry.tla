------------------------------- MODULE Retry -------------------------------
(***************************************************************************)
(* The retry coordinator, retry(what, fn, attempts, base_delay_s) of       *)
(* src/e2e/runner/runner.py (lines 54-67).  fn is opaque here: a call of   *)
(* it either returns or raises one of Errors.  The modules of the call     *)
(* sites (EnsureBucket, GcsPolicy) extend this one and replace the opaque  *)
(* call by the steps of the wrapped function.                              *)
(*                                                                         *)
(* The backoff sleep (sleep_backoff) only delays the next attempt; the     *)
(* single-threaded runner does nothing else meanwhile, so it is the step   *)
(* Sleep and its duration is not part of the state.                       *)
(***************************************************************************)
EXTENDS Naturals, Sequences

CONSTANTS
    Attempts,   \* the attempts argument
    Errors,     \* the exceptions fn may raise
    NoErr       \* None

\* Every call site passes attempts >= 3 (lines 490-518), so the loop runs
\* at least once and the RuntimeError of lines 65-66 cannot be raised.
ASSUME AttemptsAssumption == Attempts \in Nat \ {0}
ASSUME NoErrAssumption == NoErr \notin Errors

VARIABLES
    rstate,    \* "call": fn is running; "sleep": backing off; or
               \* "returned" / "raised": retry has returned or raised
    attempt,   \* the loop variable i
    lastErr,   \* last_err
    errors,    \* history: the exception of every failed call, in order
    raised     \* the exception retry raised, NoErr while it has not

retryVars == <<rstate, attempt, lastErr, errors, raised>>

RStates == {"call", "sleep", "returned", "raised"}

RetryTypeOK ==
    /\ rstate \in RStates
    /\ attempt \in Nat \ {0}
    /\ lastErr \in Errors \cup {NoErr}
    /\ errors \in Seq(Errors)
    /\ raised \in Errors \cup {NoErr}

RetryInit ==
    /\ rstate = "call"
    /\ attempt = 1
    /\ lastErr = NoErr
    /\ errors = <<>>
    /\ raised = NoErr

\* fn is being called (the loop breaks before i passes attempts).
CanCall == rstate = "call"

\* fn() returned: retry returns its value (line 58).
CallReturns ==
    /\ CanCall
    /\ rstate' = "returned"
    /\ UNCHANGED <<attempt, lastErr, errors, raised>>

\* Mutant of CallRaises: last_err keeps the first exception
\* (`if last_err is None: last_err = e`).
CallRaisesKeepsFirst(e) ==
    /\ CanCall
    /\ lastErr' = IF lastErr = NoErr THEN e ELSE lastErr
    /\ errors' = Append(errors, e)
    /\ IF attempt >= Attempts
         THEN /\ rstate' = "raised"
              /\ raised' = lastErr'
         ELSE /\ rstate' = "sleep"
              /\ raised' = raised
    /\ UNCHANGED attempt

\* Mutant of CallRaises: an off-by-one in the last-attempt test
\* (`if i > attempts`), so the loop backs off after the last failure.
CallRaisesLate(e) ==
    /\ CanCall
    /\ lastErr' = e
    /\ errors' = Append(errors, e)
    /\ IF attempt > Attempts
         THEN /\ rstate' = "raised"
              /\ raised' = lastErr'
         ELSE /\ rstate' = "sleep"
              /\ raised' = raised
    /\ UNCHANGED attempt

\* fn() raised e (lines 59-64): record it; on the last attempt break out
\* and re-raise last_err unchanged (line 67), otherwise back off.
CallRaises(e) ==
    /\ CanCall
    /\ lastErr' = e
    /\ errors' = Append(errors, e)
    /\ IF attempt >= Attempts
         THEN /\ rstate' = "raised"
              /\ raised' = lastErr'
         ELSE /\ rstate' = "sleep"
              /\ raised' = raised
    /\ UNCHANGED attempt

\* time.sleep(sleep_backoff(base_delay_s, i)), then the next iteration.
Sleep ==
    /\ rstate = "sleep"
    /\ rstate' = "call"
    /\ attempt' = attempt + 1
    /\ UNCHANGED <<lastErr, errors, raised>>

RetryNext ==
    \/ CallReturns
    \/ \E e \in Errors : CallRaises(e)
    \/ Sleep

RetrySpec == RetryInit /\ [][RetryNext]_retryVars

-----------------------------------------------------------------------------
(***************************************************************************)
(* Properties.                                                             *)
(***************************************************************************)

\* retry gives up only after exactly `attempts` calls of fn, and what it
\* raises is the exception of the last of them, unwrapped (spec section 8:
\* "raises the original (unwrapped) last error").
RaisesLastError ==
    rstate = "raised" => /\ Len(errors) = Attempts
                         /\ raised = errors[Attempts]

-----------------------------------------------------------------------------
(***************************************************************************)
(* The inductive invariant behind RaisesLastError: the history has one     *)
(* entry per failed call, last_err is its last entry while backing off,    *)
(* and the loop variable never passes `attempts` while a call is due.      *)
(***************************************************************************)
RetryIInv ==
    /\ RetryTypeOK
    /\ rstate \in {"call", "returned"} => Len(errors) = attempt - 1
    /\ rstate = "sleep" => /\ Len(errors) = attempt
                           /\ attempt < Attempts
                           /\ lastErr = errors[attempt]
    /\ attempt <= Attempts
    /\ rstate # "raised" => raised = NoErr
    /\ RaisesLastError

-----------------------------------------------------------------------------
(***************************************************************************)
(* Refinement: the loop implements the contract of RetryAbstract.  Calling *)
(* and backing off are both "running"; a backoff sleep is a stuttering     *)
(* step of the contract.                                                   *)
(***************************************************************************)
RetryStatus == IF rstate \in {"call", "sleep"} THEN "running" ELSE rstate

AR == INSTANCE RetryAbstract WITH status <- RetryStatus, failures <- errors

\* Every behaviour of the retry loop is one the contract allows: fn is
\* called again only while fewer than `attempts` calls failed, retry
\* returns only on a call that returned, and raises the exception of the
\* last failure exactly when the `attempts`-th call failed.
RefinesAbstract == AR!Spec
=============================================================================
