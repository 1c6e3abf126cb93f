---------------------------- MODULE EnsureBucket ----------------------------
(***************************************************************************)
(* ensure_bucket of run_scenario (runner.py lines 500-509): POST /buckets, *)
(* then GET /buckets and require the name in the list, the whole run      *)
(* under retry(..., attempts=10, base_delay_s=0.8).                        *)
(*                                                                         *)
(* The server keeps whether the bucket exists.  The runner never deletes  *)
(* a bucket, so a run against a backend used before starts with it.  What *)
(* POST /buckets answers for a name that exists is the backend's choice:  *)
(* createExisting is "ok" (2xx) or "conflict" (a 409 HTTPFailure).         *)
(***************************************************************************)
EXTENDS Retry, Transport

CONSTANTS
    CreateExistingReplies,  \* the answers POST /buckets may give for an
                            \* existing name, a subset of {"ok", "conflict"}
    MaxFaults               \* bound on the faults and bad replies of one run

ASSUME CreateExistingAssumption ==
    CreateExistingReplies \subseteq {"ok", "conflict"}
ASSUME MaxFaultsAssumption == MaxFaults \in Nat

\* The 409 of POST /buckets for a name that is taken.
Conflict == HTTPFailure(409, ErrorBody(TRUE, "bucket_already_exists"))

\* The exceptions ensure_bucket can raise.
EnsureExceptions == Exceptions \cup {Conflict}

\* retry's exception set holds every exception ensure_bucket raises.
ASSUME ErrorsAssumption == EnsureExceptions \subseteq Errors

VARIABLES
    pc,              \* "create", "list" or "done"
    exists,          \* the bucket is on the server
    createExisting,  \* the server's answer to creating an existing bucket
    faults           \* faults and bad replies so far

vars == <<retryVars, pc, exists, createExisting, faults>>

TypeOK ==
    /\ RetryTypeOK
    /\ pc \in {"create", "list", "done"}
    /\ exists \in BOOLEAN
    /\ createExisting \in CreateExistingReplies
    /\ faults \in 0..MaxFaults

Init ==
    /\ RetryInit
    /\ pc = "create"
    /\ exists \in BOOLEAN
    /\ createExisting \in CreateExistingReplies
    /\ faults = 0

Raise(e) == CallRaises(e) /\ pc' = "create"

Fault(f) == /\ faults < MaxFaults
            /\ faults' = faults + 1

At(step) == CanCall /\ pc = step

\* Mutant of Create: ensure_bucket lists before it creates, so an attempt
\* that does not find the bucket raises before creating it.
CreateAfterListing ==
    /\ At("create")
    /\ IF exists
         THEN IF createExisting = "conflict"
                THEN Raise(Conflict)
                ELSE pc' = "list" /\ UNCHANGED retryVars
         ELSE Raise(RuntimeErr)
    /\ UNCHANGED <<exists, createExisting, faults>>

\* POST /buckets answered by the server (line 501): a new name is created;
\* an existing one is accepted or refused with 409, which request_json
\* raises as an HTTPFailure before the listing is reached.
Create ==
    /\ At("create")
    /\ IF exists /\ createExisting = "conflict"
         THEN Raise(Conflict)
         ELSE pc' = "list" /\ UNCHANGED retryVars
    /\ exists' = TRUE
    /\ UNCHANGED <<createExisting, faults>>

\* POST /buckets meets a fault; a lost reply still created the bucket.
CreateFails(f) ==
    /\ At("create")
    /\ Fault(f)
    /\ exists' = (exists \/ Performed(f))
    /\ Raise(ExcOf(f))
    /\ UNCHANGED createExisting

\* GET /buckets answers 2xx with a body that is not a list (lines 503-504):
\* a RuntimeError.  A bad reply of the server, counted with the faults.
ListMalformed ==
    /\ At("list")
    /\ Fault("malformed")
    /\ Raise(RuntimeErr)
    /\ UNCHANGED <<exists, createExisting>>

\* GET /buckets (lines 502-507): the name must be listed.
List ==
    /\ At("list")
    /\ IF exists
         THEN CallReturns /\ pc' = "done"
         ELSE Raise(RuntimeErr)
    /\ UNCHANGED <<exists, createExisting, faults>>

ListFails(f) ==
    /\ At("list")
    /\ Fault(f)
    /\ Raise(ExcOf(f))
    /\ UNCHANGED <<exists, createExisting>>

Backoff ==
    /\ Sleep
    /\ UNCHANGED <<pc, exists, createExisting, faults>>

Next ==
    \/ Create
    \/ List
    \/ ListMalformed
    \/ Backoff
    \/ \E f \in FaultKinds : CreateFails(f) \/ ListFails(f)

Spec == Init /\ [][Next]_vars

-----------------------------------------------------------------------------
\* ensure_bucket has ensure-exists semantics (spec section 3: "creation is
\* attempted, then existence is verified by listing"): retry gives up on
\* it only when every one of its attempts met a transport fault or a bad
\* reply.
GivesUpOnlyOnFaults ==
    rstate = "raised" => faults >= Attempts

=============================================================================
