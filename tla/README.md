# TLA+ models of the s3desk end-to-end runner

This directory holds the formal models of `src/e2e/runner/runner.py`, the
E2E test orchestrator of s3desk, and of the repository's two helper scripts,
`src/scripts/generate_third_party_notices.py` and
`src/scripts/lighthouse_auth.py` (see "The scripts" below). The orchestrator drives the s3desk HTTP API
against three storage backends: MinIO (S3), Azurite (Azure Blob) and
fake-gcs-server (GCS). The runner is a single-threaded Python program. What
makes it hard is what it talks to. It calls a server that may not be ready,
may fail any request, may perform a request whose reply is lost, and may
move a job on between two polls. It also retries whole adapters, and a
retried adapter sees the state its previous attempt left behind.

## The system and its parts

| Part (spec section) | Code | Module |
|---|---|---|
| Transport: `_request`, `request_json/bytes/text` (4.1) | lines 14-39, 70-185 | `Transport` (operators only) |
| Retry coordinator: `retry`, `sleep_backoff` (4.2) | 46-67 | `Retry`, proofs in `RetryProofs` |
| Readiness waiter: `wait_for_server` (4.3) | 207-218 | `Readiness`, proofs in `ReadinessProofs` |
| Job poller: `poll_job` (4.4) | 221-243 | `JobPoller`, `PollAbstract` |
| S3 policy adapter (4.5) | 246-298, under retry at 514 | `S3Policy` |
| Azure policy adapter (4.5) | 303-363, under retry at 516 | `AzurePolicy` |
| GCS policy adapter (4.5) | 366-480, under retry at 518 | `GcsPolicy` |
| Orchestrator: `run_scenario`, `main` (4.6) | 482-622 | `EnsureBucket` (the bucket step only) |
| Notices script: `parse_npm_packages`, `normalize_npm_license` | notices 141-207 | `NpmLock` |
| Notices script: `write_notices`, `copy_license_files`, `reset_dir`, manual copies, `parse_args`, `main` | notices 209-385 | `LicenseCopy` |
| Lighthouse helper: all of it | lighthouse_auth.py 18-119 | `Lighthouse`, proofs in `LighthouseProofs` |
| Abstract retry contract | (runner 46-67) | `RetryAbstract`, refined by `Retry` |

How they interact: `main` waits for the server, then runs one scenario per
provider. A scenario creates a profile, then calls `retry` on three things in
turn: the connectivity test, `ensure_bucket`, and the provider's policy
adapter. It then uploads one file, commits it, polls the commit job and
downloads the object. Every request goes through `_request`. `_request`
turns a non-2xx reply into an `HTTPFailure` that carries the error code
parsed from the body, turns a connection failure into a `RuntimeError`, and
lets a read timeout through unchanged.

### Common modelling decisions

* **Transport** has no state. It defines the exception records
  `[kind, status, code]` and the three ways a request can fail
  (`FaultKinds`):
  * `"http"`: a 503 with an error envelope; the server did nothing.
  * `"net"`: a URLError, raised as a RuntimeError; the server saw nothing.
  * `"lost"`: the server performed the request but the reply never came;
    urlopen's timeout raises.

  `ExcOf(f)` is the exception the caller sees. Each module bounds the faults
  of a run with a constant `MaxFaults`.
* **Retry** models `retry` with the wrapped `fn` left opaque. `CallReturns`
  is fn returning. `CallRaises(e)` is fn raising e: it records `last_err`
  and either breaks out on the last attempt or backs off. `Sleep` is the
  backoff sleep. A module of a call site EXTENDS Retry and replaces the
  opaque call by the wrapped function's own steps:
  * `Raise(e)` is `CallRaises(e)` with the adapter's pc reset to its first
    step, because retry calls fn again from the top.
  * Returning is `CallReturns`.

  Nothing else runs while retry sleeps, so the backoff delay is not part of
  the state.
* A step of the runner is one action. Its guard is `At(step)`: retry is
  calling fn and fn's pc is at that step. The alternatives of one request
  are separate actions:
  * the request succeeds;
  * a response check fails;
  * a transport fault occurs.
* The server is part of the state (policy, bucket existence, job status).
  Where the backend's behaviour is not fixed by the runner, it is a
  constant set that the configuration chooses. Examples are what DELETE
  does and what POST /buckets answers for an existing name.
* Data is abstracted to what the properties tell apart. A GCS policy is the
  member set of its `roles/storage.objectViewer` binding, the only binding
  the runner touches. An Azure policy is `publicAccess` plus the shape of
  `storedAccessPolicies`. An S3 policy is its `exists` flag.
* A 2xx reply that fails one of the runner's shape checks (a non-list
  `GET /buckets`, a non-dict GCS policy reply, `{"ok": false}` from
  validate) is a bad reply of the server. It counts against `MaxFaults`
  like a transport fault, so that the bound also covers a server that
  answers badly.

## Runs

Each row is a cfg run by TLC through an MC module.

| Run | Checks | Expect | What it shows |
|---|---|---|---|
| retry | `RaisesLastError`, `RefinesAbstract` | pass | With 4 attempts and 3 exceptions, retry gives up after exactly `attempts` calls, re-raises the last exception unwrapped, and implements `RetryAbstract` under the mapping below. |
| gcs_policy | `TypeOK`, `VerifiedUnlessSkipped` | pass | With `E2E_GCS_IAM` set or not (the variable `required`, chosen at the start from `StrictModes = {TRUE, FALSE}`), the GCS adapter returns only after the modified policy reached the server and DELETE was refused with `bucket_policy_delete_unsupported`, or, with it unset, after a skip. |
| gcs_restore_strict | `RestoresOriginal` | violation | In strict mode (`StrictModes = {TRUE}`), after a lost PUT reply the retried attempt restores the public policy that the previous attempt wrote (finding 1). |
| ensure_bucket | `GivesUpOnlyOnFaults` | pass | With a backend that accepts re-creating a bucket, ensure_bucket gives up only when every attempt met a fault. |
| (MCEnsureBucketConflict.cfg) | `GivesUpOnlyOnFaults` | violation | With a backend that answers 409 for an existing bucket, every attempt fails (finding 2). |
| job_poller | `OutcomeMatchesJob`, `RefinesPollAbstract`, `PollerEnds` | pass | poll_job reports success or failure only as the job really ended, reports one result once (it implements `PollAbstract`), and always ends. |
| s3_policy | `RetriesAbsorbFaults` | pass | Against a backend whose DELETE works, retry gives up on the S3 adapter only after `attempts` faults or bad replies: a policy left by an attempt cut short, or by an earlier run, never fails a later attempt. |
| (MCS3PolicyRetried.cfg) | `CheckFailureNotRetried` | violation | Failed response checks are retried (finding 3). |
| azure_policy | `RetriesAbsorbFaults` | pass | The same for the Azure adapter, against every backend whose DELETE leaves a policy the reset check accepts. |
| (MCAzureNonList.cfg) | `ResetOnReturn` | violation | The reset check accepts a stored-policies value that is not a list (finding 4). |
| readiness | `WaitBounded`, `TimeoutHasLastError`, `WaiterEnds` | pass | wait_for_server ends before timeout plus one request plus one sleep (the sleep after a late failed request still runs), and a timeout carries the latest request's error. |
| npm_lock | `DevOnlyIffAllDev`, `LicenseFirstKnown` | pass | Whatever order the lock file lists a package's entries in, it is dev-only exactly when every entry is dev, and it keeps the first license and license file found. |
| (MCNpmLockNames.cfg) | `ListedNamesAreReal` | violation | A nested entry without a name gets the name `parent/child` (finding 5). |
| license_copy | `LicensesMatchLists`, `NoticesCoverLicenses` | pass | After any run, even on a tree left by an earlier run, the go and npm license directories hold exactly the licenses of the listed packages plus the manual files for them, and the notices list every package whose license is stored. |
| (MCLicenseCopyRclone.cfg) | `RcloneLicenseKept` | violation | An offline run loses the rclone license an earlier run fetched (finding 6). |
| (MCLicenseCopyCollide.cfg) | `EveryLicenseStored` | violation | `@a/b` and `a_b` share a license file name and one license is dropped (finding 7). |
| lighthouse | `ChromeStoppedOnExit`, `ScriptEnds` | pass | Whatever Chrome does, the script ends and, without `--keep-chrome`, leaves no Chrome running. |
| lighthouse_token_race | `AuditedWithToken` | violation | The one-second sleep can close the session before the token reached localStorage (finding 8). |

The project keeps twelve runs in `PROJECT.json`. The rows with a cfg name
in parentheses are counterexamples kept beside them: each checks one
property that TLC finds violated, and reproduces a finding with
`tlc -config <cfg> <MC module>`.

Every property of a passing run has a mutant in `PROJECT.json`. A mutant is
an operator defined next to the action it mutates, such as an initial GET
that insists on a clean bucket, a deadline recomputed in every iteration, or
`last_err` keeping the first error. With the mutant
in place, TLC finds the property violated.

### Bounds

* **Attempts** are 3 or 4 in the passing runs. That is enough for a retry to
  follow a first attempt that wrote to the server and a second that failed.
  The violation runs use the code's own counts: 6 for S3 and 10 for
  ensure_bucket.
* **MaxFaults** is 1 or 2, enough for a lost reply followed by a fault in
  the next attempt.
* **Time:** the poll deadline is 4 s with requests of 0-2 s. Readiness
  counts ticks, a tick being 1/`SleepTicks` of a second: the run has a
  timeout of 4 ticks, requests of 0-2 ticks and a sleep of 2 ticks. Both
  are small, but each still allows a request that starts before the
  deadline and ends after it, and for readiness the sleep that follows a
  late failure, which is the boundary the properties are about. With a
  tick shorter than the sleep, the last check before the deadline is not
  forced onto a whole second. The proofs cover every value.

### Fairness

`JobPoller` and `Readiness` assume weak fairness of the runner's own steps
(`Poll`, `Wait`) only. The runner is the program's single thread and always
takes its next step. The backend (`JobAdvance`, `ServerStarts`) gets no
fairness: a job may never finish and a server may never come up. The
liveness properties hold anyway, because the deadline and the clock end the
loop. The adapter modules check only safety and declare
`CHECK_DEADLOCK FALSE`, because a scenario really ends: retry has returned
or raised.

## The scripts

The spec calls the two scripts independent utilities outside its core; they
are modelled here from their code, like the runner.

* **`NpmLock`** models `parse_npm_packages`. A lock entry is a record (in
  node_modules or not, its folder chain, its `name` field or `NoName`,
  version, dev flag, license fields, whether a license file was found). The
  lock file is any sequence of up to `MaxLen` entries with distinct paths.
  `Merge` is one iteration of the loop of lines 150-173, with one disjunct
  per branch: skip, new key, merge into an existing key. `Partition` is
  lines 175-185, including the sort. The properties compare the result with
  reference definitions over the whole lock file (`At`, `LockKeys`).
  MCNpmLock uses seven entries: a duplicate, an alias (`name` set), a
  second version, a nested folder with and without `name`, and the root
  entry, with MaxLen 3, so every merge order of two entries of one key
  occurs.
* **`LicenseCopy`** models `main` from `parse_args` to the end of
  `copy_license_files`. The tree `dir` maps go/npm/external to a set of
  `<<file name, content>>` pairs; contents say where a file came from. Names
  are sequences of characters, so `sanitize_identifier` and
  `format_license_filename` are modelled by what they do. The script runs
  `MaxRuns` = 2 times on the same tree, each with new lists, command line,
  curl behaviour ("ok", "fail", "missing") and manual files, so stale files
  of an earlier run are present. Go and npm lists come from small constant
  sets; `parse_go_modules`, `find_license_file` and `detect_license` are
  inputs, not modelled (process output and regex matching).
* **`Lighthouse`** models the script and Chrome as two processes. The
  script's steps follow `main` (Popen, the polls of `wait_for_debug_port`,
  the CDP writes, the one-second sleep that closes the session, Lighthouse,
  `finally`). Chrome may start or not, handles the queued commands in
  order, including those sent before the session closed, then detaches a
  closed session and drops the script it registered, commits the
  navigation later, and crashes or ignores SIGTERM. The
  localStorage of the profile folder may already hold a token at the start,
  because the default `--user-data-dir` outlives a run. `Timeout` = 3 polls.
  Fairness: weak fairness of the script's steps only, since it is one
  thread that always proceeds; Chrome gets none. `ScriptEnds` holds anyway
  because the DevTools wait has a deadline and the cleanup kills a Chrome
  that ignores SIGTERM.

## Refinement

`RetryAbstract` states what `retry` promises, with no attempts counter or
pc. Its status is "running", "returned" or "raised", with a list of failures
and the raised exception. A return may happen only while running. A failure
is appended while running, and when the list reaches `Attempts` the last
failure is raised. `Retry` maps onto it with `status <- RetryStatus` (call
and sleep are "running") and `failures <- errors`. `Sleep` is a stutter of
the abstract spec. `MCRetry.cfg` checks `RefinesAbstract == AR!Spec` beside `RaisesLastError`,
and `RetryProofs` proves it for every `Attempts >= 1`.

Retry never runs alone: each adapter is called under it. `GcsPolicyProofs`,
`S3PolicyProofs`, `AzurePolicyProofs` and `EnsureBucketProofs` prove that
each adapter's `Spec` (adapter and retry together) also implements
`RetryAbstract` under the same mapping. The argument has two parts.
* Each adapter step is a step of retry's `RetryNext` or leaves retry's
  variables alone (lemma `RetryStep`). An attempt that raises raises one
  of retry's `Errors`, one that returns (a GCS skip included) returns, and
  a backoff is retry's sleep.
* `RetryProofs`' lemmas `NextIInv` and `StepRefines` then carry retry's
  invariant and refinement over to the composed system.
This needs the assumption that every exception the adapter raises is in
`Errors`, which each MC module satisfies by setting `Errors` to that set.

`PollAbstract` states what `poll_job` promises the scenario, with the loop,
the clock and the log fetch hidden.
* The backend's job moves on until it is terminal.
* The result is set once, from "none", and never changes.
* "returned" is reported only while the job has succeeded, and
  "job_failed" only while it has failed or was canceled.
* A timeout or an escaping transport error may end it at any time.
`JobPoller` maps onto it with `result <- outcome`. The job_poller run checks
`RefinesPollAbstract == PA!Spec`, and `JobPollerProofs` proves it for every
deadline, request time and fault bound.
* The steps that set the outcome are `Report` steps.
* `JobAdvance` is `Advance`.
* Every other step is a stutter.
* This needs the invariant that the outcome is set exactly when the poller
  is done, added to `JIInv`.
The mutant in which the `raise` after the log fetch is missing
(`FetchLogsNoRaise`) breaks it. The loop goes on after reporting a job
failure, and the deadline check then overwrites the result with a timeout.

## Findings

1. **GCS restore after a retry (code bug, line 395).**
   * Every attempt of the GCS adapter re-reads the bucket policy and keeps
     it as `original`.
   * Suppose an attempt fails after its PUT has reached the server. With
     `E2E_GCS_IAM` set (strict mode), skip() re-raises, so a lost PUT reply
     reaches retry. Outside strict mode it is skipped and the scenario
     ends, so the violation run fixes `StrictModes = {TRUE}`.
   * retry then runs the adapter again, and the new attempt captures the
     public policy as `original`. It "restores" that policy and succeeds.
   * The bucket is left granting `allUsers`. This contradicts line 461 and
     spec 4.5.
2. **ensure_bucket is not ensure-exists (line 501).**
   * A failure of `POST /buckets` escapes before the listing.
   * If the API answers 409 for an existing name, all 10 attempts fail. The
     name exists when it was left by an earlier run or created by a POST
     whose reply was lost.
   * Spec section 3 says creation is attempted, then existence is verified
     by listing.
3. **Contract breaks are retried (line 59).**
   * Spec section 7 says protocol violations and assertion failures are
     never retried.
   * retry catches every Exception, including the RuntimeErrors of the
     adapters' own checks.
4. **The Azure reset check is weaker than the spec (lines 359-361).**
   * Any non-list `storedAccessPolicies` passes.

5. **Nested npm packages get a made-up name (notices line 153).**
   `path.replace("node_modules/", "")` removes every occurrence, so
   `node_modules/a/node_modules/b` without a `name` field is listed as `a/b`.
6. **An offline run loses the rclone license (notices line 294).**
   `reset_dir` empties the external directory before the
   `if not rclone_license.exists()` check, which is therefore always true.
   A failing curl is swallowed at line 298, so the license an earlier run
   fetched is gone, while the notices still list rclone.
7. **License file names collide (notices lines 288, 347).**
   `sanitize_identifier` maps `@a/b` and `a_b` to the same name, and the
   `seen` check then skips the second package's license.
8. **The token may never reach Lighthouse (lighthouse_auth.py line 62).**
   The CDP commands are written without waiting for replies, and the
   session closes after a fixed one-second sleep. Chrome still reads the
   commands sent before the close, then detaches the session and removes
   the script registered with it (`Detach`). If the navigation has not
   committed by then, or Lighthouse loads the page before Chrome handled
   the commands, the token never reaches localStorage. Lighthouse then audits unauthenticated, and
   the exit code does not show it.

## Proofs (TLAPS)

* `RetryProofs` also proves `RetryRefinement`: `RetrySpec` implements
  `RetryAbstract`. Init maps to the abstract Init. A failing call maps to
  `Fail(e)`, using the inductive invariant for the history length, and a
  sleep maps to a stutter.
* `LighthouseProofs` proves `ChromeStoppedOnExit` and the type invariant for
  every `Timeout`. The invariant alone is not inductive, because a Chrome
  still starting could come up after the script exits. The strengthening
  `LIInv` says two things:
  * Chrome does not exist before Popen.
  * Once the script waits or has exited without `--keep-chrome`, Chrome is
    neither starting nor up.
  There is one lemma for the script's steps and one for Chrome's.

* `RetryProofs` proves `RetrySpec => []RetryIInv` for every `Attempts >= 1`
  and every exception set. From it follow `RaisesLastError` and the type
  invariant.
  * `RaisesLastError` alone is not inductive. The strengthening says that:
    * the history holds one entry per failed call (`attempt - 1` while
      calling, `attempt` while sleeping);
    * `last_err` is the last entry while sleeping;
    * `attempt` never exceeds `Attempts`;
    * nothing is raised before the end.
  * The proof has one lemma per action of `RetryNext`.
* `ReadinessProofs` proves `WaitBounded` and `TimeoutHasLastError` for every
  timeout, request duration, tick and fault bound.
  * The strengthening `ReadyIInv` bounds the clock at each point of the loop:
    * below the deadline when a request starts;
    * below deadline + request time while sleeping;
    * below deadline + request time + sleep when checking or done.
  * It also records that time passed without an answer implies a failed
    request, and therefore a non-None `last_err`, and that `last_err` is
    the history variable `lastFailure`, the latest failure.
* `JobPollerProofs` proves the type invariant and `OutcomeMatchesJob` for
  every deadline, request duration and fault bound.
  * The strengthening `JIInv` bounds the clock at each point of poll_job.
    * It is below the deadline when a GET starts.
    * It is below deadline + one request while sleeping or fetching logs.
    * It is at most deadline + one request when checking.
    * Logs are fetched only for a failed or canceled job.
  * Proving it corrected the clock bound of `TypeOK`. A GET may start just
    before the deadline and the log fetch of a failed job follows it, so
    poll_job can overrun the deadline by two requests, not one. TLC had not
    seen this with its request time of 1.
  * It also proves `RefinesPollAbstract` (see Refinement). For this,
    `JIInv` also says that the outcome is set exactly when `ppc = "done"`.
* The four adapter proof modules also prove that adapter + retry
  implements `RetryAbstract` (see Refinement). To do so, `RetryProofs`
  exports the step lemma `NextIInv` beside `StepRefines`.
* `EnsureBucketProofs` proves `GivesUpOnlyOnFaults` for every attempts,
  fault bound and backend that accepts POST /buckets for an existing name.
  * The theorem is conditional: a backend that answers 409 breaks the
    property, which is the ensure_bucket finding.
  * The strengthening `EIInv` cites retry's invariant. It adds that a
    listing is reached only once the bucket exists, and that the history of
    failed calls is no longer than the faults seen.
* `S3PolicyProofs` and `AzurePolicyProofs` prove `RetriesAbsorbFaults` for
  every attempts and fault bound.
  * The property speaks only of the end, so it is not inductive. The
    strengthenings `S3IInv` and `AzIInv` cite retry's invariant and add,
    for a backend whose DELETE works, that the history of failed calls is
    no longer than the faults seen.
  * That rests on two facts: the GET after the PUT is reached only right
    after the attempt's own PUT, and the GET after the DELETE only right
    after its own DELETE. So the two checks that could fail on a sound
    server cannot.
  * retry's `RaisesLastError` then turns `attempts` failures into
    `attempts` faults.
* `GcsPolicyProofs` proves the type invariant and `VerifiedUnlessSkipped`
  for every attempts, fault bound, member set and DELETE reply.
  * The strengthening `GIInv` cites retry's invariant and adds two facts.
    * A skip happens only outside strict mode.
    * The steps after the PUT are reached only once the modified policy
      was published.
  * The DELETE step is split on the three replies. Only the refusal with
    bucket_policy_delete_unsupported returns.
* TLC checked each strengthening as an invariant before it was proved.
  * The JobPoller one was checked with several (Deadline, MaxRequestTime)
    pairs.
  * The GCS one was checked with two fault bounds.
* Assumptions: `Attempts \in Nat \ {0}` (all call sites pass 3 to 15),
  `NoErr \notin Errors`, `Timeout \in Nat \ {0}`, and natural-number
  request times and fault bounds.
  * Each adapter's exceptions are among retry's `Errors`, as in every run.
  * For GCS, the non-dict reply `NoPolicy` is not a member set.

Only TLC checks the following:
* the script properties other than `ChromeStoppedOnExit`;
* the liveness properties (`PollerEnds`, `WaiterEnds`, `ScriptEnds`), since TLAPS does
  not handle fairness or ENABLED;
* `RestoresOriginal` (GCS), whose run is a violation run;
* the notices-generator properties (`DevOnlyIffAllDev`, `LicenseFirstKnown`,
  `LicensesMatchLists`, `NoticesCoverLicenses`). They rest on the sorted
  order `SortSeq` produces. `SortSeq` picks a sorting permutation with
  CHOOSE, and showing that one exists is an induction over sequences. The
  library's induction theorems take an operator parameter, which none of
  the installed provers can instantiate.

## Plan and what is not modelled

Done: Transport, Retry, Readiness, JobPoller, the three policy adapters and
ensure_bucket, the retry refinement, and the two scripts. Next, in order:

1. **Scenario module.** It composes the orchestrator steps: the profile test
   under `retry(attempts=15)`, EnsureBucket, the adapter chosen by provider,
   upload, commit, JobPoller and download.
   * It is needed to check the stale-content hazard. The uploaded bytes are
     the same on every run, so an object left by an earlier run passes the
     byte comparison.
2. **Abstract specification of a scenario.** "A scenario ends in success
   only after each stage succeeded", with the Scenario module shown to
   refine it, as `Retry` already refines `RetryAbstract`.
3. **More proofs.** The scenario's refinement, once the Scenario module
   exists.

Not modelled:

* `sleep_backoff`'s delay values. This is pure arithmetic that affects no
  control flow.
* `multipart_form`, a byte encoding.
* Logging and message wording.
* In the notices script: `parse_go_modules` (the output of `go list`),
  `find_license_file` and `detect_license` (regexes over file names and
  texts). Their results are inputs of the model.
* In the Lighthouse helper: argparse and the Chrome command line, which
  decide no step, and what Lighthouse itself does beyond reading
  localStorage. A hung Lighthouse (no timeout at line 79) is not modelled.
