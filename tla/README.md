# Verification of the Shellgei Online Judge

This directory holds TLA+ specifications of the Shellgei Online Judge, the TLC
configurations that check them on small instances, and TLAPS proofs. Paths
below are relative to the repository's `src/`.

## The system

A user types a shell one-liner. The frontend sends it to the **backend**
(FastAPI, `backend/soj_backend`), which asks the **runner** (FastAPI,
`backend/soj_runner`) to execute it in a disposable Docker container, judges
the result, stores a log row in PostgreSQL and answers. The runner alone talks
to the Docker daemon. Deployment and CI scripts replace the services.

| Component | State it keeps | Operations | Correct when |
|---|---|---|---|
| Container manager (`soj_runner/container_manager.py`) | semaphore `_slots`, `_managed`, `_pending_names`, `pool`, four flags, three locks, the daemon's containers | `initialize_pool`, `get_container`, `release_container`, `begin_shutdown`, `shutdown_pool`, creation, undo, removal, reconciliation | a slot stands for each container that exists or may exist; a container serves one command; never more than `pool_size` run; shutdown leaves nothing and ends |
| Sandbox executor (`soj_runner/sandbox_executor.py`, result conversion in `run_shellgei.py`) | watchdog (`_finished`, `_reason`, `termination_error`), timer thread, captured output | prepare, exec, stream, limits, artifact capture, stop, classify | the reported status is what happened; "stopped" is true; every execution ends |
| Execution admission (`run_shellgei.py`, `admission_control.py`, `soj_shared/async_thread.py`, `soj_runner/main.py`) | token bucket, execution slots, executor queue and threads, futures | acquire, submit, wait, time out, cancel, close | a command keeps its slot to its end; each slot is returned once; nothing queues |
| Runner HTTP service (`soj_runner/main.py`, `runner_http_security.py`) | none of its own | lifespan, `/execute`, `/ready` | startup and shutdown in order |
| Runner client (`soj_backend/runner_client.py`) | slots, HTTP worker threads | `execute`, `close` | an answer belongs to its request and revision |
| Submission (`soj_backend/submit_solution.py`, `api/api_shellgei.py`) | none | `submit` | a stored row and an answer agree; a storage failure does not lose the answer |
| Execution log (`execution_log_repository.py`, `execution_log_retention.py`) | save executor, slots, `_closing`, table rows | `save`, `prune`, `shutdown` | a save answered with an id is committed; rows are bounded |
| Judge (`judge.py`, `image_validation.py`, `artifact_display.py`) | none | `judge`, `select_display_artifact` | a verdict on the answer only for an execution that was not cut off by a limit, and then the right one; no record rejects a result |
| Migrations and database access (`database_migrations.py`, `database_access.py`, `database_admin.py`) | schema, revision table, runtime role and its privileges | migrate, provision, validate | schema and recorded revisions agree; rows keep their judgment; reported success is true |
| Deployment (`deploy/production.py`) | `FAILED`, `current.json`, override, containers | `update`, `execute` | a half-made deployment is never taken for a good one |
| Deployment pipeline (`ci/deploy.py`) | run states, remote archive | wait for CI, transfer | only a commit whose CI passed is deployed |
| Frontend (`frontend/src`) | URL, problem and submission versions, abort controllers | navigate, load problem, submit | what is shown is about the last click and the selected problem; a submission settles |
| Problem data, tools, logging, supply-chain checks | immutable after start | load, review, log | single-threaded, covered by unit tests |

### How they interact

* Runner: HTTP coroutines run in one event loop. `run_with_timeout` takes an
  execution slot and submits to a thread pool of `pool_size` threads. The
  worker thread leases a container from the manager, runs the command with a
  timer thread next to it, and gives the container back, which destroys it and
  creates a replacement. The lifespan thread fills the pool before serving and
  then calls `begin_shutdown`, `docker_client.close`, `shutdown_pool`.
* Shared between worker threads and the lifespan thread: the manager's books
  under `lock`, `_create_shutdown_lock`, `_cleanup_lock`; the semaphore, which
  is changed outside `lock`; the Docker daemon, which outlives the process.
* Backend to runner: one HTTP call per submission, authenticated, carrying a
  request id and the problem revision. Backend to PostgreSQL: one transaction
  per saved row, in a thread pool of its own.

### What is hard in it

Creation racing shutdown; two threads removing one container; Docker calls
that fail after taking effect, or take effect after failing; a crash with
containers running; a timeout racing the end of the command, with the kill in
another thread than the result; slots kept for abandoned requests and returned
by a callback that may run in either of two threads; `submit` failing after it
has queued; an image path that is a FIFO, so that reading it blocks; a retention
that counts from ids other transactions have not committed; maintenance runs for
different targets at once; answers that reach a page after the user has moved
on. `PROJECT.json` lists each at its line under `hazards`, with the properties
that cover it.

## The modules

### `ContainerManager`

One step is what a thread does while it holds `self.lock`, or one Docker call;
the two long-held locks are variables and are held across steps.

| Variable | Code |
|---|---|
| `pc`, `op`, `at`, `todo` | where each thread is, the public method it is in, the container in its hands, the lifespan thread's list of what to kill or remove |
| `createLock`, `cleanupLock` | owners of `_create_shutdown_lock`, `_cleanup_lock` |
| `slots`, `managed`, `pending`, `pool`, `flags` | `_slots`, `_managed`, `_pending_names`, `pool`, `_image_validated`/`_initialized`/`_degraded`/`_shutting_down` |
| `daemon` | the Docker daemon's view of each name: absent, requested (a create whose answer was lost and that may still apply), created, running, exited |
| `used` | history: containers a command was let into |
| `faults`, `restarts` | bounds |

| Method | Actions |
|---|---|
| `get_container` | `GetContainer`, and creation when the pool is empty |
| `_create_container` | `ReserveName`, `DockerCreate`, `UndoCreate`, `ForgetPendingName`, `StartContainer`, `RemoveContainer` after a failed start |
| `_create_and_add` | the same, then `AddToPool` |
| `_cleanup_container`, `_forget_removed_container` | `RemoveContainer`, `ForgetRemoved`, `ReturnSlot` |
| `release_container` | `ReleaseContainer`, removal, `Replenish`, `MarkDegraded` |
| `_reconcile_stale_containers`, `initialize_pool` | `ListStale`, `RemoveStale`, `FillPool` |
| `begin_shutdown`, `shutdown_pool` | `BeginShutdown`, `KillManaged`, `ListRemaining`, `SweepManaged`, `SweepPending`, `Stop` |
| the environment | `LateCreate`, `Restart` |

`Restart` may happen at any step: the books start anew, the daemon keeps what
it has, and a create the dead process had sent may still take effect.
Threads call the methods the way the runner does: workers through
`get_container` and `release_container`, Main through the lifespan.

Abstractions: the deque `pool` is a set (which container is leased does not
matter to any property, and leasing any of them includes leasing the oldest);
kill followed by forced removal is one step, whose failure may leave the
container as it was, killed, or gone; a creation with the inspection of its
mounts is one step, and so are a start and its cgroup check, each failing with
or without effect; a forced removal whose call failed has its effect then or
never; a name no variable refers to may be drawn again, which
keeps the set of names finite where the code draws a new UUID. Container
options and log lines are left out.

### `SandboxLease`

What the manager promises the worker threads, without books, locks or Docker: a
sandbox becomes ready, is leased by one worker, is given back and is spent;
spent ones are destroyed; at most `PoolSize` are present; `Close` ends leasing
for good, and a `Crash` starts again with whatever was leased still present.
`ContainerManager` implements it under the mapping of its section
*Refinement*:

| `SandboxLease` | `ContainerManager` |
|---|---|
| `phase` | closed when `_shutting_down`, open when `_initialized`, else starting |
| `ready` | `pool` |
| `leased[w]` | the container of a worker that executes a command |
| `spent` | used containers the daemon still has and no worker executes in |

### `SandboxExecution`

One execution, from `SandboxPreparer.prepare` to the `ExecutionResult` the
runner returns. `worker` is the thread of `SandboxExecutor.execute`, `timer`
the thread of `threading.Timer`; they share `finished`, `reason` and
`killFailed` (`ExecutionWatchdog`). `CommandExits` is the user's command;
`ShutdownKill` is `begin_shutdown` in the lifespan thread. `terminate` is two
steps, because the kill is outside the watchdog's lock. Output is reduced to
"cut off or not", "exit code known or not" and the first error; an error is
absent, empty (`str(exc) == ""`) or a text, because `_to_execution_result` and
the model's validator tell exactly these apart. Artifacts are byte counts: the
judged one has the problem's limit, the display GIF what Base64 of the first
leaves of the shared budget (`RemainingBytes`). The path of an image may be a
FIFO, on which `head` waits (`ReadMayBlock`).

`StatusIsTrue` has one exception, `CutByShutdown`: when `begin_shutdown` kills
the container (`container_manager.py:452-463`) nobody tells the watchdog, the
stream ends, the exec has exit code 137, and the execution is `COMPLETED` like
one that came to its own end.

### `Judge` and `JudgedExecution`

`Judge` has the judge, the image checks and the choice of the displayed image as
operators. A text is a sequence over a letter, blanks, line feeds and carriage
returns; an image file is what the checks tell apart: its outer bytes, the
format the decoder finds, whether its frames stay within the pixel limit, and its
pixels. `JudgedExecution` composes it with `SandboxExecution`: when the result is
there, `JudgeResult` gives it every content and every policy of a problem it can
have, and judges. `VerdictIsDeserved` compares the verdict with what the racing
threads did, and the comparison of texts with a definition of its own
(`SameText`, character by character), so the normalisation is checked too.

The exception of `StatusIsTrue` reaches the judge. A command that the shutdown
killed counts as a complete execution: a problem that asks for exit code 0 makes
it an execution failure, which `VerdictIsDeserved` requires, and one that ignores
the exit code judges what the command had written by then, so it may be accepted
or called wrong. `VerdictIsDeserved` allows exactly that and nothing else that did
not come to its own end. uvicorn waits for open requests before it ends the
lifespan (it is started without a timeout for a graceful shutdown,
`backend/Dockerfile:55`), so what the kill meets are mostly commands whose
requests are gone; nothing in the models relies on it.

### `ExecutionAdmission`

Requests are coroutines; each runs without a break up to its first await, so
acquiring a slot and submitting is one step. `ThreadPoolExecutor` is external
and is modelled with its work queue, its count of idle threads and its started
threads, because the properties depend on them: `submit` queues first and
starts a thread second. `callbacks` are the futures whose completion returns a
slot (`add_done_callback`). Time in the rate limiter is the `Refill` action: a
whole token at a time, which is the granularity at which `try_acquire` decides.

### `CommandService`

What the runner promises the backend of the commands it sends, without slots, queue
and threads: a command arrives, is rejected or runs, and a running one ends or is
killed; it runs at most once, never after it was rejected or killed, and at most
`Capacity` run at a time. `ExecutionAdmission` implements it under the mapping
`commandOf`: to the service a request and its command are one, which waits
("arrived") until a thread has taken it, whether it is still with the coroutine or in
the executor's queue, and "killed" is a future that `close` cancelled. A command of a
refused request in the queue would have no counterpart.

### `ExecutionLog`

The backend's save executor and the transactions it runs. One step of a worker
is one SQL statement: `Insert` (add and flush, which draws the id),
`SelectNewest`, `StartDelete` (the statement's snapshot), `DeleteRows` (it has
the row locks), `Commit`. PostgreSQL is external and modelled at READ
COMMITTED: a statement sees the committed rows and its own; a delete waits for
transactions that have deleted rows it wants; a rollback restores the rows and
not the sequence. Requests are numbered in the order they arrive, which loses no
behaviour but renamings. Row locks are taken all at once (a deadlock between two
deletes would be one more way for a statement to fail, which `StatementFails`
has). `CommitFails` is a commit that raises with or without effect. The
executor takes queued items in any order and may or may not start a thread for
an item, within its capacity. `stored` is history. `Shutdown` may be called at
any moment, as the tests do; `Crash` rolls the transactions back, but for
commits that were sent.

### `SaveService`

What the log store promises a submission, without workers, statements or ids: an
accepted save ends once, as saved with its row or as failed with or without it, and no
row is written but by such an end. `ExecutionLog` implements it:

| `SaveService` | `ExecutionLog` |
|---|---|
| `save` | `reported`: "pending" from the queue to the rollback, "failed" also for what a crash has cut off |
| `logged` | `rowsOfSaves`: the requests with a row committed under their id, counted once a rollback that follows is over |

A save of `ExecutionLog` keeps its id when it is over, because the service
tells its row from those of the others. `logged` is what was committed; that
retention deletes rows later is not the service's.

### `SubmissionPath`

A submission from its request to its answer, over three processes' worth of
state: the coroutine (`request`, `answer`), the HTTP worker thread (`call`,
`callbacks`, `slots` of `RunnerClient`), the runner's endpoint (`job`,
`ranUnder`, `runner`) and the save (`save`, `logged`). The
runner's commands and the saves take the steps of `CommandService` and
`SaveService`, which `ExecutionAdmission` and `ExecutionLog` implement: the endpoint
adds the check of the revision and the reply, the coroutine the hand-over of the entry.
The runner may be killed and start again with other problems. A save whose
`submit` raises after it was queued (`Thread.start`) is accepted although the
submission is answered as unsaved (`Resume`). A response that is broken, too long or
of another version is "unavailable", like a lost one.

A call ends as "result" with what the command did, or as "error" with a result that
the endpoint made up: `run_with_timeout` answers with status 200 and an `ERROR` result
when its own timeout is over, when `executor.submit` raises or when `close` cancels
the future (`run_shellgei.py:195-206`; `WaitAbandoned`, `SubmitRaises` and `Close` of
`ExecutionAdmission`). `GiveUp` is that answer: the command it is about may still run,
or wait in the queue and run later, or never. The backend judges and stores such a
result like any other, so a row does not always stand for a command that has ended;
`LogFollowsExecution` says which rows do, and that the others are for a command the
endpoint had accepted and given up; the judge calls their status `ERROR` an execution
failure (`ExecutionFailed` in `Judge`). The runner's 404 cannot occur once revisions
match, since revisions identify the problems. The secret is validated at start
and does not change.

### `DatabaseMaintenance`

Runs of `database_admin` (`phase`, `target`, `tx`), the committed database
(`recorded` revisions, the log `table` with its columns, rows and the role's
grant, the `role`, other `grants`), and the backend's start, saves and stop. The
rows are a function from ids.

| Code | Actions |
|---|---|
| `database_admin.main` | `Start`, `Report`, `Fail` |
| `migrate_database` | `AcquireMigrationLock`, `Stamp`, `Upgrade` and `Downgrade` (one revision with its record each), `Commit` |
| `provision_runtime_role` | `ProvisionRuntimeRole` |
| `validate_runtime_database`, `ExecutionLogRepo.prune`, the end of the lifespan | `StartBackend`, `Prune`, `StopBackend` |
| `ExecutionLogRepo.save` | `SaveLog` |

PostgreSQL is external: DDL holds the table until the transaction ends, an
advisory lock likewise, a statement sees what is committed and its own changes,
and whatever fails is rolled back. `Fail` is any of: a check that does not hold, a
failing statement, a wait beyond `lock_timeout`, a killed process, a COMMIT whose
answer is lost, a failing `dispose`. Provisioning is one step, because its grants
hold the catalog rows they change until it commits. The columns of one revision
are one element. A row is the legacy code and the verdict; the remaining
backfilled columns are constants. The start of the backend is two transactions,
the validation and the prune, and a migration may commit in between; a save inserts
its row and prunes in one (`execution_log_repository.py:80-85`). Which rows a prune
deletes is the business of `ExecutionLog`; here it is any of them (`Retained`), so that
`RowsKeepTheirJudgment` can tell the retention, which may take rows, from the migrations,
which may not, but for one to `base`. `foreign` stands for a privilege that the
administrator's REVOKE does not reach. Nothing in the code keeps the backend
from serving while maintenance runs (`backend/README.md` asks the operator to stop
it), so in the model it may.

### `Playground`

The page: the URL, the location it is rendered for and the one its effects ran
for are three variables, since react-router changes the first at once and React
the others later. Problem fetches and submissions are sets of what is under way;
`problemVersion`, `version` and `active` are the refs. A rejected promise of an
aborted fetch and a fetch that ignores the abort are both a late continuation.

| Code | Actions |
|---|---|
| `changeProblemUrl`, the router | `Navigate`, `Redirect`, `Render` |
| the effect of `Playground` and its clean-up | `RunEffects` (`LoadProblem`, `RejectLocation`, `CleanUp`), `ShowProblem`, `ProblemFails` |
| `submitClick`, unmounting | `RejectCommand`, `Submit`, `Settles`, `Unmount` |
| `fetchJson`'s race | `Answered`, `Timeout` |

Between a navigation and the effects of its rendering the page still serves the
old problem, and its 404 may then redirect although the URL has changed.
`SelectionDecidesProblem` therefore speaks of the location whose effects have run
last; that no redirect falls into that gap is for React to give, not the code. A
problem fetch has no timeout, so nothing is promised about its end.

### `Deployment`

The deploy workflow and the update on the host, which are two processes: the
update goes on when its run loses the connection or times out. `run` is the
workflow run (its concurrency group admits one), `recorded` the commits whose
run has the step that later runs compare with, `pc` and `sha` the update, which
holds the lock from `Launch` to `Exit`.

| Code | Actions |
|---|---|
| `wait_for_ci`, `deployment_unchanged`, `deployed_commit` | `GateSkips`, `GatePasses`, `RunEnds` |
| `transfer` | `Transfer`, `Launch`, `ReadBack`, `RunEnds` |
| `update` before "stop services" | `Refuse`, `Preflight`, `Merge`, `Candidate` |
| `update` from there on, in the order of `Phases` | `Mark`, `Stop`, `Install`, `Migrate`, `StartServices`, `Verify`, `Record`, `Unmark`, `Clear` |
| the handler in `execute` | `Raise` or `StepFails`, then `Handle`, `Halt` |
| the environment | `Push`, `StartRun`, `Kill`, `OrphanEnds`, `DaemonRestarts`, `Recover` |

A command that fails, is interrupted by SIGTERM or dies with its process may
have done part of its work (`PartOf`): some services stopped, some containers
replaced, the schema changed, or a migrate container left running that no
client waits for. The code of a commit is the number of its migrations, so
commits of equal code are those that differ in documents, and every change of
code is one the database notices. `DaemonRestarts` brings stopped services back,
because all have `restart: always`; a backend then checks the schema itself.
When that happens under an update that goes on, an old backend may serve while
the schema changes: `BackendMatchesSchema` excepts exactly that
(`broughtBack`). Likewise a restart of the daemon after a handled failure brings the
stopped reception back: `FailureStopsReception` holds until then (`interrupted`, which
is also set when the update is killed or its handler fails). main is linear; the host's ancestor check can then not fail.

## The runs

| Run | Instance | Question |
|---|---|---|
| `pool` | pool 2, 2 workers, 4 names, 2 failing calls, 1 crash, `shutdown_pool` not waiting for workers | do the books balance though two threads may remove one container, are leases fresh and exclusive, does readiness hide nothing, does a healthy pool serve every worker, is the number of running sandboxes bounded and each of them managed, does shutdown leave nothing and start nothing, does the manager implement `SandboxLease` |
| `pool_liveness` | pool 2, 2 workers, 3 names, 1 failing call, fair | do startup and shutdown end |
| `execution` | one execution for a text or an image problem, artifacts of up to 4 bytes in a budget of 8 characters, any call failing, then every content and policy | is the result true, does no record reject it, is the verdict deserved, does the execution end, each with a shutdown that kills the container at any moment |
| `admission` | 4 requests, 2 slots, burst 2, 2 refills, 1 failing thread start, fair | is each slot held by one holder, does every slot come back, does nothing queue behind a running command, is `CommandService` implemented |
| `admission_thread_start` | 4 requests, 2 slots, 1 failing thread start | shows the first finding below |
| `log` | 3 saves, 2 workers, window of 1 row, 1 failing call, 1 crash, 1 row reaching the age, fair | are unfinished saves bounded, is a reported id stored, does retention keep the window and little more, does every save and a shutdown end, is `SaveService` implemented |
| `log_overlap` | 3 saves, 2 workers, window of 2 rows | shows the second finding below |
| `submission` | 2 submissions, 1 client slot, 1 runner slot, a runner that starts up to twice more with any of 2 revisions, 1 failing thread start, fair | may a "busy" request be repeated, do verdicts and rows stand for executions that ended with the right problems or for the error of an endpoint that gave up, is every request answered and its save reported |
| `maintenance` | 3 runs with any targets, 8 kinds of database, 2 ids of rows, any step failing, a backend that starts, prunes and saves meanwhile | do schema and record agree, do rows keep their judgment, are reports of success true |
| `playground` | 2 problems and an invalid one, 2 commands, 2 navigations, 3 clicks, fair timers | is what is shown about the last click and the selected problem, does a late 404 lead nowhere, does a submission settle |
| `deployment` | 3 commits, 2 failing or killed steps, 1 restart of the daemon | does a half-made update block the next, does a backend serve on its own schema only, does a failure stop the reception, is only what was deployed recorded |
| `deployment_lost_record` | 3 commits, no failure on the host | shows the third finding below |

`ContainerManager` has two modes. In the runner `docker_client.close()` waits
for the workers before `shutdown_pool` (`WaitForWorkers = TRUE`). The class
promises more, and its tests call `shutdown_pool` while `release_container` is
under way, so `pool` checks the safety properties with `WaitForWorkers = FALSE`,
whose behaviours include the waiting ones, and `pool_liveness` those of the
runner's order. The proofs cover both.

### Bounds, and why they are enough

* Two workers and Main give every pair of methods that can overlap. Names exceed
  the pool size by two: the leftovers of a dead process, or one container being
  removed and one in doubt, next to a full pool.
* Two failing calls are what it takes for a failure inside the handling of a
  failure.
* Three requests are needed for two slots (one refused); the fourth lets a slot
  be reused after a timeout, a cancellation or a failing thread start.
* With a window of one row three saves suffice for a save that commits late, a
  successor it does not see and two deletes that want the same row.
* One artifact of 4 bytes is 8 characters: padding occurs, and the budget is used
  up exactly, by less, or would be exceeded.
* Three maintenance runs are a migration, its rollback and the next migration, or
  two that overlap and one after them. Two ids are an old row and a new one, of
  which a prune may leave either.
* Two submissions compete for one client slot and one runner slot: the second finds
  the client at its limit, or, after the first has timed out or was cancelled, the
  runner, while the first one's command still runs. Three submissions do not fit into
  five minutes; the proofs have any number.
* Three clicks are a submission, another one and the first again; two navigations
  are leaving a problem and coming back to it, or to the page.
* Three commits are one in production, a candidate and a successor that overtakes
  it or takes its code back; two failures are one and another in its handling.
* Two runner starts beside the initial one are a replacement with another revision and
  the return of the first.

Each bound is a constant and named in the guard it limits: `MaxFaults`
(`Fault`, `Raise`, `Kill`, `Handle`), `MaxRestarts` (`Restart`, `Crash`,
`DaemonRestarts`), `MaxRefills` (`Refill`),
`MaxStartFailures` (`SubmitRaises`, `ExecuteRaises`), `MaxExpired` (`Expire`),
`MaxRunnerStarts` (`RunnerStarts`), `MaxCommits` (`Push`), `MaxRows`
(`SaveLog` in `DatabaseMaintenance`), `MaxMoves` (`Navigate`), `MaxClicks` (`Submit`,
`RejectCommand`).

The types of `Deployment`, `JudgedExecution`, `DatabaseMaintenance` and `Playground`
are no invariant of a run; they are part of what is proved of every instance.

Every property is paired with a mutant in `PROJECT.json`: a small change of a
mapped definition of the kind a slip in the code would be (a dropped guard, a
flag not read again, a callback registered and released as well). TLC finds
the property violated with the mutant in place of the definition.

### Fairness

* `ContainerManager`: weak fairness of Main's steps and of each worker's steps
  other than a new lease. Threads are scheduled; a Docker call returns or
  raises on its client timeout; an execution ends (that is `ExecutionEnds` of
  `SandboxExecution`). A lock is waited for by a guard, and its holder has no
  wait but for the next lock. New requests, the decision to shut down, crashes
  and late creates are not fair.
* `SandboxExecution`: weak fairness of the worker (but for the end of the
  stream by output or exception, which the command decides) and of the timer
  thread. The command is never obliged to end; nor is the read of an image path
  that is a FIFO, until the timer kills the container.
* `ExecutionAdmission`: weak fairness of taking a queued command, of its end,
  of the idle count and of the coroutine that polls a finished future.
* `ExecutionLog`: weak fairness of "some save or waiting request that can go on
  does", and of the main thread that has joined the executor. Each database call
  ends by PostgreSQL's or the client's timeout. Finitely many saves need no
  fairness among themselves. `Shutdown`, crashes and faults are not fair.
* `SubmissionPath`: the same for coroutines, HTTP worker threads (whose call has a
  timeout) and saves (`SavesEnd` of `ExecutionLog`). The runner may hang, die and
  stay down; that its endpoint gives up (`GiveUp`) is not relied on either.
* `Playground`: rendering, effects, and the 20 s timer of a submission. Servers need
  not answer, users need not act.

Deadlock is checked in every run; each module has a step for the states in
which the system has rightly come to rest.

## The findings

1. `SECURITY.md:148` says the execution slot is released after the worker thread
has ended, and `SECURITY.md:145` that a request at the limit is not queued.
When `Thread.start` fails inside `executor.submit`, the command is already in
the executor's queue; `run_with_timeout` answers with an error and releases
the slot in its `finally`, and the next submitted request starts a thread that
runs the command too. `admission_thread_start` shows a queued command without
a slot. The repository knows the failure: `execution_log_repository.py:188`
closes its own executor for it. Both callers use the same kind of pool; only
one takes the precaution.

2. `SECURITY.md:324-327` says that logs are kept only within "the newest 10,000".
`prune_execution_logs` counts back from the newest id its transaction sees, and
ids are drawn before the commit. A save that is still open while later ones
prune is invisible to them, and its own window is older: `log_overlap` ends
with every save done and one row more than the limit, until the next save or
restart. `WindowKept` states the bound that does hold: one row too many for each
other worker. In the other direction the window counts ids, not rows: those that
saves drew and rolled back leave fewer rows than the limit.

3. `ci/deploy.py:199` and `docs/CI.md:32` say that deployment is skipped when only
documents differ from the deployed commit. What is compared is the newest commit
that a workflow run has recorded, and runs fail without the update failing.
`deployment_lost_record` ends with a candidate in production whose run was not
recorded; a commit that takes its code back and changes a document is skipped,
and production keeps the code that main no longer has. `RecordedIsDeployed` is
what does hold: the record is never ahead of production.

## The proofs

The proofs hold for every number of workers, names, slots, requests, commits, runs,
clicks, failures and restarts, from the named assumptions of the modules. These say
that capacities and limits are positive numbers, bounds are numbers, sets of requests
or names are finite, and a value that stands for "nobody" or "nothing" is none of the
values next to it (`WorkersAssumption`, `NobodyAssumption`, `NoneAssumption`,
`NoReasonAssumption`, `ContentsAssumption`, `LocationsAssumption`,
`RevisionAssumption`). Two say something about the program:
`ExecutorAssumption`, that no more workers than `PoolSize` use the manager (the
client's executor has `pool_size` threads at most; `HealthyPoolServesEveryWorker` is
false without it), and `ArtifactAssumption`, that the largest judged artifact fits into
the budget of the response.

| Theorem | States | Module |
|---|---|---|
| `TypeCorrect` | `TypeOK` | `ContainerManagerProofs` |
| `LockInvariant` | creations and book-keeping removals happen in the owner of their lock, and no creation is under way once shutdown has begun | |
| `SlotLedgerHolds` | `SlotLedger` | |
| `RunningIsManagedHolds` | `RunningIsManaged` | |
| `RunningBoundHolds` | `RunningBound` | |
| `LeasesAreFreshHolds` | `LeasesAreFresh` | |
| `QuietShutdownHolds` | `QuietShutdown` | |
| `HealthyPoolServesEveryWorkerHolds` | `HealthyPoolServesEveryWorker` | |
| `CleanStopHolds` | `CleanStop` | |
| `Implementation` | `ImplementsLease` | |
| `ExecutionInvariant` | `IInv`: the worker, the timer, the killers, the output and the result agree | `JudgedExecutionProofs` |
| `JudgedExecutes` | a judged execution is an execution: `JudgedSpec => Spec` | |
| `TypeCorrect`, `StopConfirmedHolds`, `StatusIsTrueHolds`, `RecordsAreAcceptedHolds` | `JudgedTypeOK`, `StopConfirmed`, `StatusIsTrue`, `RecordsAreAccepted` | |
| `VerdictIsCompleteHolds` | only a command that no watchdog claimed and whose output was not cut off is judged right or wrong: one that came to its own end, or one that a shutdown killed if the problem ignores the exit code | |
| `NormalizedTexts` | normalised texts are equal if and only if `SameText` says so, for texts of any length | |
| `VerdictIsDeservedHolds` | `VerdictIsDeserved` | |
| `AdmissionInvariant` | `IInv`: slots, futures, queue and threads are accounted for | `ExecutionAdmissionProofs` |
| `TypeCorrect`, `SlotsAccountedHolds`, `NoQueueingHolds` | `TypeOK`, `SlotsAccounted`, `NoQueueing` | |
| `UnslottedBounded` | without a failing `Thread.start` every command has its slot | |
| `Implementation` | `ImplementsCommandService` | |
| `LogInvariant` | `IInv`: slots, saves, ids, victims and windows agree with the table | `ExecutionLogProofs` |
| `TypeCorrect`, `UnfinishedBoundedHolds`, `SavedIsStoredHolds`, `WindowKeptHolds` | `TypeOK`, `UnfinishedBounded`, `SavedIsStored`, `WindowKept` | |
| `OwnIds` | no two saves share an id, and one that has drawn none has none | |
| `Implementation` | `ImplementsSaveService` | |
| `PathInvariant` | `IInv`: client slots, calls, jobs and saves agree | `SubmissionPathProofs` |
| `TypeCorrect`, `BusyNeverRanHolds`, `LogFollowsExecutionHolds` | `TypeOK`, `BusyNeverRan`, `LogFollowsExecution` | |
| `PathUsesServices` | the path's steps are those of `SaveService` and `CommandService` | |
| `DeploymentInvariant` | `IInv`: marker, checkout, images, schema, services and record agree with the step | `DeploymentProofs` |
| `TypeCorrect`, `ChangesAreMarkedHolds`, `BackendMatchesSchemaHolds`, `FailureStopsReceptionHolds`, `RecordedIsDeployedHolds` | `TypeOK`, `ChangesAreMarked`, `BackendMatchesSchema`, `FailureStopsReception`, `RecordedIsDeployed` | |
| `NeverBackHolds` | neither the checkout nor `current.json` goes back to an older commit | |
| `MaintenanceInvariant` | `IInv`: locks, transactions, revisions, columns and rows agree | `DatabaseMaintenanceProofs` |
| `SchemaMatchesRecordHolds`, `RowsKeepTheirJudgmentHolds`, `ReportsAreTrueHolds` | `SchemaMatchesRecord`, `RowsKeepTheirJudgment`, `ReportsAreTrue` | |
| `LatestSubmissionShownHolds`, `SelectionDecidesProblemHolds` | `LatestSubmissionShown`, `SelectionDecidesProblem` | `PlaygroundProofs` |

None of these properties is inductive alone. Each module, or each section of one, begins
with the conjuncts of the invariant that is; then come lemmas, one for each conjunct,
that go through the actions. The arguments:

### The container manager

1. `TypeInv` adds to the types that a thread in the middle of a creation or
   removal has a container in hand.
2. `LockInv` says which program counters imply which lock. It makes "creating"
   exclusive with "shutting down", and the transit between `_managed` and the
   semaphore exclusive to one thread.
3. `BookInv` and `Ledger`: `_managed` and `_pending_names` are disjoint, and
   free slots, entries and the one slot in transit add up to the pool size.
   The transit is a number here; `LedgerIsSlotLedger` identifies it with the
   number of threads in transit, as the property has it.
4. `OwnInv`, until shutdown begins: a container is in one thread's hands or in
   the pool; it is in the books from its start until it is dead; workers are
   idle while the lifespan thread boots.
5. `RunInv`: what runs is managed, or is listed for removal during
   reconciliation. `RunningBound` follows from 3 to 5: only a start makes a
   sandbox run, it starts a managed one while all that runs is managed, and
   there are at most `PoolSize` of these.
6. `PhaseInv`: Main's program counter and the flags tell the same phase, and the
   pool is empty from the begin of shutdown. `UseInv`: what is in the pool or on
   its way to it has not been used, a leased container is used by its worker
   alone, and a used one is in nobody's hands but for its removal.
   `LeasesAreFresh` follows. `QuietShutdown` needs that the books only shrink
   once creations have stopped (`BooksShrink`).
7. `HealthInv`, as long as nothing has gone wrong: what is managed is in the pool
   or in somebody's hands, and the pool together with the workers out of their rest
   counts at least `PoolSize`. A worker leaves its rest by taking a container and
   returns to it after adding one, or the flag `degraded` is set. An idle worker is
   not counted, so with at most `PoolSize` workers the pool has one for it.
8. `StopInv`, as long as no Docker call has failed: a name in doubt is one whose
   create is under way, whatever has run is in the books or was left by a dead
   process, a forgotten container is gone, and what is left of the books is on the
   list of `shutdown_pool`.
9. `RefInv`, the conjunction of 2 to 4 and 6, is what the refinement needs: each
   action maps to one step of `SandboxLease` or to a stutter. Taking a container
   from the pool and a start under `get_container` are a `Lease`; `AddToPool` is a
   `Provide`, for which there is room because `_slots` bounds the books
   (`RoomForNew`); a removal that takes effect is a `Destroy`; `BeginShutdown` is
   `Close`; `Restart` is `Crash`.

### Execution and judgment

`ThreadInv` ties the two threads together: a closed watchdog has told the worker its
reason. `KillInv` says who killed the container, is about to, or could not: a claimed
reason is always followed up. `OutputInv`: an exit code is that of a command which had
ended when it was read. With `ArtifactInv` (both artifacts fit, by `Encoding`) they
give the truth of the result when it is written (`Classified`, `Conversion`), and
`ResultInv` keeps it. What is written late must not make it false: a timer that
fires late finds the watchdog closed, a shutdown that kills later finds the command
over (`ResultIsFinal`), and one that kills before cuts the command without a reason
(`CutByShutdown`), the exception all the statements name. `JudgedInv` adds the judgment (`Judging`) and its record
(`Recording`). That the judge compares rightly is `ImageJudged` and `TextJudged`. The
latter rests on `NormalizedTexts`, for texts of any length: numbering the characters
that stay is a bijection (`RankIsPlace`), so `WithoutCR` keeps them in order
(`CRRemoved`), and what `rstrip` leaves ends at the last position that is not blank
(`NormalizedBody`), which both texts share if and only if they agree.

### Admission

`SlotsAccounted` needs that a callback is registered only for a command that goes on
without its request (`RequestInv`), so that exactly one of the two callers of
`release` returns the slot. `NoQueueing` needs the count of threads: running commands
and threads about to idle are at most the threads (`ThreadInv`), commands without a
slot are at most the failed starts (`UnslottedInv`), and while threads can still be
started the idle count does not promise one thread twice (`IdleInv`).
For the refinement `RequestInv` has that a request which is on its way or refused has no
command, and `ThreadInv` that a thread which takes one is free, so that fewer than
`Capacity` run: `TakeCommand` is a `Run`, `CommandEnds` an `End`, `Close` a `Kill` of
what is queued, and the steps of waiting coroutines and idle threads are stutters.

### The execution log

`SlotInv` and `SaveInv`: a slot is held by a request whose save is unfinished or just
done, and at most one save has no slot, in an executor that closed for it. `IdInv`:
ids are drawn once and stored only by the commit of their save. `VictimInv`: what a
transaction deletes was visible to it and is expired or outside of the window of
the newest id it saw, so retention loses nothing younger. The bound on rows is the hard
part: `WindowInv` counts the rows, and rows to come, outside of a window (`Late`).
When a transaction deletes, those that it leaves are of transactions that were open
then (`LateTxKept`), of which there is at most one for each other worker
(`OthersOpen`); a commit makes its own count the table's (`WindowSettled`).

The refinement needs `OwnIdInv`, proved on top of the invariant: an id belongs to one
save, whatever became of it, so a commit gives a row to its own save and to no other
(`OthersRows`), and a save that has not come to its commit has none (`NoRowYet`). A
commit that fails with effect, and its rollback, are one `Fail` of the service, at the
rollback.

### The submission path

`SlotsHeld` and `CallbacksPending`: a taken client slot belongs to a waiting request or
to the callback of a call left behind. `PathInv` follows one submission across the
processes: what its coroutine is in tells what the call is in, that tells what the
runner has done with the command, and that under which revision it ran. An "error"
tells less than a "result": the command was accepted, and if it ran or will, it is with
the backend's revision, since after `GiveUp` nobody rejects it any more.
`PathUsesServices` closes the chain: what `LogFollowsExecution` assumes of the store and
of the runner's executor is their `Implementation`, proved in their own modules. The
composition is at this level of steps: the two modules and the path run each on
its own set of requests, and no single behaviour holds all three.

### Deployment

`MarkInv` is the centre: without `FAILED` production is what last passed the public test,
and over each change and each migration that nobody waits for `FAILED` stands.
`StageInv` lists what the update has done when it comes to a step, `ServingInv` that no
backend serves while a migration may run but one the daemon brought back, and
`FailureInv` that a failure handled to its end keeps the reception down until the daemon
is restarted (`interrupted`). `RecordedIsDeployed` is
needed within the induction, because a later run starts from the record.

### Maintenance

`LockInv`: a transaction that migrates belongs to the owner of the advisory lock, and
one that has altered the table to the owner of its catalog rows, so the table one
transaction sees is the committed one or its own. `MigrationInv` says what is true
within a transaction: its revisions are those it counts, and an altered table has
the columns of that count, rows that are judged rightly, and the codes of the
committed rows unless the target is `base`. A commit then gives `SchemaInv`. The cases
of the data are lemmas about rows (`BackfilledCode`, `RowsMigrated`): upgrading and
downgrading again gives every verdict the code it had. What a save or a prune leaves
is a row of before, or the new one (`WrittenTable`), and neither writes while a
transaction holds the table. `ReportInv`: since the last
commit nobody has migrated, and what a provisioning accepted stays acceptable.

### The page

`SubmissionInv`: a version is given to one submission, and what goes on is the current
one, with the last click, its key active and "running" shown; so an abort of what goes on
and a new version always come together. `SelectionInv`: a fetch of the current version is
for the location the effects last ran for.

### Only model-checked

* Liveness: `LifespanSettles`, `ExecutionEnds`, `SlotsComeBack`, `SavesEnd`,
  `RequestsAreAnswered`, `SubmissionsSettle`. The prover has no rule for fairness
  here.
* What the violation runs refute, which is false.

## Plan

In this order, the most important behaviour first.

1. `ContainerManager`, `SandboxLease`, `SandboxExecution`, `ExecutionAdmission`,
   with their proofs: done.
2. `ExecutionLog`, `SubmissionPath`, `Deployment`, `Judge` with `JudgedExecution`,
   `DatabaseMaintenance`, `Playground`, with their proofs: done.
3. `SaveService`, which `ExecutionLog` implements and `SubmissionPath` uses, and
   `CommandService` between `SubmissionPath` and `ExecutionAdmission`, with the
   refinements proved: done.

## Not modelled

Problem data (loaded once, immutable), the problem tools, structured logging,
the supply-chain checks and the sandbox archive code are sequential handling of
files and bytes with no state that other parts depend on. The health
probe (`soj_tools/sandbox_health.py`) lists and inspects without a snapshot and
documents that it may raise a transient alert meanwhile, so it promises nothing
that a model could refute. Of the frontend the problem list, the language switch
and the display are left out; of the runner's HTTP service the authentication and
body limits, which are local to a request; of the runner client its `close`.
