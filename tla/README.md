# Verification of ai-etl

TLA+ models of the parts of ai-etl whose correctness depends on order and timing,
the TLC runs that check them and the TLAPS proofs of what matters most. Paths below are
relative to the repository; `S/` stands for `src/src/ai_etl/`.

Run from this directory: `tlc -workers 2 -config X.cfg M` for a run of PROJECT.json,
`tlapm X_proofs.tla` for the proofs.

## 1. The system

A FastAPI application and a Celery worker share PostgreSQL (rows, per-tenant row-level
security), Redis (broker, in-flight lock, rate-limit counters) and an object store or a
directory (artifacts of runs). Celery beat queues two periodic tasks. A *fire* of a saved
pipeline, or an *avulso* run of `POST /runs`, goes through `enqueue_analysis`, becomes one
Celery task, runs the Silver graph (orchestrator, extractor, transformer, quality gate,
loader) and then the analysis layer.

| Component (code) | State | Operations | What makes it correct |
|---|---|---|---|
| Execution queue (`S/services/execution_queue.py`, `S/audit/db/budget.py`) | Redis lock `budget-inflight:{tenant}` with TTL, counter `ratelimit:{tenant}:{window}`; `users.monthly_budget_usd`; sum of `analysis_runs.cost_usd`; Celery task and its retry count | `enqueue_analysis`, `run_full_analysis_task`, `set_monthly_budget` | one unpriced run of a capped tenant, no leaked lock, at most N admissions per window, no run over the cap |
| Scheduler, saved pipelines (`S/services/scheduler.py`, `S/audit/db/pipelines.py`, `S/api/routers/pipelines.py`) | `saved_pipelines` rows: `cron_schedule`, `next_run_at`, `is_active`, `last_task_id` | tick (list, claim, enqueue, release, record); create, PATCH, delete | every due instant fires once, or it is known why not |
| Approval (`S/agents/pipeline/loader.py`, `S/services/pipeline_service.py`, `S/api/routers/runs.py`) | approval columns of the pipeline, `runs.status`, the run's artifacts | gate, preview or write; approve, reject | no ungated first write, one decision per run, a pending run can be resolved |
| Health, alerts, drift (`S/audit/db/health.py`, `S/services/health_alerts.py`, `S/core/drift.py`, `S/services/digest.py`) | `consecutive_failures`, last status and error | record health, alert at the threshold, drift check, deliver over the channels | alert exactly once at the crossing, digest on a drift against the run before |
| Silver graph (`S/core/graph.py`, `S/agents/pipeline/`) | `PipelineState`, passed from node to node | five nodes, route after quality | an error stops everything after it; blocked data is never loaded |
| Analysis and repair loop (`S/services/pipeline_service.py`, `S/agents/analysis/`) | per-task results, issues, token counts | plan, analyse, review, repair once, advise | every call's tokens are counted; a repair never loses a good result |
| Sandbox (`S/core/sandbox*.py`) | child process, result queue, deadline | execute | a result, an error or a timeout, never a hang and never an orphan |
| LLM access (`S/core/llm.py`) | per-provider circuit: failures, `opened_at` | `invoke_llm` | opens after N failures, probes after the cooldown |
| Run persistence, storage (`S/audit/db/runs.py`, `S/audit/storage.py`) | artifacts per run id, `runs` and `analysis_runs` rows | `save_run`, `save_analysis`, `load_full_result`, history reads | artifacts before row |
| Retention, tenant deletion, export (`S/services/retention_service.py`, `tenant_*_service.py`) | `tenant_deletion_log`, `retention_cleanup_log`; otherwise others' state | sweep, erase, export | nothing inside its window is swept; nothing it could know of survives an erasure; the log tells the truth |
| Settings of a pipeline (`S/api/routers/pipelines.py`) | the `saved_pipelines` row, health and notification settings | PATCH, PUT, DELETE, GET | no edit loses another; the next fire belongs to the schedule |
| Sources, destinations (`S/sources/`) | `csv.field_size_limit()` of the process | load, write | a load accepts and refuses by its own file alone |
| Secrets, tenant isolation (`S/services/secrets_service.py`, `S/core/tenant_context.py`) | encrypted rows, ContextVars of a thread | set, rotate, delete; look up, enter, leave | a run connects with its own tenant's secrets |
| Output checks (`S/agents/pipeline/quality.py`, `S/core/output_validation.py`) | a report | the rules on a table, a Gold table, a forecast | a rule says what its operator means, and two checks do not contradict each other |
| Roles, administration (`S/services/auth_service.py`, `S/api/deps.py`, `S/api/routers/admin.py`) | `admin_action_log` | verify, authorize, read, retry, log | each action by an administrator is logged once |
| Pricing, texts, front end, deployment | none, or external | I/O and pure functions | |

Components call one another; they share state in three places only: the rows of
PostgreSQL, the keys of Redis and the artifacts; and the threads of one worker process share
its module state (circuits, ContextVars, the csv limit). So the models give each transaction, each
Redis command and each artifact write a step of its own and let everything interleave
between two of them. What is hard here: API processes and workers that interleave on one
tenant's keys, periodic ticks that overlap, requests that read, compute and write in
separate transactions, a human decision that comes days after the data was computed,
processes that die between two stores, and retries of work that was partly done. The
`hazards` of PROJECT.json list them at their lines.

## 2. Modules

| Module | Models | Checked by | Proved in |
|---|---|---|---|
| `ExecutionQueue` | the gate, the task, lock and counter of one tenant | `MCTenant`, `MCServices`, `MCExecutionQueue` | `ExecutionQueue_proofs` |
| `Scheduler` | ticks, PATCH and delete on one saved pipeline | `MCScheduler`, `MCServices` | `Scheduler_proofs` |
| `FireLedger` | abstract: what becomes of each due instant | refined by `Scheduler` | `Scheduler_proofs!LedgerCorrect` |
| `PipelineSettings` | the requests to one pipeline's settings, beside a tick | `MCTenant` | `Tenant_proofs` |
| `PipelineHealth` | overlapping fires: failure count, alert, drift digest, delivery | `MCTenant` | `Tenant_proofs` |
| `TenantData` | a run's artifacts and rows against erasure, sweep and export | `MCTenant`, run `sweep_inside_window` | `TenantData_proofs` |
| `Approval` | the runs of one saved pipeline and the requests that answer them | `MCRuns`, `MCApproval` | `Approval_proofs` |
| `CsvSource` | two loads of files in one process | `MCRuns`, `MCCsvSource` | `Runs_proofs` |
| `Connections` | secrets, and the connections of runs in shared threads | `MCRuns` | `Runs_proofs` |
| `OutputChecks` | the rules on one table, Gold table or forecast | `MCRuns` | `Runs_proofs` |
| `Access` | tokens, roles, the administrator's routes and their log | `MCRuns` | `Runs_proofs` |
| `RunPipeline` | one execution of `run_full_analysis`: graph, analysis layer, cost | `MCRunPipeline` | `RunPipeline_proofs` |
| `CostLedger` | abstract: what is spent is booked, once | refined by `RunPipeline` | `RunPipeline_proofs!LedgerCorrect` |
| `Sandbox` | one call with the process backend: parent, child, pipe, kill | `MCServices` | `Services_proofs` |
| `RemoteSandbox` | one call with the docker or the vercel backend | `MCServices` | `Services_proofs` |
| `BoundedCall`, `Sandboxes` | abstract: a call is answered once, and how; both sandboxes as such calls | refined by both | `Services_proofs!SandboxesCorrect` |
| `Circuit` | the circuit breaker of one worker process | `MCServices` | `Services_proofs` |

The MC modules `MCTenant`, `MCServices` and `MCRuns` check several components in one run: the
initial state chooses the *part* that runs, and only that part takes steps. The parts are
components whose code shares no state at the model's level, so that their product would only
multiply states (`TenantParts`, `RunsParts` and `ServicesParts` prove that such a behaviour is one of
every part, so that the theorems about the parts hold in it); where components do interact, the model of the one includes the steps of
the other (a claim in `PipelineSettings`, resolutions in `TenantData`, the sweep in `Approval`, a
tenant's own deletion in `Access`).

Definitions whose comment starts with "A mistake" are not part of any specification: they
are plausible bugs, substituted for the definition they follow in order to see a property fail.

### ExecutionQueue

`req[c]` walks through `enqueue_analysis`: `ReadCap` and `ReadSpend` (two transactions of
`get_budget_status`), `AcquireLock` (`SET NX EX`), `CheckRate` (`INCR`, then the
comparison), `Publish` (`.delay`), and on any exception `UndoLock`. `task[c]` walks through
`run_full_analysis_task`: `StartAttempt`, `PriceRun` (`save_analysis` makes the cost
durable), `EndRun`, `ReleaseLock` (the `finally` block's unconditional `DELETE`), then
`Retry` (Level A: an exception; Level B: a failed status of a scheduled fire; both use the
same retry count) or `Finish`. `LockExpires`, `NextWindow`, `NextMonth`, `SetMonthlyBudget`
are the environment.

Everything else is what goes wrong. Any call of Postgres, Redis or the broker may raise, and
one that changes something may do so after it took effect: `ReadFails`; `AcquireLockFails`
(outside of the `try`, so nobody deletes a key that was set); `CheckRateFails` (the call may
have been counted); `PublishFails` (the task may be queued, and run before the caller goes
on); `UndoLockFails`, `ReleaseLockFails` (without effect; `UndoLock` and `ReleaseLock` also
stand for a `DELETE` that raises after it took effect); `RetryFails`. `RestoreFileFails` is an
exception of `execution_queue.py:426-429`, before the task's `try`. `CallerCrash` and
`WorkerCrash` are deaths of the processes; Celery acknowledges a message just before it
runs the task, so a task that had begun is lost. The lock's value remembers its owner, which the
code does not store: no guard of the code's steps reads it.

### Scheduler and FireLedger

A cron expression is the set of the instants it denotes, `IsNext` is `compute_next_run_at`.
A `Tick` is a worker that runs one tick after another; several model overlap. `TickLists`,
`TickClaims` (the guarded `UPDATE`), the enqueue, `TickReleases`
(the guarded `UPDATE` back) and `TickRecords` are one transaction or call each;
`TickCrashes` ends a tick anywhere. An enqueue returns (`TickEnqueues`), raises
(`TickEnqueueFails`), or raises with its task on the queue (`TickEnqueueUnanswered`), which the
tick takes for a failure like any other. A PATCH reads the row and the clock (`PatchReads`) and
writes its columns in another transaction (`PatchWrites`).

`FireLedger` says what that is for: an instant is settled once, fired or dropped, for good,
until an edit reopens the book; a fire in doubt settles nothing. The mapping counts the enqueues
that returned as fires, those that raised with their task on the queue as doubts, and claims that
died or whose release matched no row as drops.

### Approval

A `Run` is one attempt (each attempt has a run id of its own): `Start` reads the policy,
`Load` writes or, if `Gated`, stops; `SaveArtifacts` and `SaveRow` are `save_run`;
`RunEnds` records the health. A `Request` is one approve or reject call: `Open` checks the
row, `Reload` rebuilds the state, `Approve`/`ApproveFails`/`Reject` act, and the answer is
saved and booked (`AnswerArtifacts`, `AnswerRow`, `AnswerHealth`, `AnswerMark`). A
destination may raise after the data is in it (the destinations count rows after writing),
so `RunFails` and `ApproveFails` may write. `SetPolicy`, `Delete` and `Sweep` are the PATCH,
the deletion (foreign keys are set to NULL, a later `save_run` with the old id is refused)
and the retention sweep, key by key.

The artifacts of one `save_run` are one step; a crash inside it leaves a run without a row,
which no request can open.

### PipelineSettings

A request reads, writes and reads again, each in a transaction (`PatchReads`, `PatchWrites`,
`PatchRereads`; `ConfigReads`, `ConfigWrites`); a GET reads the row, makes three lookups in parallel
(`LookUpPart`) and composes the answer. `TickReadsRow` and `TickClaimsRow` are the scheduler's
listing and claim of the same row. An UPDATE sets the
columns that it names (`SetColumns`). A row is a record of its columns; `name` stands for those that are
only copied. `next` remembers the schedule it was computed from, which the code does not store.

### PipelineHealth

Fires are numbered by the end of their runs; a row has the timestamp of its last save, and an approval saves it
again. After its row is saved, `Record` is the UPDATE of the
counter, then the counter is read again in another transaction, and `Send` tries the next channel.
A completed fire compares its KPI with the newest completed run that it finds (`ORDER BY timestamp DESC LIMIT 1`). Approvals,
pauses and deletion may happen at any time; any exception ends the fire's bookkeeping silently.

### TenantData

A worker writes the artifacts of a run before its row, twice (`save_run`, `save_analysis`);
`Resolve` saves the run again. Erasure: `BeginErasure`, `ReadRows`, `ListStore` or, if the listing raises,
`LookUp` key by key, `RemoveArtifact`, then the one transaction (`Commit` or `RollBack`) and `WriteLog` in
another. The sweep takes candidates by age and looks each up. The export reads candidates, artifacts and
rows one after the other. `StorageFails` is an exception of the store, also one whose removal took
place. An erased tenant's row comes back with the next authenticated request (`Visit`).

### Sandbox, RemoteSandbox, BoundedCall

`Sandbox`: the parent polls (`TestDeadline`, `Get`, `Receive`, `TestAlive`), terminates, kills and reaps;
the child boots, computes for as long as it likes, puts its result, and a feeder thread writes it to the pipe,
a large one only while the parent reads. `RemoteSandbox`: the docker CLI and its container, either of which
may end without the other (`CliDies`), or the microVM whose service kills the process. `BoundedCall` says what `execute_in_sandbox` promises whatever the backend.

### Circuit

`Check` (under the lock), `Invoke` and the recording of the outcome (under the lock again) are separate,
as in `invoke_llm`; other threads open and close the circuit between them. A provider breaks and
recovers at any time.

### Connections

A run has two *stretches*, its graph and the load that an operator approves; each takes a thread,
looks the tenant's connection strings up one after the other, enters the context, uses its connectors and leaves.
Secrets are set, rotated (with the key) and deleted meanwhile. A look-up that fails counts as no
secret, as in the code, and the environment's database is used.

### CsvSource

A load reads the process's limit, raises it, checks the sample and, for files below the threshold, the rest,
restores what it read, and parses; a thread may be in any of these while another is. A file is
the facts the connector acts on. Workbooks and JSON have no shared state and are one step; a JSON file is one of
six shapes, by what `pandas.read_json(orient="records")` makes of it.

### OutputChecks

Pure functions. The input is the initial choice, the report the result; what each rule reports is compared with what
its operator means (`TableIsRight`), a Gold table's sums with those of its source (`GoldIsRight`) and a forecast
with the range of what it was fitted to (`ScienceIsRight`). TLC does so over every table of up to six rows with
three values and nulls, the proof over every finite one.

### Access

A request is authenticated, has its reason checked (a 422 without one), is handled, enqueues (a retry), logs and
answers; it fails or dies between any two, and an enqueue or the log's commit may raise after it took effect
(`RetryRaises`, `LogUnanswered`). `ResolveRole` is `_resolve_role`; the guards of the routes are `MinRole`. The log is kept in
the order of its commits; `created_at` is taken before the insert, by a clock of which nothing is assumed, and a
reading gets the newest page by `created_at` that its filters and its limit leave (`IsPage`).

### RunPipeline and CostLedger

What `ExecutionQueue` and `Approval` take as one or two steps, in detail. `step` is the node
or call that comes next, `tries` the failed attempts of the retry loop it is in. The Silver
graph: `PlanCreated`/`PlanInvalid` (orchestrator), `DocumentStructured`/`DocumentUnusable`/
`SourceFails`/`Extracted` (extractor), `Transformed`/`TransformInvalid`,
`QualityPasses`/`QualityBlocks`, `LoadGated`/`Loaded`/`LoadFails`; `ShortCircuit` is the first
line of every later node, and `RouteAfterQuality` the one conditional edge. `SaveRun`, then
the branch on the data (`NoData`, `TooFewRows`, `BeginAnalysis`), `Planned`, one sub-task
after the other (`TaskAnswered`, `TaskInvalid` with its `Repair`, `Reviewed` and its
failures), the Advisor, `SaveAnalysis`, `SaveLatencies`. What no handler catches ends the
execution: `CallRaises`, `SandboxRaises`, `NodeRaises`, `SaveRaises`; `Dies` may happen at
any step.

A model call that answers is one token. The code passes tokens on in many places
(`llm_usage`, the result of each attempt, the discarded question's, the review's, the
Planner's, the Advisor's); each is a variable, and `answered` counts the calls themselves.
`CostLedger` is the promise: what was spent is booked once and nothing is spent afterwards.

Analyst and Science have the same control flow and are one action each here. Of the data the
number of rows counts; whether an answer is usable, and what the checks find, is a choice.

## 3. Runs, bounds, what they show

| Run | Bounds | Shows |
|---|---|---|
| `tenant`, part queue | one scheduled and one avulso call, cap 1 or none, limit 1, one retry | in-flight lock, its leaks, admissions per window |
| part health | three fires, threshold 2, two KPI values | alert at the crossing, digest on a drift |
| part settings | two requests, two names, two schedules, one pair, one channel, one saved run | no edit lost, the next fire belongs to the schedule |
| part data | one run, one erasure, one sweep, an export; any two of the three | erasure complete, sweep keeps what is fresh, export consistent |
| `services`, part scheduler | one tick at a time, one PATCH, two crons, instants up to 5, one unanswered enqueue of each | a due pipeline fires |
| part queue | a scheduled and an avulso call, cap 2, one retry | the lock comes free again and again; accepted calls end |
| parts sandbox, remote sandbox | one call | nothing runs on, results delivered, the call ends, refinement of `BoundedCall` |
| part circuit | two threads, two providers, threshold 2, cooldown 1 | open means failing, closed early only by a late call, recovery |
| `runs`, part approval | any three of two runs and two requests, one PATCH, one swept run | gate, order of `save_run`, one decision |
| part file | two loads, 40 kinds of files | what a load returns or refuses is what its file is like |
| part connections | a tenant's run and one without a tenant, two threads, one edit | own secrets or the environment's, the same database throughout |
| part checks | three cell values and null, six rows, 34 forecast values | rules mean what they say |
| part admin | two requests, two users, one organization, two target tenants, limit 1, two values of `created_at` | what the log can be relied on for |
| `scheduler` | two ticks, one PATCH, one crash, two crons, instants up to 4, one unanswered enqueue of each | at most once, no silent miss, refinement of `FireLedger` |
| `pipeline` | up to two document sources, up to three sub-tasks | what is loaded, what the row says, cost ledger, bound on the calls, termination |
| `queue_overshoot` | two avulso calls, cap 1 | *violated*: ADR-019's bound on the overshoot, though nobody loses the lock |
| `scheduler_edited` | one tick, one PATCH | *violated*: a stale PATCH makes a claimed instant due again |
| `approval_rejected` | one run, two requests | *violated*: a rejected run's data is in the destination |
| `approval_empty` | one run | *violated*: a gated run without rows can never be resolved |
| `pipeline_failed` | no document, one sub-task | *violated*: a failed run with data is analysed and pays for it |
| `sweep_inside_window` | one run, one erasure, one sweep | *violated*: the sweep takes artifacts of a run that was resolved inside its window |
| `csv_limit` | two loads | *violated*: the process-wide limit stays raised after two overlapping loads |

Why the bounds are enough. Every promise of the gate is about at most two calls (who holds
the lock, who comes after the limit is reached), and two calls with a retry each take every
path of the code; limit 1 makes the second call the one over the limit. In `services` runs cost nothing
(`Costs = {}`): the price plays no part in who holds the lock or whether a call ends. An overlap of ticks
needs two ticks and three instants: the claimed one, its successor, and one to tell a
release from a claim. `GateHolds` needs an approved run and a later unattended one with the
request between them, `OneDecision` a run with two requests; `MaxActors = 3` has both.
`AlertOnCrossing` needs the two failures that reach the threshold and a fire that races with the second;
`DigestOnDrift` a previous run, its successor and one in between. A lost edit needs two requests. The promises of
`TenantData` are about a run and a deleter that meets it, or two deleters: `MaxOperations = 2`.
A stale limit, a reused thread, an early close of a circuit each need two threads. Where a property is
also proved, the theorem holds for every number of them.

Bounds in guards: `MaxRetries` is the code's constant, `Horizon` stops the clock,
`MaxCrashes` limits dead ticks, `MaxUnanswered` the enqueues of one instant whose answer is lost (one is enough for a
second task, and for the release that follows it), `MaxActors` the runs and requests that start, `MaxPatches`
the edits of the policy (the first edit already weakens a strict policy, and `GateHolds`
says nothing after that; `OneDecision` and the others meet it at any moment), `MaxSwept` the
runs that lose artifacts (a sweep treats each run alone), `MaxOperations` the erasures, sweeps and exports,
`MaxEdits` the changes of secrets, `MaxFires` the runs a pipeline saves while its settings are read,
`MaxRows` the rows of a checked table, `LogTime` the values of `created_at` (two of them
order two entries against their commits). In `pipeline` the attempts are the
code's constants; two documents and three sub-tasks (of `MAX_TASKS = 5`) have a first, a middle
and a last one, and the theorems are for every number of both.

Deadlock is checked in `scheduler` and `scheduler_edited`. The other behaviours consist of finitely many calls, runs,
requests and loads that all end, hence `CHECK_DEADLOCK FALSE`; that they do end is `AcceptedEnds`, `CallEnds` and
`EndsAtLast`.

Properties are conditional where the code's promise is: a history variable records the event
that voids it, and the condition is part of the statement, not of the model, in which the
event happens freely.

### Disagreements between the code and its documents

Seven have a run of their own (`findings`). Others were met on the way and are documented by
the condition of a property that holds:

- `InFlightUnlessDisturbed`: "at most one of this tenant's executions may be in flight and
  unreconciled" (`execution_queue.py:299-301`) fails after an expired TTL, after a Level-B
  retry (queued at `:496` after the release at `:462`, it never takes the lock again),
  after a `DELETE` by a run that never held the lock (`:175-177` calls it "always safe"), and
  after a publish that raised although the broker has the message: the `except` clause
  (`:648-657`) takes the exception for a proof that "the run never actually started", deletes the
  lock of its own task, and the next capped call is let in beside it.
- `AtMostOnce`: the same lost answer makes the tick give its claim back (`scheduler.py:102-112`), and the next tick
  fires the instant again, without any edit; the module promises that an overlapping tick skips "without firing a
  duplicate run" (`:30-32`). `FireLedger` has these fires as doubts, which settle nothing.
- `NoLeakedLock`: the comment on the TTL, "Only matters if a worker crashes/is killed after acquiring the lock and before
  releasing it in run_full_analysis_task's `finally`" (`execution_queue.py:74-77`), leaves out three other ways to it: a task that raises while it
  restores its file (`:426-429`), a `SET` that raises after it took effect (`:631`, outside of the `try`), and a
  `DELETE` that raises.
- `NoBoxLeftBehind`: `docker kill` is asked for after a timeout only. A CLI that ends by itself, with a nonzero
  code, is an error (`sandbox_docker.py:213`), and its container runs on, although the comment at `:186-191` knows that
  "the thing actually doing work must be stopped, not just the local handle waiting on it".
- `NoSilentMiss`: a release that another tick has overtaken matches no row and the fire is
  lost; `pipelines.py:310-312` calls that guard "defensive, not load-bearing".
- The claim does not read `is_active` again: a pipeline paused between the listing and the
  claim fires (`scheduler.py:61`, "due, active").
- `GateHolds`: for a pipeline deleted while its task is queued no policy is found, and the
  run writes ungated.
- `KeepsCostLedger` leaves out the calls whose usage no code reads: those of a document source
  (`document_source.py:134`, which also bypass the circuit breaker of `invoke_llm`) and a
  review that cannot be parsed (`reviewer.py:120-122`). The cost row is the budget's only
  source, while `pipeline_service.py` says that it "covers both layers".
- `ReturnedIsPriced`: an execution without rows, or one that raised, has no cost row, whatever
  it has spent; the repetition by Celery spends again.
- `FiresBySchedule`: a claim compares `next_run_at` alone, and a resume writes the instant it has computed
  from the schedule it read; a PATCH of the schedule in between leaves an instant of the old one. The next
  claim heals it.
- `ConnectsToItsOwn`: a look-up that fails counts as "no secret", so that an approved load may go to the
  environment's database although the preview was of the tenant's own.
- `AlertOnCrossing`: the counter is read in a transaction of its own after the increment and compared with `==`; two
  overlapping failures may both alert, or neither.
- `SweepKeepsFresh`, `ErasureIsComplete`: a run that a worker is still writing when the candidates are read
  survives an erasure.
- `LoggedOnce`: "every route writes exactly one `log_admin_action()` entry before returning, success or not"
  (`admin.py:4-7`) holds for what a handler answers: 200, 402, 404 and 429. An exception of a read, of the enqueue or of the
  log itself is answered 500, mostly without an entry (with one if the log's commit raised after it took effect), and an
  administrator's request without a reason 422, always without. A retry is enqueued before it is logged (`admin.py:161`), so
  a run may have no entry because its enqueue raised with the task on the queue, because the insert raised, or because the
  process died; the docstring of `log_admin_action` names the last as "the only gap" (`admin_log.py:58`).
- `LoadJson`: "A top-level JSON object or a deeply nested structure raises" (`csv_source.py:166-167`), but pandas
  makes a table of an object of arrays or of objects, with its keys as columns ("keyed"), and of records with records in
  them ("as written").
- `NodeRaises`: checks that hash values raise out of `quality_node` on a column of lists,
  against the "route to END with a clear error" contract that its comment names
  (`quality.py:48-56`).

## 4. Fairness

`ExecutionQueue!Fairness`: callers and workers take their next step (weak fairness per call:
a request runs on unless its process dies, which is a separate, unfair action; workers keep
consuming the broker; every model call and sandbox has a timeout), and Redis expires keys.
Crashes, cap changes and the calendar are not fair. `Scheduler!Fairness`: time passes, beat
keeps queueing ticks (`core/celery_app.py`) and workers run them; strong fairness of
`TickEnqueues` says a tenant's calls do not fail for ever, because windows of the rate limit
and months of the budget end. `RunPipeline!FairSpec`: each
step of the execution is taken sooner or later (model calls, sandboxes, sources and the database
answer or raise within their timeouts); no exception and no crash is relied on.
`Sandbox!SBFairness`: the parent takes its next step, the clock of a call that has begun runs, and the feeder
thread of a living child writes; the generated code itself need never end. `CallEnds` excepts the child that dies in
the middle of a large result: the parent's `get` then blocks without a timeout.
`Circuit!CBFairSpec`: a thread that has checked invokes, a call ends (the SDK's timeout), the cooldown elapses,
and callers keep coming (strong fairness of `Check`: a provider nobody calls has no circuit to close);
`Recovers` assumes that the providers answer from some moment on, and nothing of when.
The other modules state no liveness: an operator need not come, a request may be its tenant's last.

## 5. Proofs

All theorems hold for every set of calls, ticks, runs, requests and threads, every cap, cost, limit, cron
and horizon; they rest on the named assumptions of the modules only.

- **ExecutionQueue_proofs**. `TypeCorrect`. `LockInvariant` ties the lock to the phase of its
  holder: unless something was disturbed, a call that counts as holding the lock, from its `SET` to the
  release by its task, is the owner, also while it is about to undo a publish whose task is in flight; and a key whose
  owner is past its release is explained by a death or by what was `stranded`. It is needed because `InFlightUnlessDisturbed` alone does not say why a third
  call cannot get the lock. From it `InFlightCorrect` and `NoLeakCorrect`. `GateInvariant`
  says what has been charged and admitted by each step of a call; from it
  `RateLimitCorrect`, and, of two properties that no run checks, `SlotCorrect` (a budget rejection
  moves no counter) and `OverBudgetCorrect`.
- **Scheduler_proofs**. `TypeCorrect`. `ClaimInvariant`: the claims in hand are intervals
  from the expected to the claimed instant, disjoint, with every settled instant outside
  all of them and before `next_run_at`; this is what makes a release safe to repeat. An unanswered enqueue is not
  settled: its instant stays inside its claim, and open after the release. From it
  `AtMostOnceCorrect`, `NoSilentMissCorrect` (with the lemma that a listing holds the
  current cron until an edit) and `LedgerCorrect`, the refinement.
- **RunPipeline_proofs**. `TypeCorrect`, from `FlagsInvariant` and `RangesInvariant` (which
  attempts can have failed at which step). `CostInvariant` says where each call's token is at
  every step: in `llm_usage`, in the question at work, the discarded one, a result, the
  Planner or the Advisor; without it the ledger's step at `SaveAnalysis` could not be
  justified. From it `LedgerCorrect`, the refinement of `CostLedger`. `GraphInvariant` says what
  the graph has established by each step; from it `LoadCorrect` and `RowCorrect`.
  `PricedInvariant` ties the cost row to the branch on the data: `PriceCorrect`.
  `CallsInvariant`: the calls made and those that may still be made never exceed `MostCalls`;
  from it `CallsCorrect`.
- **Approval_proofs**. `TypeCorrect`. How far a run or a request has come says what it can have left
  behind (`RunInv`, `RequestInv`). `GateInv` adds that every run under way has read a policy as strict as the
  pipeline's: from it `GateCorrect`. `ArtifactsInv` extends `PendingHasArtifacts` to the row not yet
  written: `ArtifactsCorrect`. `DecisionInv` says of a request that works alone on its run that it has found it
  waiting and unwritten, and `UntouchedInv` the same before any request has; without the second the first request's
  count of writes would be unknown: `DecisionCorrect`.
- **TenantData_proofs**. `TenantTypeCorrect`. `Complete` splits the store into what an erasure has still to
  look up, what it has found, what was written since and what had no row: `ErasureCorrect`. `RowsInv` (a worker that has not
  written a row has none; the run's row is never the younger) and `SweepInv` (nobody will write the row of a key
  in hand again, but a resolution) give `SweepCorrect`. `ExportInv` gives `ExportCorrect`, `StatusInv` and
  `CountInv` (a deleter that works alone deletes what is there, and every key once) `StatusCorrect` and
  `CountCorrect`, about two properties of the logs that no run checks.
- **Tenant_proofs**, settings. `PSInv` types what each request has read and is about to write by where it is, and adds
  three facts: the last edit of a column is of a request that has arrived and names it (`EditInv`); the schedule a tick has listed
  is the row's, or stale (`TickInv`); and so is that of an instant about to be written without one (`InstantInv`). The lemmas `NamedColumns`
  and `RowWritten` say which columns an UPDATE touches: those of the body, and `next`. From it `EditsKept` and
  `FiresCorrect`.
- **Tenant_proofs**, health. `PHInv`: the counter is the streak (`CounterInv`), timestamps are distinct and at most
  the latest (`StampsInv`), a fire that is about to read the counter and has not raced finds it at the threshold exactly if its own
  failure took it there (`ReadInv`), one that is about to look up the previous run finds the one that was newest when its row was saved
  (`LookInv`). `NewestCompleted` and `LookSame` are the lemmas about `ORDER BY timestamp DESC LIMIT 1`. From it
  `AlertsCorrect` and `DigestsCorrect`, for every threshold and any number of overlapping fires.
- **Runs_proofs**, connections. `ContextInv`: no two stretches inside have one thread, and the context of
  a thread is that of the stretch inside. `LookUpInv`: look-ups with no edit between them find the same, and
  what has been found since the last edit is the secret there is. With them `UsedInv`, and `ConnectsCorrect`.
- **Runs_proofs**, files. `CSInv`: loads that check at the same time both count as having shared the limit, and who is alone has the
  one it has set (`SharedInv`), what its check has let through has no flaw where it looked (`WalkedInv`): `LoadsCorrect`.
- **Runs_proofs**, administration. `ACInv` ties the answer of a request to the route it took (`RouteInv`), the log to
  administrators and to the tasks queued (`AdminInv`, `TaskInv`), and says that a request has no entry before its answer, and after it one, unless
  it was refused, or at most one if it was answered 500 or died (`OneEntryInv`); `PageAppend` says that a page of the log's first
  entries stays one when the log grows; `EntriesInv` keeps what was true of an entry when it was
  appended: `LogCorrect`.
- **Runs_proofs**, checks. `ChecksCorrect` is about sums of tables of any length. The folds are recursive functions on
  finite sets, and the library's induction theorems cannot be used here; the induction is made by hand, from the
  least counterexample that `WFMin` yields for the numbers (`LeastNumber`): `SumExists` (the recursive function is the one its
  equation describes), `SumCompare` (a sum of what is nowhere less is not less), and from them the lemmas on a column's sum and
  that of a selection of its rows.
- **Services_proofs**, sandboxes. `ChildInv`, `ResultInv` and `PollInv` say what the child can have produced and the
  parent have missed at each step: `NothingRunsOnCorrect`, `ResultIsDeliveredCorrect`; their counterpart for the boxes:
  `NoBoxLeftBehindCorrect`. `SandboxesCorrect` is the refinement of `BoundedCall` by both.
- **Services_proofs**, circuit. `CircuitTypeCorrect`; `OpenCorrect`, inductive as it stands; `LateInv` (who is on the way to a
  cooling provider has passed its check before the opening): `CoolingCorrect`.
- **The compositions**. `TenantParts`, `RunsParts`, `ServicesParts`: a behaviour of an MC module's composition is one of
  every part. From them and the theorems above `TenantCorrect`, `RunsCorrect` and `ServicesCorrect`, the conjunction
  of the safety properties that the run of each checks, and the type invariants `TenantTypeOK` and `RunsTypeOK`.

Every invariant, every action property and every refinement that a passing run checks is proved. Model-checked only:
liveness (`LockEventuallyFree`, `AcceptedEnds`, `DueFires`, `CallEnds`, `Recovers`, `EndsAtLast`), which is out of
the prover's reach, and the violations, which are counterexamples of one instance.

What the proofs found about the models: `CsvSource!HeaderFirst` took any header row of a sheet for a valid one;
`OutputChecks` has to assume that the cells are finitely many and that the null is none of them;
`PipelineHealth` had an order of rows where the code has timestamps.

## 6. Plan

1. Composition: the scheduler's enqueue as the queue's call, an abstract budget gate that
   `ExecutionQueue` implements, and `RunPipeline` as the body of its worker's attempt.
2. The token cache of REST sources (`rest_source.py:138`), the one listed hazard without a property.
3. Proofs: `ExecutionQueue` inside `MCServices`, and the composition of 1.

## 7. Not modelled

Queries, pagination and parsing of what sources answer, prompts, cost estimates and pricing arithmetic, the text of
notifications and digests, observability, the front end, migrations and deployment: pure I/O, pure functions
over data, or generated. Row-level security is PostgreSQL's; `Connections` has the part of the isolation that is
the code's. Of the output checks those are left out that only add a warning of their own (repeated rows, types,
outliers, metric ranges, the checks of SQL and plan text). Onboarding and locale are writes of a single row.
Celery and Redis are modelled by what the code relies on: single commands that are atomic and expire, and that may raise
before or after they took effect, as may a publish; early acknowledgement, so that a task is not delivered again once
it has begun. Left out are a second delivery of one message (a countdown longer than the broker's visibility timeout, a
publish that the client library repeats) and a second call of `enqueue_analysis` by the same request: each call is a `Call` of
its own.
