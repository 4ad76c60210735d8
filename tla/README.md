# PipelineIQ in TLA+

PipelineIQ runs data pipelines written in YAML. A FastAPI backend keeps runs in
PostgreSQL and queues them on Celery (Redis is broker and result backend);
workers execute the steps on Arrow tables, publish progress on Redis for
Server-Sent Events, heal schema drift with an LLM, enforce data contracts and
record lineage. Beat tasks fire cron schedules, move Arrow buffers between
storage tiers and reconcile runs that lost their worker. Streaming pipelines are
long-lived daemons on Redpanda. The frontend is a Next.js application.

Nothing in the backend holds a lock across two commits, and a worker's status
assignments are unconditional `UPDATE`s of a row it read earlier. What keeps the
system correct is the order of small steps. This project models those steps,
model-checks their interleavings with TLC and proves the safety properties of
every component that is a state machine with TLAPS, for every number of runs,
workers, steps, schedules, browsers, messages, users and requests. What a step
computes, what a definition means and what a rule says are modelled as operators
on tables and compared with one another, by TLC on small tables; that the two
engines and the three rule engines agree is proved for tables of any size.

## Inventory

| Component | State | Operations | What is hard | What makes it correct |
|---|---|---|---|---|
| Run life cycle (`tasks/pipeline_tasks.py`, `api/pipelines.py`, `tasks/reconciliation.py`) | row of `pipeline_runs`, Celery message, task state in the result backend | submit, cancel, execute, heal, persist, fail, reconcile | four writers of one status, no lock, crashes, redelivery, forgotten results | executed once; no finished status without results; a settled run stays so; every run ends |
| Progress events (`pipeline_tasks.py`, `api/sse.py`, `usePipelineRun.ts`) | Redis channel, cached last event, SSE connections | publish, cache, subscribe, replay, close, reconnect | publish/subscribe/cache races, lost messages, what counts as an end | nobody is told of an end that is not committed; every stream ends |
| Runner (`pipeline/runner.py`, `execution/smart_executor.py`) | table registry, reader counts, results | execute steps in order, store, evict, fail | a table dropped before its last reader, self-joins, two engines | inputs present, registry exact, results in step order |
| Schedules (`tasks/schedule_tasks.py`, `api/schedules.py`) | `pipeline_schedules`, `schedule_runs`, a Redis lock | check, create, pause, resume, delete, block | lock expiry, crash between dispatch and commit, stale reads | one run per time; a due schedule fires |
| Streaming (`tasks/streaming_pipeline.py`, `routers/streaming.py`) | offsets, de-duplication set, run status, statistics row | poll, process, dead-letter, commit, pause, stop, restart | at-least-once delivery, unconditional status writes, error limit, back-pressure | nothing skipped or handed on twice, one consumer per run, stop respected |
| Redpanda client (`streaming/redpanda_client.py`) | circuit breaker, fallback queue in Redis | produce, fall back, drain | unused in production | - |
| Arrow bus (`execution/arrow_bus.py`, `execution/shm_store.py`) | tables in Redis, shared memory, object store; manifests | put, get, evict, clean up | evictor against clean-up, lost processes, several buses | a run reads its own tables, nothing left behind |
| Step executors (`pipeline/steps`, `execution/sql_builder.py`) | none | filter, join, aggregate, sort, ... twice: Pandas and DuckDB | the two must agree | equal results on equal input |
| Definition and validation (`pipeline/parser.py`, `services/pipeline_validation.py`, `pipeline/planner.py`) | none | parse, validate, simulate, plan | three descriptions of what a step does to columns | an accepted pipeline can be executed |
| Healing (`execution/healing_*.py`, `patch_applier.py`, `sandbox.py`) | healing attempts | classify, patch, try, apply | a trial that is not the run | only a patch that repairs the run is applied |
| Contracts (`contracts/`, `pipeline/contracts.py`, `pipeline/validators.py`) | contracts, breaches | validate, record, block | the same rules three times | the three agree |
| Lineage (`pipeline/lineage.py`) | a graph of columns | record, ancestry, impact, layout | every step must record what it reads | no source of a column is missing |
| Versions (`pipeline/versioning.py`, `api/versions.py`) | version rows | save, diff, restore | concurrent numbering | no gaps, truthful summaries |
| Accounts (`auth.py`, `api/auth.py`) | users, table lock, revoked tokens, hashing pool | register, log in, log out, change a role | a lock held across an await | one first administrator, every request ends |
| Sharing (`api/permissions.py`, `api/contracts.py`, `api/pipelines.py`) | permission rows, contracts, runs of a name | submit, grant, revoke, create, read | check and commit are apart | access has a source |
| Files (`api/files.py`, `tasks/profiling.py`, `services/storage_service.py`) | pending key, object, row, snapshots, profile | negotiate, upload, confirm, profile, delete | five stores, no transaction | they agree |
| Column policies (`security/column_security.py`) | rows, cache | create, delete, read | stale fills | readers see the rows in the end |
| Webhooks, notifications (`tasks/webhook_tasks.py`, `services/notification_service.py`) | delivery rows | fan out, deliver, retry, report | retries of retries, redelivery | told once per fault, truthful history |
| LLM service (`tasks/gemini_tasks.py`) | token counters and cached answers in Redis | reserve, correct, release | failure at each point | the budget holds |
| Catalog, caches, audit, templates, WASM modules, web shell, frontend, collaboration, deployment | - | - | I/O and views | - |

How they interact: the API and the schedule check create rows and send Celery
messages; the worker runs the Runner, whose progress callback publishes events;
persisting a result updates contracts, blocks schedules, writes the catalog and
history and queues webhooks; the reconciler and the cancel endpoint write the
same row and publish on the same channel.

`PROJECT.json` lists every component with its status, and the hazards, each at
its line, with the properties that would catch it.

## Modules

| Module | Models | State and code |
|---|---|---|
| `RunLifecycle` | the row of a run and its four writers | `status`, `taskId`, `results`, `applied` are columns or child rows; `queued`, `orphaned`, `taskState`, `revoked` are what Celery keeps; `pc`, `job`, `seen`, `summary` are a worker process, with `seen` the status in its ORM copy of the row; `cancel` and `sweep` are requests under way |
| `PipelineRun` | what the life cycle promises of a run | `status`, `starts`, `repaired`, `stored`, `vetoed` and `closed` (nobody works on the run any more): the abstract specification that `RunLifecycle` implements |
| `RunEvents` | publication, caching, SSE and the browser | `out[p]` is a payload that publisher `p` has published and not yet cached; `inbox` is a subscription; `stream` the connection; `revoked` is the order to kill the task, which the cancel endpoint gives before it commits, and `Terminate` its arrival; `unmarked`, `stale` and `missed` remember what the code leaves open: a failure announced but not committed, an end in the cache overwritten by a step, a browser in the gap |
| `Runner` | `PipelineRunner.execute` for an arbitrary validated pipeline | `registry`, `remaining`, `results` as in the code; a table is its number of rows, which is all that the choice of engine looks at |
| `Scheduler` | `check_schedules`, the endpoints, blocks and history | `row`, `nextRun` are columns; `slot` counts the times a schedule became due; `lock` is the Redis key; `pc`, `todo`, `seen`, `cur` a check under way; `runs` its runs with their history rows |
| `Streaming` | `run_streaming_pipeline`, the control endpoints and a consumer group | `status`, `statsRow` are rows, `queue`, `revoked`, `task` what Celery keeps, `committed`, `owner`, `pos`, `end` the group at the broker; `pc`, `batch`, `processed`, `errors` a daemon; `settled`, `unsent`, `skipped`, `published` record what became of a message: through the steps and handed on or dead-lettered; in a batch whose publication raised; passed over by the broker; handed on by this daemon |
| `ArrowBus`, `TableStore` | the tiers, the evictor and clean-up; what the bus promises | `store` holds the tables of all tiers, `loc` the locations each worker knows, `manifest` the ones it reads back from the run, one bus per process; `TableStore` is the abstract store it implements |
| `Tables`, `Contracts`, `Lineage`, `Steps` | every batch step on Pandas and in SQL; the three rule engines; the lineage recorder; a run of steps | a table is its columns, its numeric columns and its rows; the other columns hold texts, ordered by `TextOrder`; `execute_x` and `build_x_sql` give the set of results a step may have, the empty one when it raises; `origin` in `Steps` is where values really come from |
| `Definition`, `Healing` | parse, validate, simulate, plan, patch; a run, its attempts, the sandbox | a text is its layout and its steps as records; `Healing` runs `RunPipeline` on the tables of `Tables`; a file has its column policies, which a run applies and validation and sandbox do not, and `sampled`, the types of its first rows; applying a patch is two commits, with `saving` between them; an sql query is a sequence of tokens |
| `Accounts`, `Versions`, `Sharing` | users and the lock of their table; the history of a pipeline; who may use a name | requests with a `pc`, rows as sets |
| `Files`, `ColumnPolicies`, `Outbound`, `TokenBudget` | one file and its profile; policies and their cache; webhooks and notifications of one event; the token counters | rows, keys and tasks, one step per commit or call; in `Files` `url` is the presigned URL, which outlives the confirmation, and `replaced` that it was used after it; in `Outbound` `answers` is what became of each request and `unheard` counts the acceptances whose answer did not arrive; `append_only` tells the schema of the migrations from that of the models |
| `Workspace`, `Services` | the composition of the modules of the two rows above | `part`, see below |
| `RunLifecycleProofs`, `RunEventsProofs`, `ExecutionProofs`, `SchedulerProofs`, `StreamingProofs`, `ArrowBusProofs`, `WorkspaceProofs`, `ServicesProofs` | theorems | `ExecutionProofs` is about `Steps` with its operators, `Runner` and `Healing` |
| `MCRunLifecycle`, `MCRunEvents`, `MCRunner`, `MCScheduler`, `MCStreaming`, `MCArrowBus`, `MCSteps`, `MCHealing`, `MCWorkspace`, `MCServices` | instances for TLC | model values; `MCRunner`, `MCSteps` and `MCHealing` also enumerate pipelines, tables, contracts and patches |

`Workspace` (accounts, versions, sharing) and `Services` (files, profile,
policies, webhooks, notifications, budget) compose modules that share no state.
A behaviour of such modules together is a behaviour of each, and every property
is about one of them; a variable `part` therefore picks one at the start and the
others rest, so that the sizes add up instead of multiplying. The theorems are
stated of each part by itself, with all its actions, and then of the composition.

Grain: one action is one read or one commit of the database, one Redis call or
one broker call, together with everything the code does in between.

Abstractions worth knowing:

- *ORM sessions.* A session reads a row once and keeps that copy until its next
  commit; assigning a status the copy already has writes nothing. `Assigned` and
  `seen` in `RunLifecycle` keep this, because it decides who overwrites whom.
- *Celery.* Modelled from its settings: `task_acks_late` without
  `task_reject_on_worker_lost` (a killed pool process is acknowledged as
  FAILURE), redelivery after the visibility timeout for a lost node, PENDING for
  an unknown task, and `revoke(terminate=True)`, which may or may not reach the
  worker. `AtLeastOnce` also lets the broker redeliver a message that is being
  executed; it is FALSE in the run because the Redis transport's default visibility timeout (an hour) is
  far above the hard time limit (six minutes).
- *Early commit.* `_block_downstream_schedules` commits in the middle of
  `_persist_results`, with status, results and lineage already in the session.
  `CommitResults` stands for whichever commit comes first; the rest of
  `_persist_results` then writes nothing of the row, and may still raise.
- *Time.* The reconciler's timeout is the flag `old`; cron times are `slot`s and
  the four values of `nextRun`.
- *Contracts and healing* are nondeterministic outcomes of a run in
  `RunLifecycle`; what they decide is in `Contracts` and `Healing`.
- *Cells* are integers, texts or NULL; a text is an atom with a place in
  `TextOrder`, so that contains, starts and ends mean equality. Column names are
  strings, because the two engines compose them differently (`OutputName`,
  `SqlAlias`). `Str` writes a number as the contract validator does, `1.0` for a
  column of floats and `1` for one of integers. Means and standard deviations of the tables in
  use are integers or are left out.
- *Event loops.* A coroutine of the API that waits for the database blocks the
  loop of its worker (the session is synchronous), one that waits for the hashing
  pool does not; `Accounts` keeps which worker serves which request.
- *Redis events.* `revoke(terminate=True)` may kill the worker at any step after
  the cancel endpoint has called it, or never; that is no fault.
- *Kafka.* A group member continues at the committed offset, or at the end when
  there is none; partitions move between batches.
- *Step payloads* keep exactly what the endpoint and the hook look at: type and
  status.

## Runs

| Run | Bounds | Shows |
|---|---|---|
| `run_lifecycle` | 1 run, 2 workers, 2 crashes, results may expire | types; one worker per run; steps started once; a run vetoed while pending never starts; finished means results; settled for ever; the life cycle implements `PipelineRun`; every run converges |
| `run_events` | 1 browser, 2 steps, 1 fault | told only after the commit; the cached event settles; every stream ends; with cancels that kill the worker at any step and failures that cannot be committed |
| `runner` | every pipeline of up to 3 steps over 5 kinds, and of 4 steps over 3 kinds, tables below, at and above the DuckDB threshold | types; no table missing; registry exact; results are a prefix |
| `scheduler` | 1 schedule, 2 workers, 1 time, 1 fault | one run per time; each extra dispatch is paid for by a fault; a due schedule fires |
| `streaming` | 1 run, 2 daemons, 2 partitions, 3 messages of which one cannot be decoded (`MCMalformed`) and one is empty (`MCVoid`), batches of at most 2, 2 crashes or redeliveries | one consumer per run; a committed message went through the steps or to the dead letters, and its output is missing only if its own publication raised; no daemon hands on a message twice; a stopped run's daemon ends |
| `arrow_bus` | 2 runs, 2 workers, 1 evictor, 3 puts, 2 faults | clean-up leaves nothing but what no location led to; the bus implements `TableStore` |
| `steps` | tables of up to 2 rows (one of 3) over {0, 1, NULL}, with 0 as the first key of two rows, policies that mask a column with texts, about forty configurations with values, aliases and joins that only one engine accepts, 2 steps, 3 sets of policies, 2 contracts on columns of integers or floats | both engines compute the same; lineage names every source; the rule engines agree |
| `healing` | several hundred definitions of up to 4 steps, 9 files of 3 formats with and without policies and with misleading first rows, a dozen patches, 3 attempts, about 2500 queries of up to 5 tokens | an accepted definition runs as foreseen; an applied patch repairs the run; the attempts account for it, a crash between the two commits included; the guard of sql steps is exact on queries with one kind of delimiter |
| `workspace` | 3 users, 3 requests on 2 workers; 2 savers, 3 versions, 3 retries; 2 requests, 3 rows | one first administrator; every request ends; exact history; access has a source |
| `services` | 2 requests or 1 with 2 profile tasks; 2 readers, 2 writers, 3 changes; 1 webhook, 2 deliveries, 1 retry, 1 fault (`MaxWebhookFaults`), both schemas; 2 channels, 2 faults; 2 calls in 2 minutes, 2 faults | a file is consistent; policies settle; told under one identity more per fault; exact history; the budget holds |
| `cancel_loses` | no crash | a cancel between refresh and commit of `_persist_results` is overwritten (finding) |
| `backlog_stalls` | fair, lag over the threshold | a daemon in back-pressure never reads again (finding) |

Why the bounds are enough for the cases meant: runs share no state but the
reconciler's sweep, so one run and all its writers contain every race over a
status; two workers are what a redelivery needs, and two crashes allow one in
the execution and one in its repetition. Two steps give an event before, between
and after steps, and one fault (a failing Redis call, a broken connection, a
dead worker, an expired cache) may fall anywhere. Four steps contain diamonds,
self-joins and a table read by two later steps. Two workers are what the
schedule lock is for. Two daemons and two partitions are what a rebalance
needs, three messages make a batch that is partly old. Two runs with one key
show that a name shared between runs is not confused; three puts allow a key to
be put again while an eviction holds the earlier table. Tables of two rows with
three values contain equal and different keys, nulls and ties (which of two
different keys is 0 does not matter), and two steps every pair of steps. Three registrations on two workers contain both the waiting
for another worker and for the own one; three versions allow a conflict after a
conflict. The proofs lift the safety properties of these runs to any
size; the inductive invariants `OneRunInv` and `FiresInv` of the scheduler were
also checked with two times and a fault.

Deadlock checking is on for `RunLifecycle`, where the reconciler never stops.
The other systems may come to rest: a finished pipeline, a stream that has
ended, a deleted schedule, a bound that is used up.

### Fairness

- `RunLifecycle`: workers take messages and make progress (Celery's pool, and
  the hard time limit that ends a stuck task); the broker redelivers what a lost
  node held; time passes; Beat starts a sweep every ten minutes. Users, crashes
  and errors are owed nothing.
- `RunEvents`: the worker, the publishers and each browser's connection make
  progress; a cancel request that has revoked the task commits and publishes; the
  reconciler reaps a run whose worker is gone. Cancels, the arrival of a
  revocation, faults and broken connections are not fair.
- `Scheduler`: a check that has started makes progress, Redis expires the lock
  of a dead one, and Beat starts a check every minute on either worker. Acquiring
  the lock is strongly fair: the lock is free again and again, and Beat's period
  exceeds the duration of a check.

- `Streaming`: a daemon goes on (`LoopFairness`), and `StopEnds` needs no more
  than that; in `backlog_stalls` also, the broker completes a rebalance and a
  request that passed its check is answered. Messages, crashes and control calls
  are owed nothing.
- `Accounts`: the database grants a lock or ends the statement
  (`statement_timeout`, docker-compose.yml:26), and a loop that is not blocked
  resumes a coroutine whose hash is there.
- `ColumnPolicies`: requests end; Redis drops a key after its time to live. The
  expiry is strongly fair: a reader may fill the cache again and again, but each
  entry lives at most 60 s.

### What liveness does not promise

`Converges` excepts a run whose task the result backend has forgotten
(`Forgotten`): `result_expires` is an hour, and a task Celery has no result of
is reported PENDING, which `LIVE_TASK_STATES` counts as alive. If the sweeps
between timeout and expiry are missed, such a run hangs.
`StreamEnds` excepts (`missed`) the browser that subscribes between the
publication of the last event and its caching, and the one that reads a cache in
which a step's payload of the killed worker has replaced the end; and behaviours
with faults: after a fault the browser's reconnecting usually ends the stream,
but a lost last event on a healthy connection does not. A cancel and the death
of the worker it kills are no faults: the property holds for them.

### What the other properties leave out, and why

- `EnginesAgree` is about tables without nulls and leaves out what the query
  builder does not do as Pandas does (`SameMeaning`): a filter that compares texts
  with numbers (Pandas keeps no row or all, DuckDB raises) or gives a text to LIKE
  or IS NULL on a column of numbers (only Pandas coerces it and raises); an
  aggregate with an alias (only SQL looks at it), with a function named as its
  column, with a column named in two places, with first or last, or with the
  median of texts; an outer join (`sql_builder.py:362` writes `OUTER JOIN`, which
  DuckDB does not take for a full join) and suffixes; `keep = none` on whole rows;
  samples by fraction or stratum; a pivot that fills gaps; filling texts; an
  unpivot whose new column exists already; repeated or empty lists of columns.
- `ChecksAgree` is about tables without nulls whose promised columns are numeric,
  and contracts that name each column once. The contract at the end of a run
  compares the texts of values (`validator.py:301`): 1.0 is not among [1] for it,
  but is for the inline contract. The property is about allowed values written
  as the column's own type (`decimal`) writes them.
- `LineageCovers` is about columns all of whose steps ran on Pandas
  (`traced`): DuckDB steps record nothing.
- `AdmittedRuns` leaves out definitions whose columns depend on the data (pivot)
  or on the engine (suffixes of a join, a function named as its column):
  `Foreseeable`. Validation and plan look at the columns of the upload
  (`pipeline_validation.py:56`), the run at those its user may see: a run may fail
  for want of a column that is redacted for the user, and of no other.
- `HealedRuns` leaves out, as far as the sandbox cannot know better: files with
  policies that restrict the user of the run (the sandbox reads the file without
  them), CSV files whose first rows suggest other types than the whole
  (`sandbox.py:245`), pivots, and steps that the engines take differently
  (`SameInSql`). In each of these a patch that passed can fail in the run.
- `AttemptsAreRecorded`: the row of an applied patch is committed before the text
  of the run (`healing_agent.py:384`, `pipeline_tasks.py:612`). A worker that dies
  in between leaves an APPLIED row beside the old text, which the property allows
  as long as the run is not repeated, patched or healed.
- `SqlGuard` is about queries with one kind of delimiter (one kind of quote, line
  comments, or block comments), for which a reference can be stated without a
  second lexer; forbidden keywords and functions are represented by one each.
- `ToldOnlyAfterCommit` excepts a worker whose `_mark_failed` failed: the error is
  swallowed (`pipeline_tasks.py:387`) and pipeline_failed published all the same.
- `CacheSettles` excepts a killed worker that cached a step's payload over the
  event of the cancellation before it died.
- `CommittedIsHandled` counts a batch whose publication raised: the error is
  logged and the offset committed (`streaming_pipeline.py:229`).
- `NothingLeft` excepts a table that an eviction overtaken by the clean-up wrote
  to shared memory (`demoted`), which the sweep of stale files removes, and one
  that no process and no manifest leads to any more (`torn`): its process was
  lost before it was recorded, or an eviction had replaced the entry.
- `ToldOnce`: an endpoint can recognise a repetition by X-PipelineIQ-Delivery-ID
  (`webhook_tasks.py:163`), the id of the delivery task. The event is accepted
  under at most one identity more per fault (a fan-out that fails half-way queues
  anew). Under one identity it is accepted again only after an acceptance whose
  answer did not arrive in time, which the automatic retry (line 112) repeats
  without any fault, or after a fault. A channel of notifications has no such id
  and is told once more per fault. `FiresOnce` likewise allows one more dispatch
  per fault: the broker knows no key by which a repetition could be recognised.
- `HistoryIsTruthful` is about behaviours without faults, and says exactly which
  rows an attempt leaves: one, two for an error status, none for an exception of
  another kind than line 238 names (for example of the shared client whose event
  loop is closed).
- `BudgetHolds` leaves out answers longer than estimated (`excess`) and allows
  one estimate per fault; without a fault the counter is exact.
- `FileIsConsistent` is about requests that do not overlap and do not break off
  (`calm`): with overlapping ones it does not hold, see below. A later PUT at the
  presigned URL of S3 overlaps nothing and still replaces the data of a confirmed
  upload (`replaced`); the columns of the row and the snapshots then stay what
  they were, and only the data and its profile may differ from them.

### Refinement

`ReadsOwnTables` states that `ArrowBus` implements `TableStore`: under the
mapping that asks the worker executing a run what `get` returns, and collects
the tables put under a key, every step is one of `TableStore` or a stutter. A
run never reads the table of another run or one it has not put, whatever the
evictor and clean-ups of redelivered tasks do; it may find nothing, or, while an
eviction is under way, an earlier table of its own under the same key.

`ImplementsPipelineRun` states that `RunLifecycle` implements `PipelineRun`, what
the row of a run promises to whoever reads it: under the mapping that calls a run
closed when it is settled (no message, worker, request or sweep is left that
could write it), every step of the API, the workers, the broker and the
reconciler is one step of one run or a stutter. Results are stored once and in
one step with the verdict, a patched run never ends COMPLETED and only a patched
one HEALED, a veto holds, and nothing follows the closing.

## Proofs

Theorems are of the form `Spec => []Inv` or `Spec => [][A]_vars`, and two are
refinements. They rest on the named assumptions on the constants only: bounds and
limits are naturals (batch sizes and error limits not zero, estimates at most
`MaxEstimate`), the values that stand for "none" are no runs, requests, tables or
webhooks, sets of processes that share a function do not overlap, `Deliveries`
is finite, flags are Boolean, submitted pipelines are sequences of steps, loaded
tables have columns in a list and numbered rows with one cell per column, and a
step is of a known type with lists of columns where the parser makes lists
(`StepsAssumption`). No set of runs, users, workers or requests is assumed to be finite. `ExecutionProofs`
extends `Steps`, `Runner` and `Healing`, whose specifications therefore have names
of their own (`Spec`, `RunnerSpec`, `HealingSpec`).

| Theorem | Statement | Argument |
|---|---|---|
| `TypeCorrect` | types of `RunLifecycle` | inductive as it stands |
| `WorkersExclusive`, `StartsAtMostOnce`, `VetoIsFinal` | one worker, one start, no start after a veto | `RunInv`: the right to execute is one token - queued, orphaned or with one worker (`OneDelivery`); a PENDING run is unstarted (`PendingIsUnstarted`), and a worker between its check and its mark is the first (`ClaimIsFirst`); a vetoed run has left PENDING and is held by no worker in that gap (`VetoHolds`). `VetoIsFinal` holds with duplicate deliveries too |
| `ResultsBehindStatus` | finished implies results | inductive with the types: only `CommitResults` writes these statuses, with the results |
| `SettledIsFinal` | a settled run is never touched again | action property, one case per action |
| `RunLifecycleImplementsPipelineRun` | the life cycle implements `PipelineRun` | `PromiseInv`: `RunInv`, and what a worker past its checks knows of its run. A step either writes nothing of a run and settles at most the one it lets go of (`SilentStep`), or writes one run that is not settled (`WritingStep`); either is one step of `PipelineRun` |
| `EventsTypeCorrect` | types of `RunEvents` | inductive: a step under way is a step of the pipeline |
| `EndIsToldAfterCommit` | told only after the commit, or by a worker that could not commit | `NoNewsBeforeEnd`: while no final status is committed and no failure was announced uncommitted, no payload that could end a stream for good is published, cached, queued or sent |
| `CacheIsSettled` | when all is quiet and nothing failed the cache holds an end, or a killed worker's last payload | `SettleInv`: somebody still owes the cache an end, or it is there, or was overwritten (`Announced`). Whoever was killed had been revoked, and a revocation is followed by the event of the cancellation; a worker that stopped has its last event to cache or somebody else announced the end; the cancel endpoint and the reconciler only ever cache ends, so that a late write of theirs does no harm |
| `RunnerTypeCorrect`, `TablesArePresent`, `EvictionIsExact`, `ResultsInOrder` | the runner for every valid pipeline | `CountsExact`: a counter is the number of reads still to come, split at the current step by `UsesSplit`, a lemma on cardinalities; the registry is then exactly what is still needed |
| `TablesAreWellFormed` | every table of a run is one | `TablesInv`, inductive: each of the fifteen step types makes tables of tables, on either engine (`StepMakesTables`). Rows that are put in order (`Ranked`) are all there and only once: ranks in a strict order are different numbers in 1..n, hence all of them |
| `EnginesAlwaysAgree` | the engines agree on tables without nulls, of any size, but for what `SameMeaning` leaves out | one lemma per step type (`StepsAgree`): without nulls the two keep the same rows, pair the same rows, form the same groups in the same order and skip no cell; where they may choose differently (which of equal rows stays, the order of a whole sample) a permutation keeps the content (`PermutationKeepsContent`, `DistinctRows`). Folds and sorts (sum, median) are never opened: both engines apply them to the same values |
| `ChecksAlwaysAgree` | the rule engines agree on tables without nulls, of any size | both contracts find the same set of broken rules (`BrokenPromises`; `InlineRules`, `RulesAtEnd`), from which the rules of a column named once can be read off (`RuleOfColumn`) and compared with the validate rules (`ValidateRules`); texts of values compare like the values when both are written as floats or both as integers |
| `LineageAlwaysCovers` | the lineage graph covers what columns are computed from | `LineageInv`: the graph is finite and every edge leads to a higher rank (`IsOrdered`), and whatever is closed under going back and contains a traced column contains the loaded columns it is computed from and their steps, and the other way on (`Feeds`). A step keeps it because its recorder is told of every column its outputs are computed from (`StepRecords`, one lemma per step type). The searches end after as many levels as there are nodes, since each level either adds a node or is the last (`LevelsSaturate`), and so return closed sets; the layers exist by the rank and increase along every edge (`LayersIncrease`) |
| `HealingIsAccountedFor` | the rows of the attempts account for the run | `HealInv`: what the rows are in each phase, between the two commits of a patch and after a crash included; every way an attempt fails is `FailedAttempt` |
| `SchedulerTypeCorrect` | types of `Scheduler` | inductive: a check has a run in hand exactly between creating and committing it |
| `OneRunPerTimeHolds` | without faults, one run per time | `OneRunInv`: the lock is the check under way; no run is for a time later than the check has seen; what is still to be fired, or is due, has no run but the one in hand |
| `FiresOnceHolds` | dispatches of a time are at most one more than faults | `FiresInv`, an account per schedule and time: dispatches, plus checks that lost the lock and may still dispatch (`Strays`), plus one if the holder of the lock or a later check still may (`Chance`), are at most one plus the faults. Every step leaves the account, or turns a stray or the chance into a dispatch, or adds one and is a fault. `ChecksInv` keeps what a check has in hand |
| `StreamingTypeCorrect` | types of `Streaming` | `TypeInv`: with the bounds on task numbers and on the error counter |
| `ConsumersExclusive` | one consumer per run | `ConsumerInv`: a member of the group has inserted the row of its run, and a second insert fails |
| `CommitsAreSafe` | committed implies dealt with: worked through, dead-lettered, empty, or in a batch whose publication raised | `HandledInv`: all before a position is dealt with, a batch being committed lies before the positions, and what is left out as a duplicate was settled. A fetch takes an interval of offsets (`FetchedIsInterval`), so that no message between two of a batch is passed over |
| `NoDaemonRepeats` | no daemon hands a message on twice | action property, from `PublishedIsKnown` in `HandledInv`: what was handed on is remembered or was dropped |
| `ArrowBusTypeCorrect` | types of `ArrowBus` | inductive as it stands |
| `NothingIsLeft` | after a clean-up nothing is left | `BusInv`: a worker knows locations of its own run only, one worker executes a run or knows its tables (`OneHolder`), its knowledge agrees with the manifest unless an eviction replaced the entry (`ManifestAgrees`), and what is outside shared memory is known to one of them or in `torn` (`KnownOrTorn`) |
| `BusImplementsTableStore` | the bus implements `TableStore` | `ReadInv`: also, what is kept of a run under execution was put by it or is being put (`KeptIsWritten`), and numbers of tables are fresh (`PutsAreNew`). Initial states map to initial states, every step to a put, a `Shift` of what reads find, or a stutter |
| `FirstUserIsAdmin` | one first administrator | `FirstInv`: one request at most is past its LOCK TABLE, its user is not registered, and it makes an administrator just when nobody is registered |
| `HistoryHolds` | versions without gaps, truthful summaries | `VersionInv`: a number belongs to one row, numbers are 1..n, and what a saver has read is still in the history with the summary computed from it |
| `AccessIsSourced` | access has a source | `AccessInv`: whoever has a row, or a request past its check, is entitled already |
| `WorkspaceHolds` | the three together | a step of the composition is a step or a stutter of each |
| `BudgetIsKept` | the token budget holds | `BudgetInv`: one reservation is open at a time (the queue has one worker process), it is in the counter of its minute on top of what was granted, and a fault hides at most one estimate |
| `NotificationsHold` | `ToldOnce` and `HistoryIsTruthful` of notifications | `NotifyInv`: a channel still to be told has accepted at most once per fault; what is reported as sent was accepted |
| `WebhooksHold` | the same of webhooks | `WebInv`: the deliveries of a webhook and the one its fan-out may still owe it are at most one plus the faults (`QueuedInTime`); a delivery that may still be accepted was accepted only unheard or at a fault, its requests are those of its retries and faults, and without faults its rows are exactly those of its requests in every state of its task (`Recorded`, `Faithful`) |
| `FilesAgree` | a file is consistent | `FileInv`: as long as requests do not overlap or break off, each step of a request finds what the one before it left, a pending key outlives the row only until the request ends, the id of a deleted file is spent, and data that differs from the row was sent to the presigned URL after the confirmation |
| `ServicesHold`, `EndsAreToldOnce`, `HistoryIsTrue` | the services together | `ServicesInv`, the invariants of the parts |

Only model-checked:

- Liveness (`Converges`, `StreamEnds`, `DueFires`, `StopEnds`, `WritesEnd`,
  `PoliciesSettle`): the prover handles neither fairness nor `ENABLED`.
- `AdmittedRuns`, `HealedRuns` and `SqlGuard`: they are about what recursive
  definitions and folds over step lists and tokens compute, which takes
  induction over data.

## Observations without a run

Statements of the documentation that the modules define as properties and that
TLC refutes; add the name to the configuration of the module's run to see the
behaviour.

- `RunLifecycle!ReapsOnlyDeadRuns`: a run created by `check_schedules` has no
  task id until a worker loads it; after 30 minutes in the queue it is marked
  TIMEOUT, although `reconciliation.py:11` says that runs whose task looks alive
  are left alone.
- `RunEvents!StreamAlwaysEnds`: the last event is published and then cached; a
  browser that subscribes after the one and reads the cache before the other
  gets only heartbeats (`api/sse.py:151`). So does a browser that reads the cache
  after the worker of a cancelled run has written a step's payload over the end.
- `RunEvents!ClosedOnlyAtEnd`: a step's payload has the status COMPLETED, which
  `_is_terminal_event` takes for the end of the run (`api/sse.py:316`).
- `Runner!LineageComplete`: DuckDB steps record no lineage (`README.md:46`,
  `docs/execution-engine.md:35`).
- `Scheduler!PauseWins`, `BlockHolds`, `HistoryComplete`: a pause or a block
  committed between the query and the fire is ignored or overwritten
  (`docs/pipeline-scheduling.md:11`, `pipeline_tasks.py:1029`), and a run that
  ends before its id is committed is missing from the history
  (`docs/pipeline-scheduling.md:12`).
- `Streaming!FailedGoToDlq`: "Failed batches go to the DLQ"
  (`docs/redpanda-streaming.md:19`), but a batch whose publication raises is logged
  and committed.
- `Files!ConfirmedDataStays`: the confirmation clears the pending key and not the
  presigned URL (`api/files.py:180`, `291`), at which the data of a confirmed
  upload can be sent again for the rest of its 30 minutes.
- `Outbound!EveryAttemptAppendsARow`: "every attempt - success or failure -
  appends a `webhook_deliveries` row" (`docs/webhook-delivery.md:17`), but an
  error status appends two and an exception that is not caught none.
- `Accounts!LoopStaysResponsive`: `register` holds the lock of the users table
  while it awaits the hash; a second registration on the same worker blocks the
  event loop in the LOCK statement until the statement timeout, although the
  pool is there "so the event loop stays responsive" (`auth.py`).

Others, met while modelling:

- A step result keeps its output table until the run is persisted, so that
  dropping tables from the registry (`RegistryExact`) frees little memory,
  although `pipeline/runner.py:122` says it bounds it.
- With one fault (a crash between dispatch and commit, or a check that outlasts
  its 55 seconds) a schedule is dispatched twice for one time; `FiresOnce` bounds
  it by the number of faults. `docs/pipeline-scheduling.md:39` attributes single
  firing to the deployment with one Beat.
- `schedule_tasks.py:42` logs that it continues unlocked when Redis fails, but
  the check is skipped.
- HEALED is committed before the results of the second execution; a crash in
  between leaves a HEALED run without results, which is why `FinishedHasResults`
  names COMPLETED and CONTRACT_VIOLATION only.
- A cancel that finds the run RUNNING can be overwritten by later writes of the
  worker (`lineage_callback`, HEALING, FAILED) as well as by the late finish of
  `cancel_loses`.

- Streaming: a pause is looked at every tenth batch only; a restart is refused
  because the statistics row exists; a commit covers the partition of the last
  message only; dead letters are counted even when the flush fails; a new group
  starts at the end of the topic. The fallback queue of the Redpanda client has
  no producer.
- Arrow bus: an eviction that loses against a later put can put the older table
  in its place; the clean-up of a redelivered task removes the tables of the
  execution under way; the pattern of `_cleanup_orphaned_local_spill_files`
  matches no file.
- Engines: rows with NULL are kept by `not_equals` in Pandas and dropped in SQL,
  null keys group and join differently, `keep = none` without a subset raises
  only in SQL, an OUTER join raises only in SQL,
  texts and numbers compare only in Pandas, an alias names a column only in SQL,
  DISTINCT ignores `keep`, UNPIVOT drops nulls, strata are ignored
  in SQL, fractions above 1 raise only in Pandas, the sum of nothing is 0 or
  NULL. Two save steps with the same file stem overwrite each other.
- Lineage: after a rename that swaps two columns `get_column_ancestry` names the
  wrong source column besides the right one.
- Healing: the sandbox ignores `stratify_by`, does not know the results of save
  steps and cannot try WASM or publishing steps; YAML turns a bare `on:` key into
  `True`, so that a patch of it never applies; the healed text and its version
  are committed before the run is repeated, and after the row of the attempt; the
  sandbox samples CSV and JSON files only; column policies that cannot be read
  stop a run with an error that is not healable.
- Names: two users who submit a new name at once both become owner (there is no
  unique constraint on permissions); the owner row is committed before the
  definition is validated; the last owner can be revoked; the versions router
  does not know ownership by contract. There are two timing endpoints:
  `/pipelines/{id}/timing` asks for any permission, `/api/runs/{id}/timing` for
  the run's own user or an administrator.
- Versions: `_save_version_if_needed` compares and then saves, so that two equal
  versions may follow each other; after five conflicts a save gives up.
- Files: an upload that overlaps a confirmation can replace the data of a
  registered file; overlapping confirmations and a deletion can leave a row
  without data; the object is deleted before the row; a crash between row and
  snapshot makes every further confirmation fail; snapshots copy the row, so that
  `schema/diff` never shows a drift; a profile whose task was not queued stays
  pending, one whose process was killed stays running.
- Webhooks: where the schema comes from the migrations, `webhook_deliveries` takes
  no DELETE (`0bc02f8e7589`), so that a webhook with deliveries cannot be deleted;
  a redirect with 301, 302 or 303 becomes a GET without the payload,
  whose 2xx counts as delivered; the event says completed or failed even for a
  run that was cancelled or violated its contract.
- Token budget: an answer without text, or a Redis error after the correction,
  gives back an estimate that was used (`BudgetHolds` allows one per fault).

## Plan

Left:

1. The life cycle of spilled objects by age; creation of webhooks with its limit
   of ten, which is checked and then inserted.

## Not modelled

Statistics of profiles and cost estimation are floating-point; the catalog,
audit, dashboards and administration are single inserts and queries; templates,
the web shell, telemetry, migrations and deployment are configuration; the YAML
cache is keyed by the hash of the text; rate limits, WASM limits and
collaborative editing are kept by libraries (limits, wasmtime, Yjs); tokens and
hashes are cryptography; the views of the frontend change nothing in the
backend. The circuit breaker and fallback queue of the Redpanda client are not
used by any caller. The wording of messages, logging and metrics are left out
everywhere.
