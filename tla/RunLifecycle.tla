---------------------------- MODULE RunLifecycle ----------------------------
(***************************************************************************)
(* The life of a pipeline run: the row of pipeline_runs, the Celery        *)
(* message that asks a worker to execute it, and the four parties that     *)
(* write the row without a common lock:                                    *)
(*                                                                         *)
(*   - the API (or the schedule checker), which creates the row, sends the *)
(*     message and may record the task id (api/pipelines.py,               *)
(*     tasks/schedule_tasks.py);                                           *)
(*   - the cancel endpoint (api/pipelines.py);                             *)
(*   - the worker task execute_pipeline_task (tasks/pipeline_tasks.py);    *)
(*   - the reconciler of stuck runs (tasks/reconciliation.py).             *)
(*                                                                         *)
(* One step of the model is one read or one commit of the database, or one *)
(* call to the broker.  An ORM session reads a row once and works on that  *)
(* copy until its next commit; seen[w] is the status of worker w's copy,   *)
(* "none" after a commit has expired it.                                   *)
(* Assigning the status writes the row unconditionally (UPDATE ... WHERE   *)
(* id = ...), and writes nothing when the copy already has that value.     *)
(*                                                                         *)
(* What a worker publishes on Redis is the subject of RunEvents; streaming *)
(* runs, which have statuses of their own, are not executed by this task.  *)
(***************************************************************************)
EXTENDS Naturals, FiniteSets

CONSTANTS
    Runs,           \* run ids
    Scheduled,      \* the runs the schedule checker creates: no task id recorded
    Workers,        \* worker pool processes
    NoRun,          \* the job of an idle worker
    AtLeastOnce,    \* may the broker redeliver a message that is being executed?
    ResultsExpire,  \* may the result backend forget a task (result_expires)?
    MaxCrashes      \* bound on worker crashes

ASSUME ConstantsAssumption ==
    /\ Scheduled \subseteq Runs
    /\ NoRun \notin Runs
    /\ AtLeastOnce \in BOOLEAN
    /\ ResultsExpire \in BOOLEAN
    /\ MaxCrashes \in Nat

VARIABLES
    submit,     \* progress of the request that creates the run
    status,     \* pipeline_runs.status
    taskId,     \* is pipeline_runs.celery_task_id set?
    old,        \* is started_at (or created_at) older than the timeout?
    results,    \* are the step results and the unique lineage row stored?
    applied,    \* has the run a HealingAttempt with applied = True?
    queued,     \* is a copy of the message in the queue?
    orphaned,   \* was a delivery lost with its node, not acknowledged?
    taskState,  \* state of the task in the result backend
    revoked,    \* was the task revoked?
    pc,         \* what each worker process does
    job,        \* the run each worker process works on
    seen,       \* the status in each worker's ORM copy of the row
    summary,    \* status of the worker's last RunSummary
    cancel,     \* progress of a cancel request
    sweep,      \* the reconciler: candidates left, and whether it has committed
    doomed,     \* the run whose task the reconciler found dead
    crashes,    \* number of crashes so far
    starts,     \* history: how often the steps of a run were started
    vetoed      \* history: cancelled while PENDING and held by no worker

rowVars    == <<status, taskId, old, results, applied>>
brokerVars == <<queued, orphaned, taskState, revoked>>
workerVars == <<pc, job, seen, summary>>
reconVars  == <<sweep, doomed>>
vars == <<submit, rowVars, brokerVars, workerVars, cancel, reconVars,
          crashes, starts, vetoed>>

-----------------------------------------------------------------------------
(* Statuses and states.                                                    *)

Unfinished == {"PENDING", "RUNNING", "HEALING"}
Terminal   == {"HEALED", "COMPLETED", "CONTRACT_VIOLATION", "FAILED",
               "CANCELLED", "TIMEOUT"}
PipelineStatus == Unfinished \union Terminal

RECONCILABLE_STATUSES == {"PENDING", "RUNNING", "HEALING"}

\* Mutant: a failed task counts as alive.
LiveTaskStatesFailure == {"PENDING", "STARTED", "RETRY", "FAILURE"}
LIVE_TASK_STATES == {"PENDING", "STARTED", "RETRY"}

\* Mutant: the endpoint no longer refuses finished runs.
CancellableAny == PipelineStatus
Cancellable == {"PENDING", "RUNNING"}

\* Celery's result states; it reports PENDING for a task it knows nothing of.
CeleryState == {"PENDING", "STARTED", "SUCCESS", "FAILURE", "REVOKED"}

\* The worker has found the run PENDING but has not marked it RUNNING ...
Claiming  == {"loaded", "claimed"}
\* ... or has started its steps and is not finished with the row.
Executing == {"running", "drifted", "healing", "rerun", "settling", "refreshed"}
WorkerPC  == {"idle", "delivered", "skipped", "committed", "failing",
              "failingDirty", "broken", "raised"} \union Claiming \union Executing

TypeOK ==
    /\ submit \in [Runs -> {"none", "created", "dispatched", "done"}]
    /\ status \in [Runs -> PipelineStatus \union {"none"}]
    /\ taskId \in [Runs -> BOOLEAN]
    /\ old \in [Runs -> BOOLEAN]
    /\ results \in [Runs -> BOOLEAN]
    /\ applied \in [Runs -> BOOLEAN]
    /\ queued \in [Runs -> BOOLEAN]
    /\ orphaned \in [Runs -> BOOLEAN]
    /\ taskState \in [Runs -> CeleryState]
    /\ revoked \in [Runs -> BOOLEAN]
    /\ pc \in [Workers -> WorkerPC]
    /\ job \in [Workers -> Runs \union {NoRun}]
    /\ \A w \in Workers : pc[w] # "idle" => job[w] \in Runs
    /\ seen \in [Workers -> PipelineStatus \union {"none"}]
    /\ summary \in [Workers -> {"none", "COMPLETED", "FAILED"}]
    /\ cancel \in [Runs -> {"none", "checked"}]
    /\ sweep \in [active : BOOLEAN, left : SUBSET Runs, reloads : BOOLEAN]
    /\ doomed \in Runs \union {NoRun}
    /\ crashes \in 0..MaxCrashes
    /\ starts \in [Runs -> Nat]
    /\ vetoed \in [Runs -> BOOLEAN]

Init ==
    /\ submit    = [r \in Runs |-> "none"]
    /\ status    = [r \in Runs |-> "none"]
    /\ taskId    = [r \in Runs |-> FALSE]
    /\ old       = [r \in Runs |-> FALSE]
    /\ results   = [r \in Runs |-> FALSE]
    /\ applied   = [r \in Runs |-> FALSE]
    /\ queued    = [r \in Runs |-> FALSE]
    /\ orphaned  = [r \in Runs |-> FALSE]
    /\ taskState = [r \in Runs |-> "PENDING"]
    /\ revoked   = [r \in Runs |-> FALSE]
    /\ pc        = [w \in Workers |-> "idle"]
    /\ job       = [w \in Workers |-> NoRun]
    /\ seen      = [w \in Workers |-> "none"]
    /\ summary   = [w \in Workers |-> "none"]
    /\ cancel    = [r \in Runs |-> "none"]
    /\ sweep     = [active |-> FALSE, left |-> {}, reloads |-> FALSE]
    /\ doomed    = NoRun
    /\ crashes   = 0
    /\ starts    = [r \in Runs |-> 0]
    /\ vetoed    = [r \in Runs |-> FALSE]

-----------------------------------------------------------------------------
(* Submission: commit the PENDING row, send the message, record its id.    *)
(* The request can die between any two of these.                           *)

Create(r) ==
    /\ submit[r] = "none"
    /\ submit' = [submit EXCEPT ![r] = "created"]
    /\ status' = [status EXCEPT ![r] = "PENDING"]
    /\ UNCHANGED <<taskId, old, results, applied, brokerVars, workerVars,
                   cancel, reconVars, crashes, starts, vetoed>>

\* Mutant: the message is sent again until the task id is recorded.
DispatchRetried(r) ==
    /\ submit[r] = "created"
    /\ queued' = [queued EXCEPT ![r] = TRUE]
    /\ UNCHANGED <<submit, rowVars, orphaned, taskState, revoked, workerVars, cancel,
                   reconVars, crashes, starts, vetoed>>

Dispatch(r) ==
    /\ submit[r] = "created"
    /\ submit' = [submit EXCEPT ![r] = IF r \in Scheduled THEN "done"
                                                          ELSE "dispatched"]
    /\ queued' = [queued EXCEPT ![r] = TRUE]
    /\ UNCHANGED <<rowVars, orphaned, taskState, revoked, workerVars, cancel,
                   reconVars, crashes, starts, vetoed>>

\* delay() raises, or the process dies before it: the row stays behind.
DispatchFails(r) ==
    /\ submit[r] = "created"
    /\ submit' = [submit EXCEPT ![r] = "done"]
    /\ UNCHANGED <<rowVars, brokerVars, workerVars, cancel, reconVars,
                   crashes, starts, vetoed>>

RecordTaskId(r) ==
    /\ submit[r] = "dispatched"
    /\ submit' = [submit EXCEPT ![r] = "done"]
    /\ taskId' = [taskId EXCEPT ![r] = TRUE]
    /\ UNCHANGED <<status, old, results, applied, brokerVars, workerVars,
                   cancel, reconVars, crashes, starts, vetoed>>

-----------------------------------------------------------------------------
(* The cancel endpoint: check the status, revoke the task, then overwrite  *)
(* the status.  Without a recorded task id it revokes the run id, which is *)
(* no task's; a failed revocation is logged and ignored.                   *)

CancelCheck(r) ==
    /\ cancel[r] = "none"
    /\ status[r] \in Cancellable
    /\ cancel' = [cancel EXCEPT ![r] = "checked"]
    /\ \E reached \in BOOLEAN :
          revoked' = [revoked EXCEPT ![r] = @ \/ (taskId[r] /\ reached)]
    /\ UNCHANGED <<submit, rowVars, queued, orphaned, taskState, workerVars,
                   reconVars, crashes, starts, vetoed>>

CancelCommit(r) ==
    /\ cancel[r] = "checked"
    /\ cancel' = [cancel EXCEPT ![r] = "none"]
    /\ status' = [status EXCEPT ![r] = "CANCELLED"]
    /\ vetoed' = [vetoed EXCEPT ![r] =
                    @ \/ /\ status[r] = "PENDING"
                         /\ \A w \in Workers : job[w] = r => pc[w] \notin Claiming]
    /\ UNCHANGED <<submit, taskId, old, results, applied, brokerVars,
                   workerVars, reconVars, crashes, starts>>

-----------------------------------------------------------------------------
(* The broker and the worker pool (Celery, Redis).                         *)

Holds(w, r) == job[w] = r

\* A worker takes a message; task_track_started records STARTED.
Deliver(w, r) ==
    /\ pc[w] = "idle"
    /\ queued[r]
    /\ queued' = [queued EXCEPT ![r] = FALSE]
    /\ taskState' = [taskState EXCEPT ![r] = "STARTED"]
    /\ pc' = [pc EXCEPT ![w] = "delivered"]
    /\ job' = [job EXCEPT ![w] = r]
    /\ UNCHANGED <<submit, rowVars, orphaned, revoked, seen, summary, cancel,
                   reconVars, crashes, starts, vetoed>>

\* The worker process lets go of its job.
Release(w) ==
    /\ pc' = [pc EXCEPT ![w] = "idle"]
    /\ job' = [job EXCEPT ![w] = NoRun]
    /\ seen' = [seen EXCEPT ![w] = "none"]
    /\ summary' = [summary EXCEPT ![w] = "none"]

\* The task returned or raised: its state is stored, the message acknowledged.
Finish(w) ==
    /\ pc[w] \in {"skipped", "committed", "raised"}
    /\ taskState' = [taskState EXCEPT ![job[w]] =
                        IF pc[w] = "raised" THEN "FAILURE" ELSE "SUCCESS"]
    /\ Release(w)
    /\ UNCHANGED <<submit, rowVars, queued, orphaned, revoked, cancel,
                   reconVars, crashes, starts, vetoed>>

\* The pool process is killed (out of memory, hard time limit): the parent
\* stores FAILURE and acknowledges, task_reject_on_worker_lost being off.
ProcessDies(w) ==
    /\ pc[w] # "idle"
    /\ crashes < MaxCrashes
    /\ crashes' = crashes + 1
    /\ taskState' = [taskState EXCEPT ![job[w]] = "FAILURE"]
    /\ Release(w)
    /\ UNCHANGED <<submit, rowVars, queued, orphaned, revoked, cancel,
                   reconVars, starts, vetoed>>

\* The whole node is lost: nothing is stored or acknowledged.
NodeLost(w) ==
    /\ pc[w] # "idle"
    /\ crashes < MaxCrashes
    /\ crashes' = crashes + 1
    /\ orphaned' = [orphaned EXCEPT ![job[w]] = TRUE]
    /\ Release(w)
    /\ UNCHANGED <<submit, rowVars, queued, taskState, revoked, cancel,
                   reconVars, starts, vetoed>>

\* After the visibility timeout an unacknowledged message is queued again.
Redeliver(r) ==
    /\ ~queued[r]
    /\ orphaned[r] \/ (AtLeastOnce /\ \E w \in Workers : Holds(w, r))
    /\ queued' = [queued EXCEPT ![r] = TRUE]
    /\ orphaned' = [orphaned EXCEPT ![r] = FALSE]
    /\ UNCHANGED <<submit, rowVars, taskState, revoked, workerVars, cancel,
                   reconVars, crashes, starts, vetoed>>

\* revoke(terminate=True) reaches the worker that executes the task ...
Terminate(w) ==
    /\ pc[w] # "idle"
    /\ revoked[job[w]]
    /\ taskState' = [taskState EXCEPT ![job[w]] = "REVOKED"]
    /\ Release(w)
    /\ UNCHANGED <<submit, rowVars, queued, orphaned, revoked, cancel,
                   reconVars, crashes, starts, vetoed>>

\* ... or a worker discards the message it would have executed.
Discard(r) ==
    /\ queued[r]
    /\ revoked[r]
    /\ queued' = [queued EXCEPT ![r] = FALSE]
    /\ taskState' = [taskState EXCEPT ![r] = "REVOKED"]
    /\ UNCHANGED <<submit, rowVars, orphaned, revoked, workerVars, cancel,
                   reconVars, crashes, starts, vetoed>>

\* result_expires: the backend forgets the task, and reports it as PENDING.
ExpireResult(r) ==
    /\ ResultsExpire
    /\ taskState[r] # "PENDING"
    /\ taskState' = [taskState EXCEPT ![r] = "PENDING"]
    /\ UNCHANGED <<submit, rowVars, queued, orphaned, revoked, workerVars,
                   cancel, reconVars, crashes, starts, vetoed>>

-----------------------------------------------------------------------------
(* execute_pipeline_task.                                                  *)

Goto(w, from, to) == pc[w] = from /\ pc' = [pc EXCEPT ![w] = to]

\* The status assignment of a session whose copy of the row has status old.
Assigned(r, copy, new) ==
    IF copy = new THEN status ELSE [status EXCEPT ![r] = new]

otherThanWorker == <<submit, brokerVars, cancel, reconVars, crashes>>

\* Mutant: the status is not checked.
LoadUnchecked(w) ==
    /\ Goto(w, "delivered", "loaded")
    /\ seen' = [seen EXCEPT ![w] = status[job[w]]]
    /\ UNCHANGED <<otherThanWorker, rowVars, job, summary, starts, vetoed>>

\* Load the row; only a PENDING run is executed.
Load(w) ==
    /\ pc[w] = "delivered"
    /\ pc' = [pc EXCEPT ![w] = IF status[job[w]] = "PENDING" THEN "loaded"
                                                             ELSE "skipped"]
    /\ seen' = [seen EXCEPT ![w] = status[job[w]]]
    /\ UNCHANGED <<otherThanWorker, rowVars, job, summary, starts, vetoed>>

CommitTaskId(w) ==
    /\ Goto(w, "loaded", "claimed")
    /\ taskId' = [taskId EXCEPT ![job[w]] = TRUE]
    /\ seen' = [seen EXCEPT ![w] = "none"]
    /\ UNCHANGED <<otherThanWorker, status, old, results, applied, job,
                   summary, starts, vetoed>>

\* The commit above expired the copy, so RUNNING is written whatever the
\* row holds by now.
MarkRunning(w) ==
    /\ Goto(w, "claimed", "running")
    /\ status' = [status EXCEPT ![job[w]] = "RUNNING"]
    /\ old' = [old EXCEPT ![job[w]] = FALSE]
    /\ seen' = [seen EXCEPT ![w] = "RUNNING"]
    /\ starts' = [starts EXCEPT ![job[w]] = @ + 1]
    /\ UNCHANGED <<otherThanWorker, taskId, results, applied, job, summary, vetoed>>

\* The lineage callback commits after each step, and a healing attempt
\* commits its record: the copy is read again.
Reload(w) ==
    /\ pc[w] \in {"running", "healing", "rerun"}
    /\ seen' = [seen EXCEPT ![w] = status[job[w]]]
    /\ UNCHANGED <<otherThanWorker, rowVars, pc, job, summary, starts, vetoed>>

\* The runner returns a summary; a failure that is not healable (or with
\* healing disabled) goes straight to _persist_results.
RunReturns(w) ==
    /\ \E result \in {"COMPLETED", "FAILED"} :
          summary' = [summary EXCEPT ![w] = result]
    /\ Goto(w, "running", "settling")
    /\ UNCHANGED <<otherThanWorker, rowVars, job, seen, starts, vetoed>>

RunDrifts(w) ==
    /\ Goto(w, "running", "drifted")
    /\ summary' = [summary EXCEPT ![w] = "FAILED"]
    /\ UNCHANGED <<otherThanWorker, rowVars, job, seen, starts, vetoed>>

MarkHealing(w) ==
    /\ Goto(w, "drifted", "healing")
    /\ status' = Assigned(job[w], seen[w], "HEALING")
    /\ seen' = [seen EXCEPT ![w] = "HEALING"]
    /\ UNCHANGED <<otherThanWorker, taskId, old, results, applied, job,
                   summary, starts, vetoed>>

\* attempt_heal gives up: the failed summary is kept.
HealFails(w) ==
    /\ Goto(w, "healing", "settling")
    /\ UNCHANGED <<otherThanWorker, rowVars, job, seen, summary, starts, vetoed>>

\* attempt_heal recorded an applied patch; the patched YAML is run again.
HealApplies(w) ==
    /\ Goto(w, "healing", "rerun")
    /\ applied' = [applied EXCEPT ![job[w]] = TRUE]
    /\ UNCHANGED <<otherThanWorker, status, taskId, old, results, job, seen,
                   summary, starts, vetoed>>

\* The last lineage commit of the second run expired the copy.
MarkHealed(w) ==
    /\ Goto(w, "rerun", "settling")
    /\ status' = [status EXCEPT ![job[w]] = "HEALED"]
    /\ summary' = [summary EXCEPT ![w] = "COMPLETED"]
    /\ UNCHANGED <<otherThanWorker, taskId, old, results, applied, job, seen,
                   starts, vetoed>>

RerunFails(w) ==
    /\ Goto(w, "rerun", "settling")
    /\ summary' = [summary EXCEPT ![w] = "FAILED"]
    /\ UNCHANGED <<otherThanWorker, rowVars, job, seen, starts, vetoed>>

\* _persist_results: refresh the copy, decide, commit.
RefreshRun(w) ==
    /\ Goto(w, "settling", "refreshed")
    /\ seen' = [seen EXCEPT ![w] = status[job[w]]]
    /\ UNCHANGED <<otherThanWorker, rowVars, job, summary, starts, vetoed>>

\* Mutant: the row gets the state of the Celery task.
FinalStatusesOfTask(w, r) ==
    {IF summary[w] = "COMPLETED" THEN "SUCCESS" ELSE "FAILURE"}

\* Mutant: only the copy of the status tells that the run was healed.
FinalStatusesOfCopy(w, r) ==
    CASE seen[w] = "CANCELLED"    -> {"CANCELLED"}
      [] seen[w] # "CANCELLED" /\ summary[w] = "COMPLETED" ->
            {"CONTRACT_VIOLATION",
             IF seen[w] = "HEALED" THEN "HEALED" ELSE "COMPLETED"}
      [] OTHER                    -> {"FAILED"}

\* The status _persist_results decides on, given its copy of the row; a
\* contract violation is found in the step results or by the post-run check.
FinalStatuses(w, r) ==
    CASE seen[w] = "CANCELLED"    -> {"CANCELLED"}
      [] seen[w] # "CANCELLED" /\ summary[w] = "COMPLETED" ->
            {"CONTRACT_VIOLATION",
             IF seen[w] = "HEALED" \/ applied[r] THEN "HEALED" ELSE "COMPLETED"}
      [] OTHER                    -> {"FAILED"}

\* Mutant: the status is committed ahead of the results.
CommitStatusFirst(w) ==
    /\ Goto(w, "refreshed", "committed")
    /\ \E final \in FinalStatuses(w, job[w]) :
          status' = Assigned(job[w], seen[w], final)
    /\ seen' = [seen EXCEPT ![w] = "none"]
    /\ summary' = [summary EXCEPT ![w] = "none"]
    /\ UNCHANGED <<otherThanWorker, taskId, old, results, applied, job, starts,
                   vetoed>>

CommitResults(w) ==
    /\ Goto(w, "refreshed", "committed")
    /\ ~results[job[w]]
    /\ results' = [results EXCEPT ![job[w]] = TRUE]
    /\ \E final \in FinalStatuses(w, job[w]) :
          status' = Assigned(job[w], seen[w], final)
    /\ seen' = [seen EXCEPT ![w] = "none"]
    /\ summary' = [summary EXCEPT ![w] = "none"]
    /\ UNCHANGED <<otherThanWorker, taskId, old, applied, job, starts, vetoed>>

\* The commit fails - the run has a lineage row already, or the database is
\* gone - and leaves the session unusable until it is rolled back.
CommitFails(w) ==
    /\ Goto(w, "refreshed", "broken")
    /\ summary' = [summary EXCEPT ![w] = "none"]
    /\ UNCHANGED <<otherThanWorker, rowVars, job, seen, starts, vetoed>>

-----------------------------------------------------------------------------
(* The exception path: any step may raise (a parse error, a database error,*)
(* the soft time limit).                                                   *)

Raise(w) ==
    /\ \/ /\ pc[w] \in {"delivered", "committed"} \union Claiming \union
                       (Executing \ {"refreshed"})
          /\ pc' = [pc EXCEPT ![w] = "failing"]
       \/ Goto(w, "refreshed", "failingDirty")
    /\ summary' = [summary EXCEPT ![w] = "none"]
    /\ UNCHANGED <<otherThanWorker, rowVars, job, seen, starts, vetoed>>

\* _mark_failed commits FAILED, and with it the results a session that
\* failed inside _persist_results had already added.
MarkFailed(w) ==
    /\ pc[w] \in {"failing", "failingDirty"}
    /\ pc' = [pc EXCEPT ![w] = "raised"]
    /\ status' = Assigned(job[w], seen[w], "FAILED")
    /\ \/ UNCHANGED results
       \/ /\ pc[w] = "failingDirty"
          /\ ~results[job[w]]
          /\ results' = [results EXCEPT ![job[w]] = TRUE]
    /\ seen' = [seen EXCEPT ![w] = "none"]
    /\ UNCHANGED <<otherThanWorker, taskId, old, applied, job, summary,
                   starts, vetoed>>

\* _mark_failed itself fails, always so on an unusable session.
MarkFailedFails(w) ==
    /\ pc[w] \in {"failing", "failingDirty", "broken"}
    /\ pc' = [pc EXCEPT ![w] = "raised"]
    /\ seen' = [seen EXCEPT ![w] = "none"]
    /\ UNCHANGED <<otherThanWorker, rowVars, job, summary, starts, vetoed>>

-----------------------------------------------------------------------------
(* The reconciler.                                                         *)

\* Time passes.  The hard time limit (360 s) ends a task long before the
\* reconciler's timeout (30 min), so no run is stale while its steps execute.
Age(r) ==
    /\ status[r] \in Unfinished
    /\ ~old[r]
    /\ \A w \in Workers : Holds(w, r) => pc[w] \notin Executing
    /\ old' = [old EXCEPT ![r] = TRUE]
    /\ UNCHANGED <<submit, status, taskId, results, applied, brokerVars,
                   workerVars, cancel, reconVars, crashes, starts, vetoed>>

otherThanSweep == <<submit, taskId, old, results, applied, brokerVars,
                    workerVars, cancel, crashes, starts, vetoed>>

\* One query loads every unfinished run; the young ones are passed over.
SweepQuery ==
    /\ ~sweep.active
    /\ sweep' = [active |-> TRUE, reloads |-> FALSE,
                 left |-> {r \in Runs : status[r] \in RECONCILABLE_STATUSES /\ old[r]}]
    /\ UNCHANGED <<otherThanSweep, status, doomed>>

\* A row loaded before an earlier commit of this sweep is read again, which
\* can show a run to be young; its status is not looked at again.  Without a
\* task id, or when the lookup fails, the task counts as dead.
SweepCheck(r) ==
    /\ doomed = NoRun
    /\ r \in sweep.left
    /\ sweep' = [sweep EXCEPT !.left = @ \ {r}]
    /\ \E known \in BOOLEAN :
          doomed' = IF \/ sweep.reloads /\ ~old[r]
                       \/ taskId[r] /\ known /\ taskState[r] \in LIVE_TASK_STATES
                    THEN NoRun ELSE r
    /\ UNCHANGED <<otherThanSweep, status>>

SweepTimeout ==
    /\ doomed # NoRun
    /\ status' = [status EXCEPT ![doomed] = "TIMEOUT"]
    /\ doomed' = NoRun
    /\ sweep' = [sweep EXCEPT !.reloads = TRUE]
    /\ UNCHANGED otherThanSweep

SweepEnd ==
    /\ sweep.active
    /\ sweep.left = {}
    /\ doomed = NoRun
    /\ sweep' = [active |-> FALSE, left |-> {}, reloads |-> FALSE]
    /\ UNCHANGED <<otherThanSweep, status, doomed>>

-----------------------------------------------------------------------------

Submit(r) == Create(r) \/ Dispatch(r) \/ DispatchFails(r) \/ RecordTaskId(r)
Cancel(r) == CancelCheck(r) \/ CancelCommit(r)
Broker(r) == Redeliver(r) \/ Discard(r) \/ ExpireResult(r) \/ Age(r)
Sweep     == SweepQuery \/ (\E r \in Runs : SweepCheck(r)) \/ SweepTimeout
             \/ SweepEnd

Heal(w)    == MarkHealing(w) \/ HealFails(w) \/ HealApplies(w)
              \/ MarkHealed(w) \/ RerunFails(w)
Execute(w) == Load(w) \/ CommitTaskId(w) \/ MarkRunning(w) \/ RunReturns(w)
              \/ RunDrifts(w) \/ Heal(w) \/ RefreshRun(w) \/ CommitResults(w)
              \/ CommitFails(w) \/ MarkFailed(w) \/ MarkFailedFails(w)
              \/ Finish(w)
Lost(w)    == ProcessDies(w) \/ NodeLost(w) \/ Terminate(w)

Next ==
    \/ \E r \in Runs : Submit(r) \/ Cancel(r) \/ Broker(r)
    \/ \E w \in Workers : \/ \E r \in Runs : Deliver(w, r)
                          \/ Execute(w) \/ Reload(w) \/ Raise(w) \/ Lost(w)
    \/ Sweep

\* Celery keeps its workers working and redelivers what a lost node held;
\* beat starts a sweep every ten minutes; time passes.  Users, crashes and
\* failures owe nobody a step.
Fairness ==
    /\ \A w \in Workers : /\ WF_vars(\E r \in Runs : Deliver(w, r))
                          /\ WF_vars(Execute(w))
    /\ \A r \in Runs : WF_vars(Redeliver(r) /\ orphaned[r]) /\ WF_vars(Age(r))
    /\ WF_vars(Sweep)

Spec == Init /\ [][Next]_vars
FairSpec == Spec /\ Fairness

-----------------------------------------------------------------------------
(* Properties.                                                             *)

\* Unless the broker redelivers what is still being executed, one worker at
\* a time works on a run: acknowledgement, loss and redelivery never leave
\* two processes with the same message (acks_late, execute_pipeline_task).
OneWorkerPerRun ==
    ~AtLeastOnce =>
        \A w1, w2 \in Workers : job[w1] = job[w2] /\ job[w1] # NoRun => w1 = w2

\* ... and the steps of a run are started at most once, whatever crashes and
\* redeliveries happen: "the task checks the current status and only
\* proceeds if PENDING".
StartedOnce ==
    ~AtLeastOnce => \A r \in Runs : starts[r] <= 1

\* A run that was cancelled while it was PENDING, with no worker between
\* reading that status and marking the run RUNNING, is never started: not by
\* the queued message, not by a redelivery, revoked or not.
VetoedNeverStarts == \A r \in Runs : vetoed[r] => starts[r] = 0

\* A run that ends COMPLETED or CONTRACT_VIOLATION has its step results and
\* lineage in the database, whoever else writes the row: the status and the
\* results are one commit of _persist_results.
FinishedHasResults ==
    \A r \in Runs : status[r] \in {"COMPLETED", "CONTRACT_VIOLATION"} => results[r]

\* The run has a terminal status and nobody holds it or its message.
Settled(r) ==
    /\ status[r] \in Terminal
    /\ submit[r] = "done"
    /\ ~queued[r] /\ ~orphaned[r]
    /\ \A w \in Workers : job[w] # r
    /\ cancel[r] = "none"
    /\ r \notin sweep.left /\ doomed # r

\* A settled run stays settled, with the same status: no endpoint, worker or
\* sweep picks it up again.
SettledForever ==
    [][\A r \in Runs : Settled(r) => Settled(r)' /\ status'[r] = status[r]]_vars

\* Nobody has the message of r any more, and the result backend does not know it.
Forgotten(r) ==
    /\ taskId[r] /\ taskState[r] = "PENDING"
    /\ ~queued[r] /\ ~orphaned[r] /\ \A w \in Workers : job[w] # r

\* Every run that is created gets a terminal status in the end, whatever worker
\* crashes leave behind: what tasks/reconciliation.py is for.  Only a task that the
\* result backend has forgotten, and reports as PENDING, escapes the reconciler.
Converges ==
    \A r \in Runs : status[r] # "none" ~> status[r] \in Terminal \/ Forgotten(r)

-----------------------------------------------------------------------------
(* Refinement.                                                             *)

\* The promise hides who does what: a run is closed when it is settled.
Closed == [r \in Runs |-> Settled(r)]
Promise == INSTANCE PipelineRun WITH
              Repeats <- AtLeastOnce, stored <- results, repaired <- applied,
              closed <- Closed

\* The API, the worker, the broker and the reconciler together implement
\* PipelineRun: whatever the order of their reads and commits, each of them
\* changes one run at a time, results are stored once and in one step with the
\* verdict, a patched run never ends COMPLETED and only a patched one HEALED,
\* and a run that nobody works on any more stays as it is.
ImplementsPipelineRun == Promise!Spec

-----------------------------------------------------------------------------
(* What documentation or comments say and this model refutes (see README).  *)

\* "A concurrent cancel wins over a late finish: ... keep the CANCELLED
\* status instead of overwriting it with COMPLETED/FAILED."
CancelWins ==
    [][\A r \in Runs : status[r] = "CANCELLED" => status'[r] # "COMPLETED"]_vars

\* The reconciler gives TIMEOUT only to runs whose task is gone: "a long
\* legitimate run must never be reaped".
ReapsOnlyDeadRuns ==
    [][\A r \in Runs : status'[r] = "TIMEOUT" /\ status[r] # "TIMEOUT" =>
            ~queued[r] /\ \A w \in Workers : job[w] # r]_vars

-----------------------------------------------------------------------------
(* The inductive invariant behind the safety properties (proved in         *)
(* RunLifecycleProofs).                                                    *)

\* Before its message is sent nobody has a delivery of the run, and before
\* its row exists nobody has heard of it.
NotYetSent(r) ==
    /\ submit[r] \in {"none", "created"} =>
          ~queued[r] /\ ~orphaned[r] /\ \A w \in Workers : job[w] # r
    /\ submit[r] = "none" =>
          /\ status[r] = "none" /\ starts[r] = 0 /\ ~vetoed[r]
          /\ cancel[r] = "none" /\ r \notin sweep.left /\ doomed # r

\* The right to execute a run is one token: in the queue, lost with a node,
\* or with one worker.
OneDelivery(r) ==
    ~AtLeastOnce =>
        /\ ~(queued[r] /\ orphaned[r])
        /\ queued[r] \/ orphaned[r] => \A w \in Workers : job[w] # r
        /\ \A w1, w2 \in Workers : job[w1] = r /\ job[w2] = r => w1 = w2

\* A run is PENDING only before its first start, and the worker that is
\* about to start it is the first.
PendingIsUnstarted(r) == status[r] \in {"none", "PENDING"} => starts[r] = 0
ClaimIsFirst(r) ==
    ~AtLeastOnce =>
        \A w \in Workers : job[w] = r /\ pc[w] \in Claiming => starts[r] = 0
StartsBounded(r) == ~AtLeastOnce => starts[r] <= 1

\* A vetoed run is out of every worker's reach.
VetoHolds(r) ==
    vetoed[r] => /\ starts[r] = 0
                 /\ status[r] \notin {"none", "PENDING"}
                 /\ \A w \in Workers : job[w] = r => pc[w] \notin Claiming

RunInv == \A r \in Runs :
    /\ NotYetSent(r)
    /\ OneDelivery(r)
    /\ PendingIsUnstarted(r)
    /\ ClaimIsFirst(r)
    /\ StartsBounded(r)
    /\ VetoHolds(r)

\* For the refinement: a request that got beyond its first commit has left a
\* row, and the steps of a run that a worker is past starting were started.
HasRow(r) == submit[r] # "none" => status[r] # "none"
ExecutesStarted(w) ==
    pc[w] \in Executing \union {"committed", "failingDirty", "broken"} =>
        starts[job[w]] > 0
IdleIsBlank(w) == pc[w] = "idle" => job[w] = NoRun /\ seen[w] = "none"

\* HEALED, in the row or in a worker's copy of it, goes back to a patch.
HealedIsPatched ==
    /\ \A r \in Runs : status[r] = "HEALED" => applied[r]
    /\ \A w \in Workers : /\ seen[w] = "HEALED" => applied[job[w]]
                          /\ pc[w] = "rerun" => applied[job[w]]

PromiseInv ==
    /\ \A r \in Runs : HasRow(r)
    /\ \A w \in Workers : ExecutesStarted(w) /\ IdleIsBlank(w)
    /\ HealedIsPatched
    /\ ~sweep.active => sweep.left = {}
=============================================================================
