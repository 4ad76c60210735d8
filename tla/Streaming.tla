----------------------------- MODULE Streaming -----------------------------
(***************************************************************************)
(* Streaming runs: the daemon task run_streaming_pipeline, the endpoints   *)
(* that pause, resume, stop, restart and cancel it, and the consumer group *)
(* of the broker it reads from.                                            *)
(*                                                                         *)
(* All runs name the same topic and the same consumer_group.  A message is *)
(* known by its partition and offset; whether the steps fail on a batch,   *)
(* and whether its publication does, is open.  The broker and Celery are   *)
(* external and appear by what the code relies on: a group member gets its *)
(* partitions from the committed offset, or from the end when there is     *)
(* none (consumers are made with auto.offset.reset = latest); a task       *)
(* message not acknowledged in time is delivered again.  Batches take less *)
(* than max.poll.interval, so partitions move only between batches.        *)
(***************************************************************************)
EXTENDS Integers, FiniteSets, FiniteSetsExt, Functions

CONSTANTS
    Runs,
    Daemons,        \* worker processes of the queue "streaming", numbered
    Partitions,
    Malformed,      \* the messages whose value cannot be decoded ...
    Void,           \* ... and those that hold no record: no value, or an empty one
    BatchSize,
    PauseInterval,  \* a pause is looked at when batches is a multiple (10)
    LagThreshold,   \* BACKPRESSURE_LAG_THRESHOLD
    CacheSize,      \* IDEMPOTENT_CACHE_TTL
    MaxErrors,      \* MAX_CONSECUTIVE_ERRORS
    MaxMsgs,        \* bound on the messages of the topic
    MaxEvents       \* bound on calls of the control endpoints, crashes, errors,
                    \* early redeliveries and spontaneous rebalances together

ASSUME StreamingAssumption ==
    /\ Daemons \subseteq Nat
    /\ BatchSize \in Nat \ {0} /\ PauseInterval \in Nat \ {0} /\ MaxErrors \in Nat \ {0}
    /\ LagThreshold \in Nat /\ CacheSize \in Nat
    /\ MaxMsgs \in Nat /\ MaxEvents \in Nat

VARIABLES
    status,     \* per run: pipeline_runs.status
    task,       \* per run: celery_task_id (its number), 0 for none
    statsRow,   \* per run: there is a streaming_stats row
    requests,   \* per run: calls that passed their check and have not written yet
    sent,       \* per run: tasks sent; they are known as <<run, 1>>, <<run, 2>>, ...
    queue,      \* tasks waiting in the queue
    revoked,    \* tasks the workers were told to refuse
    end,        \* per partition: the offset after its last message
    committed,  \* per partition: the offset committed by the group, -1 for none
    owner,      \* per partition: the member it is assigned to, or Nobody
    stale,      \* the group has changed and not been rebalanced
    pc,         \* per daemon: what it does next
    runOf,      \* per daemon: the task it executes, or NoTask
    pos,        \* per partition: the next offset its owner fetches
    batch,      \* per daemon: the de-duplicated batch
    processed,  \* per daemon: processed_offsets
    batches,    \* per daemon: stats["batches"]
    errors,     \* per daemon: consecutive_errors
    published,  \* history, per daemon: messages it has handed to a producer
    settled,    \* history: messages that went through the steps, and their rows to the
                \* producer if the run has a publish step, or that were dead-lettered
    unsent,     \* history: messages of batches whose publication raised
    skipped,    \* history: messages auto.offset.reset passed over
    trimmed,    \* history, per daemon: offsets it dropped from processed_offsets
    events

rowVars    == <<status, task, statsRow, requests>>
taskVars   == <<sent, queue, revoked>>
groupVars  == <<end, committed, owner, stale, pos, skipped>>
fateVars   == <<settled, unsent>>
daemonVars == <<pc, runOf, batch, processed, batches, errors, published, fateVars, trimmed>>
vars == <<rowVars, taskVars, groupVars, daemonVars, events>>

Nobody   == -1
NoTask   == <<Nobody, 0>>
Live     == {"STREAMING_ACTIVE", "STREAMING_PAUSED"}
Statuses == Live \union {"absent", "PENDING", "STREAMING_STOPPED", "FAILED", "CANCELLED"}
Offsets  == 0..(MaxMsgs - 1)
Messages == Partitions \X Offsets
Ops      == {"pause", "resume", "stop", "restart", "cancel"}
Looping  == {"top", "paused", "poll", "commit"}
Members  == {d \in Daemons : pc[d] \in Looping \union {"ending"}}
Tasks    == {<<r, n>> : r \in Runs, n \in 1..(MaxEvents + 1)}

\* What a daemon has worked through, or has no work with.
Handled  == settled \union unsent \union Void

\* The types of the state.
TypeOK ==
    /\ status \in [Runs -> Statuses]
    /\ task \in [Runs -> Nat]
    /\ statsRow \in [Runs -> BOOLEAN]
    /\ requests \in [Runs -> SUBSET Ops]
    /\ sent \in [Runs -> Nat]
    /\ queue \subseteq Tasks /\ revoked \subseteq Tasks
    /\ end \in [Partitions -> Nat]
    /\ committed \in [Partitions -> Int]
    /\ owner \in [Partitions -> Daemons \union {Nobody}]
    /\ pos \in [Partitions -> Nat]
    /\ pc \in [Daemons -> {"none", "start", "init", "ending"} \union Looping]
    /\ runOf \in [Daemons -> Tasks \union {NoTask}]
    /\ batch \in [Daemons -> SUBSET Messages]
    /\ processed \in [Daemons -> SUBSET Messages]
    /\ published \in [Daemons -> SUBSET Messages] /\ trimmed \in [Daemons -> SUBSET Messages]
    /\ batches \in [Daemons -> Nat]
    /\ errors \in [Daemons -> 0..MaxErrors]
    /\ events \in 0..MaxEvents

Init ==
    /\ status = [r \in Runs |-> "absent"]
    /\ task = [r \in Runs |-> 0]
    /\ statsRow = [r \in Runs |-> FALSE]
    /\ requests = [r \in Runs |-> {}]
    /\ sent = [r \in Runs |-> 0] /\ queue = {} /\ revoked = {}
    /\ end = [p \in Partitions |-> 0]
    /\ committed = [p \in Partitions |-> -1]
    /\ owner = [p \in Partitions |-> Nobody]
    /\ pos = [p \in Partitions |-> 0]
    /\ stale = FALSE /\ skipped = {}
    /\ settled = {} /\ unsent = {}
    /\ pc = [d \in Daemons |-> "none"]
    /\ runOf = [d \in Daemons |-> NoTask]
    /\ batch = [d \in Daemons |-> {}]
    /\ processed = [d \in Daemons |-> {}]
    /\ batches = [d \in Daemons |-> 0]
    /\ errors = [d \in Daemons |-> 0]
    /\ published = [d \in Daemons |-> {}]
    /\ trimmed = [d \in Daemons |-> {}]
    /\ events = 0

-----------------------------------------------------------------------------
(* The broker: external. *)

\* A client of the platform appends a message to the topic.
Produce(p) ==
    /\ SumFunction(end) < MaxMsgs
    /\ end' = [end EXCEPT ![p] = @ + 1]
    /\ UNCHANGED <<rowVars, taskVars, committed, owner, stale, pos, skipped, daemonVars, events>>

\* The members share the partitions out afresh.  Each partition is read from
\* the committed offset, or from its end when none was committed.
Rebalance ==
    /\ \A d \in Daemons : pc[d] # "commit"
    /\ \/ stale /\ UNCHANGED events
       \/ ~stale /\ Members # {} /\ events < MaxEvents /\ events' = events + 1
    /\ owner' \in [Partitions -> IF Members = {} THEN {Nobody} ELSE Members]
    /\ pos' = [p \in Partitions |-> IF committed[p] >= 0 THEN committed[p] ELSE end[p]]
    /\ skipped' = skipped \union
          {m \in Messages : committed[m[1]] < 0 /\ m[2] < end[m[1]] /\ m \notin Handled}
    /\ stale' = FALSE
    /\ UNCHANGED <<rowVars, taskVars, end, committed, daemonVars>>

-----------------------------------------------------------------------------
(* The endpoints. *)

\* _create_and_queue_pipeline_run with a stream_consume step: the row is
\* committed and the task sent; then status and task id are written.
Submit(r) ==
    /\ status[r] = "absent"
    /\ status' = [status EXCEPT ![r] = "PENDING"]
    /\ sent' = [sent EXCEPT ![r] = 1]
    /\ queue' = queue \union {<<r, 1>>}
    /\ UNCHANGED <<task, statsRow, requests, revoked, groupVars, daemonVars, events>>

SubmitRecord(r) ==
    /\ status[r] # "absent" /\ task[r] = 0
    /\ status' = [status EXCEPT ![r] = "STREAMING_ACTIVE"]
    /\ task' = [task EXCEPT ![r] = 1]
    /\ UNCHANGED <<statsRow, requests, taskVars, groupVars, daemonVars, events>>

\* Each control endpoint reads the status, refuses in all but these, and
\* writes the new one without looking again.
Checked(op) == CASE op = "pause"   -> {"STREAMING_ACTIVE"}
                 [] op = "resume"  -> {"STREAMING_PAUSED"}
                 [] op = "stop"    -> Live
                 [] op = "restart" -> {"STREAMING_STOPPED"}
                 [] op = "cancel"  -> Live \union {"PENDING"}
Written(op) == CASE op = "pause"  -> "STREAMING_PAUSED"
                 [] op = "stop"   -> "STREAMING_STOPPED"
                 [] op = "cancel" -> "CANCELLED"
                 [] OTHER         -> "STREAMING_ACTIVE"

\* The check.  Stop and cancel also revoke the recorded task: a worker will
\* refuse it, and a process that executes it is killed (Terminate).  Restart
\* sends a new task.
Request(r, op) ==
    /\ events < MaxEvents /\ events' = events + 1
    /\ op \notin requests[r] /\ status[r] \in Checked(op)
    /\ requests' = [requests EXCEPT ![r] = @ \union {op}]
    /\ revoked' = IF op \in {"stop", "cancel"} /\ task[r] # 0
                  THEN revoked \union {<<r, task[r]>>} ELSE revoked
    /\ sent' = IF op = "restart" THEN [sent EXCEPT ![r] = @ + 1] ELSE sent
    /\ queue' = IF op = "restart" THEN queue \union {<<r, sent'[r]>>} ELSE queue
    /\ UNCHANGED <<status, task, statsRow, groupVars, daemonVars>>

Write(r, op) ==
    /\ op \in requests[r]
    /\ requests' = [requests EXCEPT ![r] = @ \ {op}]
    /\ status' = [status EXCEPT ![r] = Written(op)]
    /\ task' = IF op = "restart" THEN [task EXCEPT ![r] = sent[r]] ELSE task
    /\ UNCHANGED <<statsRow, taskVars, groupVars, daemonVars, events>>

-----------------------------------------------------------------------------
(* The task and its process. *)

Leave(d) ==
    /\ runOf' = [runOf EXCEPT ![d] = NoTask]
    /\ batch' = [batch EXCEPT ![d] = {}]
    /\ processed' = [processed EXCEPT ![d] = {}]
    /\ batches' = [batches EXCEPT ![d] = 0]
    /\ errors' = [errors EXCEPT ![d] = 0]
    /\ published' = [published EXCEPT ![d] = {}]
    /\ trimmed' = [trimmed EXCEPT ![d] = {}]
    /\ pc' = [pc EXCEPT ![d] = "none"]
    /\ stale' = (stale \/ d \in Members)
    /\ UNCHANGED fateVars

\* A worker takes a task from the queue, or refuses it when revoked (idle
\* processes are interchangeable: the first takes it).  A run without a
\* stream_consume step cannot come here: the submission chose this task
\* because it has one.
Deliver(d, t) ==
    /\ pc[d] = "none" /\ t \in queue
    /\ \A e \in Daemons : e < d => pc[e] # "none"
    /\ queue' = queue \ {t}
    /\ IF t \in revoked THEN UNCHANGED <<pc, runOf>>
       ELSE pc' = [pc EXCEPT ![d] = "start"] /\ runOf' = [runOf EXCEPT ![d] = t]
    /\ UNCHANGED <<rowVars, sent, revoked, groupVars, events,
                   batch, processed, batches, errors, published, fateVars, trimmed>>

\* The process executing a revoked task is killed.
Terminate(d) ==
    /\ pc[d] # "none" /\ runOf[d] \in revoked
    /\ Leave(d)
    /\ UNCHANGED <<rowVars, taskVars, end, committed, owner, pos, skipped, events>>

\* The machine is lost, or the daemon runs on while the broker's visibility
\* timeout makes its unacknowledged message visible again.
Redeliver(d, dies) ==
    /\ pc[d] # "none" /\ events < MaxEvents /\ events' = events + 1
    /\ queue' = queue \union {runOf[d]}
    /\ IF dies THEN Leave(d) ELSE UNCHANGED <<daemonVars, stale>>
    /\ UNCHANGED <<rowVars, sent, revoked, end, committed, owner, pos, skipped>>

\* _set_status, without a look at the status it replaces.
SetStatus(d, s) == status' = [status EXCEPT ![runOf[d][1]] = s]

Start(d) ==
    /\ pc[d] = "start"
    /\ SetStatus(d, "STREAMING_ACTIVE")
    /\ pc' = [pc EXCEPT ![d] = "init"]
    /\ UNCHANGED <<task, statsRow, requests, taskVars, groupVars, events,
                   runOf, batch, processed, batches, errors, published, fateVars, trimmed>>

InsertAlways(r) == FALSE
InsertFails(r)  == statsRow[r]

\* _init_stats inserts the row whose primary key is the run; a second insert
\* raises, the session cannot be used for the write of FAILED either, and
\* the task ends with the status as it is.  Otherwise the consumer subscribes.
InitStats(d) ==
    /\ pc[d] = "init"
    /\ LET r == runOf[d][1]
       IN IF InsertFails(r)
          THEN Leave(d) /\ UNCHANGED statsRow
          ELSE /\ statsRow' = [statsRow EXCEPT ![r] = TRUE]
               /\ pc' = [pc EXCEPT ![d] = "top"]
               /\ stale' = TRUE
               /\ UNCHANGED <<runOf, batch, processed, batches, errors, published, fateVars, trimmed>>
    /\ UNCHANGED <<status, task, requests, taskVars, end, committed, owner, pos, skipped, events>>

-----------------------------------------------------------------------------
(* The loop. *)

Goto(d, l) == pc' = [pc EXCEPT ![d] = l]
AbortedByCancel(d) == status[runOf[d][1]] = "CANCELLED"
Aborted(d) == status[runOf[d][1]] \notin Live
Keep == UNCHANGED <<rowVars, taskVars, events>>

\* _handle_pause is called every PauseInterval batches only.
PauseSeen(d) ==
    /\ batches[d] > 0 /\ batches[d] % PauseInterval = 0
    /\ status[runOf[d][1]] = "STREAMING_PAUSED"

\* The top of the loop: _is_aborted and the call of _handle_pause.  When they
\* let the loop go on, their reads and the poll that follows are one step:
\* nothing the poll does depends on what may happen in between.
Top(d) ==
    /\ pc[d] = "top"
    /\ \/ Aborted(d) /\ Goto(d, "ending")
       \/ PauseSeen(d) /\ Goto(d, "paused")
    /\ Keep
    /\ UNCHANGED <<groupVars, runOf, batch, processed, batches, errors, published, fateVars, trimmed>>

GoesOn(d) == pc[d] = "poll" \/ (pc[d] = "top" /\ ~Aborted(d) /\ ~PauseSeen(d))

\* The wait of _handle_pause.
HandlePause(d) ==
    /\ pc[d] = "paused"
    /\ status[runOf[d][1]] # "STREAMING_PAUSED"
    /\ Goto(d, IF Aborted(d) THEN "ending" ELSE "poll")
    /\ Keep
    /\ UNCHANGED <<groupVars, runOf, batch, processed, batches, errors, published, fateVars, trimmed>>

\* _compute_consumer_lag: partitions without a committed offset do not count.
Lag(d) == SumFunction([p \in {q \in Partitions : owner[q] = d /\ committed[q] >= 0} |->
                        end[p] - committed[p]])

\* More than LagThreshold: sleep, and go round again.
Backpressure(d) ==
    /\ GoesOn(d) /\ Lag(d) > LagThreshold
    /\ Goto(d, "top")
    /\ Keep
    /\ UNCHANGED <<groupVars, runOf, batch, processed, batches, errors, published, fateVars, trimmed>>

\* What a call of consumer.consume may return.
Fetchable(d) ==
    {b \in SUBSET {m \in Messages : owner[m[1]] = d /\ pos[m[1]] <= m[2] /\ m[2] < end[m[1]]} :
        /\ Cardinality(b) <= BatchSize
        /\ \A m \in b : \A o \in pos[m[1]]..m[2] : <<m[1], o>> \in b}

\* When processed_offsets has grown too long, half of it is dropped: the
\* first half in the order in which a set is listed.
Trims(s) == IF Cardinality(s) > CacheSize THEN kSubset(Cardinality(s) \div 2, s) ELSE {{}}

DedupNothing(d, b) == b
Dedup(d, b) == b \ processed[d]

NoDeadLetters(b) == settled
SendDlq(b) == settled \union b

AfterError(n) == IF n >= MaxErrors THEN "ending" ELSE "commit"

\* _deserialize: the messages that cannot be decoded are dead-lettered.
Undecoded(d) == SendDlq(batch'[d] \intersect Malformed)

\* No record is left: what held none is committed as it is.
NothingParsed(d) ==
    /\ batch'[d] \subseteq Malformed \union Void
    /\ settled' = Undecoded(d)
    /\ Goto(d, "commit")
    /\ UNCHANGED <<batches, errors, unsent, events>>

\* A step raises: the whole batch goes to the dead letters.  At the error
\* limit the loop ends without a commit.
StepsFail(d) ==
    /\ ~(batch'[d] \subseteq Malformed \union Void)
    /\ settled' = SendDlq(batch'[d])
    /\ errors' = [errors EXCEPT ![d] = @ + 1]
    /\ Goto(d, AfterError(errors'[d]))
    /\ UNCHANGED <<batches, unsent, events>>

\* The steps went through; the rows they left, if any, are published if the run
\* has a publish step.  When _publish raises, the error is logged and the batch
\* counts as done all the same.
Publish(d) ==
    /\ ~(batch'[d] \subseteq Malformed \union Void)
    /\ \/ settled' = Undecoded(d) \union (batch'[d] \ Malformed) /\ UNCHANGED <<unsent, events>>
       \/ /\ events < MaxEvents /\ events' = events + 1
          /\ settled' = Undecoded(d)
          /\ unsent' = unsent \union (batch'[d] \ Malformed)
    /\ errors' = [errors EXCEPT ![d] = 0]
    /\ batches' = [batches EXCEPT ![d] = @ + 1]
    /\ Goto(d, "commit")

\* One pass of the loop body, up to the commit of the offset.
Consume(d) ==
    /\ GoesOn(d) /\ Lag(d) <= LagThreshold
    /\ \E b \in Fetchable(d) :
         /\ pos' = [p \in Partitions |-> pos[p] + Cardinality({m \in b : m[1] = p})]
         /\ batch' = [batch EXCEPT ![d] = Dedup(d, b)]
         /\ \E old \in Trims(processed[d] \union b) :
              /\ processed' = [processed EXCEPT ![d] = (@ \union b) \ old]
              /\ trimmed' = [trimmed EXCEPT ![d] = @ \union old]
    /\ published' = [published EXCEPT ![d] = @ \union batch'[d]]
    /\ IF batch'[d] = {}
       THEN Goto(d, "top") /\ UNCHANGED <<batches, errors, fateVars, events>>
       ELSE NothingParsed(d) \/ StepsFail(d) \/ Publish(d)
    /\ UNCHANGED <<rowVars, taskVars, end, committed, owner, stale, skipped, runOf>>

\* commit(message=deduped[-1]): only the partition of the last message of the
\* batch, whichever that is.
Commit(d) ==
    /\ pc[d] = "commit"
    /\ \E p \in {m[1] : m \in batch[d]} :
         committed' = [committed EXCEPT ![p] = Max({m[2] : m \in {n \in batch[d] : n[1] = p}}) + 1]
    /\ Goto(d, "top")
    /\ batch' = [batch EXCEPT ![d] = {}]
    /\ Keep
    /\ UNCHANGED <<end, owner, stale, pos, skipped, runOf, processed, batches, errors, published, fateVars, trimmed>>

\* Something in the loop raises: FAILED is written and the task ends.
Raise(d) ==
    /\ pc[d] \in Looping /\ events < MaxEvents /\ events' = events + 1
    /\ SetStatus(d, "FAILED")
    /\ Leave(d)
    /\ UNCHANGED <<task, statsRow, requests, taskVars, end, committed, owner, pos, skipped>>

\* After the loop STOPPED is written, whatever ended it.
Ending(d) ==
    /\ pc[d] = "ending"
    /\ SetStatus(d, "STREAMING_STOPPED")
    /\ Leave(d)
    /\ UNCHANGED <<task, statsRow, requests, taskVars, end, committed, owner, pos, skipped, events>>

-----------------------------------------------------------------------------
Loop(d) ==
    \/ Start(d) \/ InitStats(d) \/ Top(d) \/ HandlePause(d) \/ Backpressure(d)
    \/ Consume(d) \/ Commit(d) \/ Ending(d)

Next ==
    \/ \E p \in Partitions : Produce(p)
    \/ Rebalance
    \/ \E r \in Runs : Submit(r) \/ SubmitRecord(r)
    \/ \E r \in Runs, op \in Ops : Request(r, op) \/ Write(r, op)
    \/ \E d \in Daemons : Loop(d) \/ Terminate(d) \/ Raise(d)
    \/ \E d \in Daemons, t \in queue : Deliver(d, t)
    \/ \E d \in Daemons, dies \in BOOLEAN : Redeliver(d, dies)

\* A worker process runs on.
LoopFairness == \A d \in Daemons : WF_vars(Loop(d))

\* So do the others: the broker completes a rebalance, and a request that passed
\* its check is answered.
Fairness ==
    /\ LoopFairness
    /\ WF_vars(Rebalance /\ stale)
    /\ \A r \in Runs, op \in Ops : WF_vars(Write(r, op)) /\ WF_vars(SubmitRecord(r))

Spec == Init /\ [][Next]_vars
LoopSpec == Spec /\ LoopFairness
LiveSpec == Spec /\ Fairness

-----------------------------------------------------------------------------
(* Properties. *)

\* A task delivered twice, or sent again by restart, never gives a run a
\* second consumer: the daemons in the loop have different runs.
OneConsumer ==
    \A d, e \in Members : d # e => runOf[d][1] # runOf[e][1]

\* The group never moves past a message nobody has dealt with, across crashes,
\* rebalances, restarts and partial commits: a message below a committed offset went
\* through the steps and to the producer or to the dead letters, held no record, or
\* was passed over by auto.offset.reset; its output is missing only if the
\* publication of its own batch raised.
CommittedIsHandled ==
    \A m \in Messages : m[2] < committed[m[1]] => m \in Handled \union skipped

\* A daemon does not hand on a message a second time when a rebalance rewinds
\* its partitions, unless it had dropped the offset from processed_offsets.
NotTwice ==
    [][\A d \in Daemons : batch'[d] # batch[d] =>
            batch'[d] \intersect published[d] \subseteq trimmed[d]]_vars

\* A stop or a cancel ends the daemon, whatever it waits for at the time
\* (messages, the end of a pause or of the cooldown), unless the run is made
\* active again; nothing has to be fair for it but the daemon itself.
StopEnds ==
    \A d \in Daemons, r \in Runs :
        (runOf[d][1] = r /\ status[r] \notin Live) ~> (runOf[d][1] # r \/ status[r] \in Live)

\* After the cooldown consumption goes on: a partition with messages left is
\* read further as long as the run stays active.
BacklogIsRead ==
    \A p \in Partitions :
        []<>(\/ owner[p] = Nobody \/ stale
             \/ pos[p] = end[p]
             \/ \E r \in Runs : status[r] # "STREAMING_ACTIVE")

\* "publish to the output topic. Failed batches go to the DLQ" (see README): no
\* offset is committed past a message that is neither published nor dead-lettered.
FailedGoToDlq ==
    \A m \in unsent : m[2] < committed[m[1]] => m \in settled
=============================================================================
