----------------------------- MODULE Scheduler -----------------------------
(***************************************************************************)
(* Recurring runs: the task schedules.check, which Beat starts every       *)
(* minute on some worker, the endpoints that edit a schedule, the blocking *)
(* of downstream schedules after a contract breach, and the update of a    *)
(* schedule's history when one of its runs ends.                           *)
(*                                                                         *)
(* A check takes a Redis lock with a time to live, reads the due           *)
(* schedules, and for each one commits a run, sends it to the queue and    *)
(* then commits the schedule's next time.  Clock times are abstracted to   *)
(* what next_run_at says of them: none, due, later, or an hour away        *)
(* ("blocked"); slot counts the times a schedule became due.  The batch    *)
(* limit of 100 schedules is not reached; the counters and last_run_status, *)
(* which nothing reads back, are left out.                                 *)
(***************************************************************************)
EXTENDS Naturals, Sequences, FiniteSets

CONSTANTS
    Schedules,
    Checkers,    \* worker processes that can execute schedules.check
    MaxSlots,    \* bound on how often a schedule becomes due
    MaxFaults    \* bound on crashes, failed dispatches and checks that outlast the lock

ASSUME SchedulerAssumption == MaxSlots \in Nat /\ MaxFaults \in Nat

Nobody == "nobody"   \* the lock is free
Dead   == "dead"     \* the lock is held with the token of a check that died
ASSUME LockAssumption == Nobody \notin Checkers /\ Dead \notin Checkers

VARIABLES
    row,      \* per schedule: absent, active (is_active), paused or deleted
    nextRun,  \* per schedule: next_run_at
    slot,     \* per schedule: how often it became due
    hold,     \* history, per schedule: an hour since it was blocked has not passed
    runs,     \* pipeline_runs with a schedule_id, and their schedule_runs row
    lock,     \* locks:schedules:check
    pc,       \* per checker: what it does next
    todo,     \* per checker: due schedules it has not handled
    seen,     \* per checker: the slot its query saw, per schedule
    cur,      \* per checker: the run it is creating (an index of runs), or 0
    faults

rowVars   == <<row, nextRun, slot, hold>>
checkVars == <<lock, pc, todo, seen, cur>>
vars == <<rowVars, runs, checkVars, faults>>

NextRuns == {"none", "due", "later", "blocked"}
Run == [sched : Schedules, slot : 0..MaxSlots,
        state : {"created", "dispatched", "ended", "aborted"},
        linked : BOOLEAN,    \* schedule_runs.run_id is committed
        logged : BOOLEAN,    \* schedule_runs.status is committed
        wasActive : BOOLEAN, \* history: the schedule was active when it fired
        held : BOOLEAN]      \* history: the query that found it due fell in the hold

NothingSeen == [s \in Schedules |-> [slot |-> 0, held |-> FALSE]]

TypeOK ==
    /\ row \in [Schedules -> {"absent", "active", "paused", "deleted"}]
    /\ nextRun \in [Schedules -> NextRuns]
    /\ slot \in [Schedules -> 0..MaxSlots]
    /\ hold \in [Schedules -> BOOLEAN]
    /\ runs \in Seq(Run)
    /\ lock \in Checkers \union {Nobody, Dead}
    /\ pc \in [Checkers -> {"idle", "query", "fire", "created", "dispatched", "get", "delete"}]
    /\ todo \in [Checkers -> SUBSET Schedules]
    /\ seen \in [Checkers -> [Schedules -> [slot : 0..MaxSlots, held : BOOLEAN]]]
    /\ cur \in [Checkers -> 0..Len(runs)]
    /\ \A k \in Checkers : cur[k] # 0 <=> pc[k] \in {"created", "dispatched"}
    /\ faults \in 0..MaxFaults

Init ==
    /\ row = [s \in Schedules |-> "absent"]
    /\ nextRun = [s \in Schedules |-> "none"]
    /\ slot = [s \in Schedules |-> 0]
    /\ hold = [s \in Schedules |-> FALSE]
    /\ runs = <<>>
    /\ lock = Nobody
    /\ pc = [k \in Checkers |-> "idle"]
    /\ todo = [k \in Checkers |-> {}]
    /\ seen = [k \in Checkers |-> NothingSeen]
    /\ cur = [k \in Checkers |-> 0]
    /\ faults = 0

Fault == faults < MaxFaults /\ faults' = faults + 1

-----------------------------------------------------------------------------
(* The endpoints, and time.                                                *)

CreateSchedule(s) ==
    /\ row[s] = "absent"
    /\ row' = [row EXCEPT ![s] = "active"]
    /\ nextRun' = [nextRun EXCEPT ![s] = "later"]
    /\ UNCHANGED <<slot, hold, runs, checkVars, faults>>

PauseSchedule(s) ==
    /\ row[s] = "active"
    /\ row' = [row EXCEPT ![s] = "paused"]
    /\ nextRun' = [nextRun EXCEPT ![s] = "none"]
    /\ UNCHANGED <<slot, hold, runs, checkVars, faults>>

\* A resumed schedule fires when its cron expression says so, blocked or not.
ResumeSchedule(s) ==
    /\ row[s] = "paused"
    /\ row' = [row EXCEPT ![s] = "active"]
    /\ nextRun' = [nextRun EXCEPT ![s] = "later"]
    /\ hold' = [hold EXCEPT ![s] = FALSE]
    /\ UNCHANGED <<slot, runs, checkVars, faults>>

DeleteSchedule(s) ==
    /\ row[s] \in {"active", "paused"}
    /\ row' = [row EXCEPT ![s] = "deleted"]
    /\ UNCHANGED <<nextRun, slot, hold, runs, checkVars, faults>>

\* A run of an upstream pipeline breached a contract with severity block.
BlockDownstream(s) ==
    /\ row[s] = "active"
    /\ nextRun' = [nextRun EXCEPT ![s] = "blocked"]
    /\ hold' = [hold EXCEPT ![s] = TRUE]
    /\ UNCHANGED <<row, slot, runs, checkVars, faults>>

BecomesDue(s) ==
    /\ row[s] # "deleted" /\ nextRun[s] = "later"
    /\ slot[s] < MaxSlots
    /\ nextRun' = [nextRun EXCEPT ![s] = "due"]
    /\ slot' = [slot EXCEPT ![s] = @ + 1]
    /\ UNCHANGED <<row, hold, runs, checkVars, faults>>

HourPasses(s) ==
    /\ row[s] # "deleted" /\ hold[s]
    /\ hold' = [hold EXCEPT ![s] = FALSE]
    /\ nextRun' = [nextRun EXCEPT ![s] = IF @ = "blocked" THEN "later" ELSE @]
    /\ UNCHANGED <<row, slot, runs, checkVars, faults>>

-----------------------------------------------------------------------------
(* check_schedules.                                                        *)

\* Mutant: SET without NX takes the lock from whoever holds it.
AcquireAnyway(k) ==
    /\ pc[k] = "idle"
    /\ lock' = k
    /\ pc' = [pc EXCEPT ![k] = "query"]
    /\ UNCHANGED <<rowVars, runs, todo, seen, cur, faults>>

\* SET NX.  A check that does not get the lock, or no answer, does nothing.
Acquire(k) ==
    /\ pc[k] = "idle"
    /\ lock = Nobody
    /\ lock' = k
    /\ pc' = [pc EXCEPT ![k] = "query"]
    /\ UNCHANGED <<rowVars, runs, todo, seen, cur, faults>>

Query(k) ==
    /\ pc[k] = "query"
    /\ pc' = [pc EXCEPT ![k] = "fire"]
    /\ todo' = [todo EXCEPT ![k] = {s \in Schedules : row[s] = "active" /\ nextRun[s] = "due"}]
    /\ seen' = [seen EXCEPT ![k] =
                  [s \in Schedules |-> [slot |-> slot[s], held |-> hold[s]]]]
    /\ UNCHANGED <<rowVars, runs, lock, cur, faults>>

\* Insert the schedule_runs row and the PENDING run, commit.
CreateRun(k, s) ==
    /\ pc[k] = "fire"
    /\ s \in todo[k]
    /\ row[s] # "deleted"
    /\ runs' = Append(runs, [sched |-> s, slot |-> seen[k][s].slot, state |-> "created",
                             linked |-> FALSE, logged |-> FALSE,
                             wasActive |-> row[s] = "active", held |-> seen[k][s].held])
    /\ cur' = [cur EXCEPT ![k] = Len(runs) + 1]
    /\ pc' = [pc EXCEPT ![k] = "created"]
    /\ UNCHANGED <<rowVars, lock, todo, seen, faults>>

\* The row of s is gone, and with it what the error handler logs: the whole check
\* ends, and the schedules it has not handled wait for the next one.
FindDeleted(k, s) ==
    /\ pc[k] = "fire"
    /\ s \in todo[k]
    /\ row[s] = "deleted"
    /\ pc' = [pc EXCEPT ![k] = "get"]
    /\ UNCHANGED <<rowVars, runs, lock, todo, seen, cur, faults>>

\* The handling of s is over: the next schedule, or the end if the row of s is gone.
LeaveSchedule(k, s) ==
    /\ todo' = [todo EXCEPT ![k] = @ \ {s}]
    /\ cur' = [cur EXCEPT ![k] = 0]
    /\ pc' = [pc EXCEPT ![k] = IF row[s] = "deleted" THEN "get" ELSE "fire"]

Dispatch(k) ==
    /\ pc[k] = "created"
    /\ runs' = [runs EXCEPT ![cur[k]].state = "dispatched"]
    /\ pc' = [pc EXCEPT ![k] = "dispatched"]
    /\ UNCHANGED <<rowVars, lock, todo, seen, cur, faults>>

\* apply_async raises: rollback; the committed run stays, the schedule is still due.
DispatchFails(k) ==
    /\ pc[k] = "created"
    /\ Fault
    /\ LeaveSchedule(k, runs[cur[k]].sched)
    /\ UNCHANGED <<rowVars, runs, lock, seen>>

\* Mutant: the next time is the first after next_run_at instead of after now.
AdvanceFromLastTime(k) ==
    /\ pc[k] = "dispatched"
    /\ LET s == runs[cur[k]].sched
       IN  /\ LeaveSchedule(k, s)
           /\ runs' = [runs EXCEPT ![cur[k]].linked = row[s] # "deleted"]
           /\ nextRun' = [nextRun EXCEPT ![s] = IF row[s] = "active" THEN "due" ELSE @]
    /\ UNCHANGED <<row, slot, hold, lock, seen, faults>>

\* Link the run, count it and set next_run_at to the first time after the query's
\* now, whatever the row holds: that time may be past by now.  Of a row that is gone
\* nothing can be written.
Advance(k) ==
    /\ pc[k] = "dispatched"
    /\ LET s == runs[cur[k]].sched
       IN  /\ LeaveSchedule(k, s)
           /\ IF row[s] = "deleted"
              THEN UNCHANGED <<runs, nextRun>>
              ELSE /\ runs' = [runs EXCEPT ![cur[k]].linked = TRUE]
                   /\ nextRun' = [nextRun EXCEPT ![s] =
                                    IF slot[s] > seen[k][s].slot THEN "due" ELSE "later"]
    /\ UNCHANGED <<row, slot, hold, lock, seen, faults>>

\* The task returns, or its process dies: its variables are gone.
Return(k) ==
    /\ pc' = [pc EXCEPT ![k] = "idle"]
    /\ todo' = [todo EXCEPT ![k] = {}]
    /\ seen' = [seen EXCEPT ![k] = NothingSeen]
    /\ cur' = [cur EXCEPT ![k] = 0]

ReleaseGet(k) ==
    /\ \/ pc[k] = "fire" /\ todo[k] = {}
       \/ pc[k] = "get"
    /\ IF lock = k
       THEN pc' = [pc EXCEPT ![k] = "delete"] /\ UNCHANGED <<todo, seen, cur>>
       ELSE Return(k)
    /\ UNCHANGED <<rowVars, runs, lock, faults>>

\* The key is deleted, whosever token it holds by now.
ReleaseDelete(k) ==
    /\ pc[k] = "delete"
    /\ lock' = Nobody
    /\ Return(k)
    /\ UNCHANGED <<rowVars, runs, faults>>

\* The database fails: the check gives up and releases the lock.
CheckFails(k) ==
    /\ pc[k] = "query"
    /\ Fault
    /\ pc' = [pc EXCEPT ![k] = "get"]
    /\ UNCHANGED <<rowVars, runs, lock, todo, seen, cur>>

Crash(k) ==
    /\ pc[k] # "idle"
    /\ Fault
    /\ Return(k)
    /\ lock' = IF lock = k THEN Dead ELSE lock
    /\ UNCHANGED <<rowVars, runs>>

\* Mutant: the lock is set without a time to live.
LockStays ==
    /\ lock \in Checkers
    /\ Fault
    /\ lock' = Nobody
    /\ UNCHANGED <<rowVars, runs, pc, todo, seen, cur>>

\* 55 seconds are over: of a check that died, or of one that takes longer.
LockExpires ==
    /\ lock # Nobody
    /\ IF lock = Dead THEN UNCHANGED faults ELSE Fault
    /\ lock' = Nobody
    /\ UNCHANGED <<rowVars, runs, pc, todo, seen, cur>>

-----------------------------------------------------------------------------

\* The results of a run are persisted; _update_schedule_stats finds its history row
\* by run_id, if the schedule still exists.
RunEnds(i) ==
    /\ runs[i].state = "dispatched"
    /\ runs' = [runs EXCEPT ![i].state = "ended",
                            ![i].logged = runs[i].linked /\ row[runs[i].sched] # "deleted"]
    /\ UNCHANGED <<rowVars, checkVars, faults>>

\* A cancelled, reaped or interrupted run has no results and does not get there.
RunEndsUnrecorded(i) ==
    /\ runs[i].state = "dispatched"
    /\ runs' = [runs EXCEPT ![i].state = "aborted"]
    /\ UNCHANGED <<rowVars, checkVars, faults>>

Edit(s) == \/ CreateSchedule(s) \/ PauseSchedule(s) \/ ResumeSchedule(s)
           \/ DeleteSchedule(s) \/ BlockDownstream(s)
Time(s) == BecomesDue(s) \/ HourPasses(s)
Check(k) == \/ Acquire(k) \/ Query(k) \/ Dispatch(k) \/ Advance(k)
            \/ ReleaseGet(k) \/ ReleaseDelete(k)
            \/ \E s \in Schedules : CreateRun(k, s) \/ FindDeleted(k, s)

Next == \/ \E s \in Schedules : Edit(s) \/ Time(s)
        \/ \E k \in Checkers : Check(k) \/ DispatchFails(k) \/ CheckFails(k) \/ Crash(k)
        \/ LockExpires
        \/ \E i \in DOMAIN runs : RunEnds(i) \/ RunEndsUnrecorded(i)

\* A check that is started makes progress, Beat keeps starting checks, and Redis
\* expires keys; Acquire needs more, as another check may hold the lock each time.
Fairness ==
    /\ \A k \in Checkers : WF_vars(Check(k)) /\ SF_vars(Acquire(k))
    /\ WF_vars(LockExpires /\ lock = Dead)

Spec == Init /\ [][Next]_vars
FairSpec == Spec /\ Fairness

-----------------------------------------------------------------------------
(* Properties.                                                             *)

\* As long as nothing fails, a time of a schedule leads to one run, whatever the
\* endpoints, the clock and the other worker do in the middle of a check.
OneRunPerTime ==
    faults = 0 => \A i, j \in DOMAIN runs :
                     runs[i].sched = runs[j].sched /\ runs[i].slot = runs[j].slot => i = j

(* What makes OneRunPerTime inductive.                                     *)
Busy(k) == pc[k] \in {"fire", "created", "dispatched"}
RunsOf(s) == {i \in DOMAIN runs : runs[i].sched = s}

\* The lock is held by the one check that is under way.
Exclusive == lock # Dead /\ \A k \in Checkers : pc[k] # "idle" <=> lock = k

\* No run is for a time to come; during a check, none is for a later time than the
\* one the check has seen.
RunsOfPast ==
    \A s \in Schedules : \A i \in RunsOf(s) :
        /\ runs[i].slot <= slot[s]
        /\ \A k \in Checkers : Busy(k) => runs[i].slot <= seen[k][s].slot

SeenIsPast == \A k \in Checkers : Busy(k) => \A s \in Schedules : seen[k][s].slot <= slot[s]

\* What a check still has to fire has no run, but for the one it is working on.
TodoUnfired ==
    \A k \in Checkers : Busy(k) => \A s \in todo[k] : \A i \in RunsOf(s) :
        runs[i].slot = seen[k][s].slot => pc[k] # "fire" /\ cur[k] = i

\* A time that is due has no run, but for one that a check is working on.
DueUnfired ==
    \A s \in Schedules : nextRun[s] = "due" /\ row[s] # "deleted" =>
        \A i \in RunsOf(s) : runs[i].slot = slot[s] =>
            \E k \in Checkers : pc[k] \in {"created", "dispatched"} /\ cur[k] = i

OneRunInv == faults = 0 => Exclusive /\ RunsOfPast /\ SeenIsPast /\ TodoUnfired /\ DueUnfired

Fired(s, n) == {i \in DOMAIN runs : runs[i].sched = s /\ runs[i].slot = n
                                      /\ runs[i].state # "created"}

\* A time of a schedule is dispatched once; each further dispatch is paid for by a
\* crash, a failure or a check that outlasts its lock.
FiresOnce == \A s \in Schedules : \A n \in 1..MaxSlots :
                 Cardinality(Fired(s, n)) <= 1 + faults

\* Every time of a schedule that stays active is dispatched, in spite of crashes
\* that leave the lock behind.
DueFires ==
    \A s \in Schedules : \A n \in 1..MaxSlots :
        (row[s] = "active" /\ nextRun[s] = "due" /\ slot[s] = n)
            ~> (Fired(s, n) # {} \/ row[s] # "active" \/ hold[s])

-----------------------------------------------------------------------------
(* What documentation or comments say and this model refutes (see README).  *)

\* "a pause between tick and fire must win"
PauseWins == \A i \in DOMAIN runs : runs[i].wasActive

\* "pushes their next_run_at forward by 1 hour to prevent immediate triggering":
\* no check that starts within the hour finds the schedule due.
BlockHolds == \A i \in DOMAIN runs : ~runs[i].held

\* "later the run FK and status/error": when a run has ended and no check is under
\* way, the schedule's history shows the run's status.
HistoryComplete ==
    (\A k \in Checkers : pc[k] = "idle") /\ faults = 0 =>
        \A i \in DOMAIN runs : runs[i].state = "ended" /\ row[runs[i].sched] # "deleted"
                                   => runs[i].logged
=============================================================================
