-------------------------- MODULE SchedulerProofs --------------------------
(***************************************************************************)
(* As long as nothing fails, a time of a schedule leads to one run; and it *)
(* is dispatched once more at most for each fault.                         *)
(*                                                                         *)
(* OneRunPerTime alone is not inductive: a check that held a schedule which *)
(* already has its run would make a second one.  OneRunInv excludes it: one *)
(* check is under way at a time, and neither what it has in hand nor what  *)
(* is due has a run.  Steps that count a fault have nothing to show.       *)
(* FiresOnce needs an account of what can still be dispatched: FiresInv,   *)
(* in the second part.                                                     *)
(***************************************************************************)
EXTENDS Scheduler, FiniteSetTheorems, TLAPS

\* Which schedule and which time a run is for never changes.
SameRuns == /\ DOMAIN runs' = DOMAIN runs
            /\ \A i \in DOMAIN runs : runs'[i].sched = runs[i].sched
                                      /\ runs'[i].slot = runs[i].slot

\* A change of some fields of a run.
LEMMA RunChanges ==
    ASSUME runs \in Seq(Run), NEW i \in DOMAIN runs, NEW e \in Run,
           e.sched = runs[i].sched, e.slot = runs[i].slot, runs' = [runs EXCEPT ![i] = e]
    PROVE  runs' \in Seq(Run) /\ Len(runs') = Len(runs) /\ SameRuns
  <1>1. runs' \in Seq(Run) /\ Len(runs') = Len(runs) OBVIOUS
  <1>2. DOMAIN runs' = DOMAIN runs OBVIOUS
  <1>3. \A j \in DOMAIN runs : runs'[j] = IF j = i THEN e ELSE runs[j] OBVIOUS
  <1> QED BY <1>1, <1>2, <1>3 DEF SameRuns

LEMMA RunsAreSame ==
    ASSUME TypeOK,
           \/ UNCHANGED runs
           \/ \E k \in Checkers : Dispatch(k) \/ Advance(k)
           \/ \E i \in DOMAIN runs : RunEnds(i) \/ RunEndsUnrecorded(i)
    PROVE  runs' \in Seq(Run) /\ Len(runs') = Len(runs) /\ SameRuns
  <1>1. CASE UNCHANGED runs BY <1>1 DEF SameRuns, TypeOK
  <1>2. \A k \in Checkers : pc[k] \in {"created", "dispatched"} => cur[k] \in DOMAIN runs
    BY DEF TypeOK
  <1>3. \A i \in DOMAIN runs : runs[i] \in Run BY DEF TypeOK
  <1>4. CASE \E k \in Checkers : Dispatch(k)
    <2>1. PICK k \in Checkers : Dispatch(k) BY <1>4
    <2>2. cur[k] \in DOMAIN runs BY <1>2, <2>1 DEF Dispatch
    <2> DEFINE e == [runs[cur[k]] EXCEPT !.state = "dispatched"]
    <2>3. e \in Run /\ e.sched = runs[cur[k]].sched /\ e.slot = runs[cur[k]].slot
      BY <1>3, <2>2 DEF Run
    <2>4. runs' = [runs EXCEPT ![cur[k]] = e] BY <2>1 DEF Dispatch
    <2> QED BY <2>2, <2>3, <2>4, RunChanges DEF TypeOK
  <1>5. CASE \E k \in Checkers : Advance(k)
    <2>1. PICK k \in Checkers : Advance(k) BY <1>5
    <2>2. cur[k] \in DOMAIN runs BY <1>2, <2>1 DEF Advance
    <2> DEFINE e == [runs[cur[k]] EXCEPT !.linked = TRUE]
    <2>3. e \in Run /\ e.sched = runs[cur[k]].sched /\ e.slot = runs[cur[k]].slot
      BY <1>3, <2>2 DEF Run
    <2>4. UNCHANGED runs \/ runs' = [runs EXCEPT ![cur[k]] = e] BY <2>1 DEF Advance
    <2> QED BY <1>1, <2>2, <2>3, <2>4, RunChanges DEF TypeOK
  <1>6. CASE \E i \in DOMAIN runs : RunEnds(i)
    <2>1. PICK i \in DOMAIN runs : RunEnds(i) BY <1>6
    <2> DEFINE b == runs[i].linked /\ row[runs[i].sched] # "deleted"
    <2> DEFINE e == [runs[i] EXCEPT !.state = "ended", !.logged = b]
    <2>2. b \in BOOLEAN OBVIOUS
    <2>3. e \in Run /\ e.sched = runs[i].sched /\ e.slot = runs[i].slot
      <3> HIDE DEF b
      <3> QED BY <1>3, <2>2 DEF Run
    <2>4. runs' = [runs EXCEPT ![i] = e] BY <2>1 DEF RunEnds
    <2> QED BY <2>3, <2>4, RunChanges DEF TypeOK
  <1>7. CASE \E i \in DOMAIN runs : RunEndsUnrecorded(i)
    <2>1. PICK i \in DOMAIN runs : RunEndsUnrecorded(i) BY <1>7
    <2> DEFINE e == [runs[i] EXCEPT !.state = "aborted"]
    <2>3. e \in Run /\ e.sched = runs[i].sched /\ e.slot = runs[i].slot
      BY <1>3 DEF Run
    <2>4. runs' = [runs EXCEPT ![i] = e] BY <2>1 DEF RunEndsUnrecorded
    <2> QED BY <2>3, <2>4, RunChanges DEF TypeOK
  <1> QED BY <1>1, <1>4, <1>5, <1>6, <1>7

-----------------------------------------------------------------------------
(* Types.                                                                  *)

LEMMA TypeInit == Init => TypeOK
  BY SchedulerAssumption DEF Init, TypeOK, NextRuns, NothingSeen

\* What a check does on its way out keeps its variables well typed.
LEMMA ReturnTypes ==
    ASSUME TypeOK, NEW k \in Checkers, Return(k)
    PROVE  /\ pc' \in [Checkers -> {"idle", "query", "fire", "created", "dispatched",
                                   "get", "delete"}]
           /\ todo' \in [Checkers -> SUBSET Schedules]
           /\ seen' \in [Checkers -> [Schedules -> [slot : 0..MaxSlots, held : BOOLEAN]]]
           /\ cur' \in [Checkers -> 0..Len(runs)]
           /\ \A d \in Checkers : cur'[d] # 0 <=> pc'[d] \in {"created", "dispatched"}
  <1>1. NothingSeen \in [Schedules -> [slot : 0..MaxSlots, held : BOOLEAN]]
    BY SchedulerAssumption DEF NothingSeen
  <1> QED BY <1>1 DEF TypeOK, Return

LEMMA LeaveTypes ==
    ASSUME TypeOK, NEW k \in Checkers, NEW s \in Schedules, LeaveSchedule(k, s)
    PROVE  /\ pc' \in [Checkers -> {"idle", "query", "fire", "created", "dispatched",
                                   "get", "delete"}]
           /\ todo' \in [Checkers -> SUBSET Schedules]
           /\ cur' \in [Checkers -> 0..Len(runs)]
           /\ \A d \in Checkers : cur'[d] # 0 <=> pc'[d] \in {"created", "dispatched"}
  BY DEF TypeOK, LeaveSchedule

LEMMA TypeStep == TypeOK /\ [Next]_vars => TypeOK'
  <1> SUFFICES ASSUME TypeOK, [Next]_vars PROVE TypeOK'
    OBVIOUS
  <1> USE SchedulerAssumption
  <1>a. \A k \in Checkers : cur[k] # 0 => cur[k] \in DOMAIN runs /\ runs[cur[k]] \in Run
    BY DEF TypeOK
  <1>1. CASE \E s \in Schedules : CreateSchedule(s)
    BY <1>1 DEF CreateSchedule, TypeOK, NextRuns, checkVars
  <1>2. CASE \E s \in Schedules : PauseSchedule(s)
    BY <1>2 DEF PauseSchedule, TypeOK, NextRuns, checkVars
  <1>3. CASE \E s \in Schedules : ResumeSchedule(s)
    BY <1>3 DEF ResumeSchedule, TypeOK, NextRuns, checkVars
  <1>4. CASE \E s \in Schedules : DeleteSchedule(s)
    BY <1>4 DEF DeleteSchedule, TypeOK, NextRuns, checkVars
  <1>5. CASE \E s \in Schedules : BlockDownstream(s)
    BY <1>5 DEF BlockDownstream, TypeOK, NextRuns, checkVars
  <1>6. CASE \E s \in Schedules : BecomesDue(s)
    BY <1>6 DEF BecomesDue, TypeOK, NextRuns, checkVars
  <1>7. CASE \E s \in Schedules : HourPasses(s)
    BY <1>7 DEF HourPasses, TypeOK, NextRuns, checkVars
  <1>8. CASE \E k \in Checkers : Acquire(k)
    BY <1>8 DEF Acquire, TypeOK, rowVars, Fault
  <1>9. CASE \E k \in Checkers : CheckFails(k)
    BY <1>9 DEF CheckFails, TypeOK, rowVars, Fault
  <1>10. CASE \E k \in Checkers : Query(k)
    <2>1. PICK k \in Checkers : Query(k) BY <1>10
    <2>2. [s \in Schedules |-> [slot |-> slot[s], held |-> hold[s]]]
            \in [Schedules -> [slot : 0..MaxSlots, held : BOOLEAN]]
      BY DEF TypeOK
    <2> QED BY <2>1, <2>2 DEF Query, TypeOK, rowVars
  <1>11. CASE \E k \in Checkers : \E s \in Schedules : CreateRun(k, s)
    <2>1. PICK k \in Checkers, s \in Schedules : CreateRun(k, s) BY <1>11
    <2>2. PICK e \in Run : runs' = Append(runs, e)
      <3>1. seen[k][s].slot \in 0..MaxSlots /\ seen[k][s].held \in BOOLEAN BY DEF TypeOK
      <3>2. (row[s] = "active") \in BOOLEAN OBVIOUS
      <3> DEFINE e == [sched |-> s, slot |-> seen[k][s].slot, state |-> "created",
                       linked |-> FALSE, logged |-> FALSE,
                       wasActive |-> row[s] = "active", held |-> seen[k][s].held]
      <3>3. e \in Run BY <3>1, <3>2 DEF Run
      <3>4. runs' = Append(runs, e) BY <2>1 DEF CreateRun
      <3> QED BY <3>3, <3>4
    <2>3. runs' \in Seq(Run) /\ Len(runs') = Len(runs) + 1 BY <2>2 DEF TypeOK
    <2>4. cur' \in [Checkers -> 0..Len(runs')]
      BY <2>1, <2>3 DEF CreateRun, TypeOK
    <2>5. \A d \in Checkers : cur'[d] # 0 <=> pc'[d] \in {"created", "dispatched"}
      BY <2>1 DEF CreateRun, TypeOK
    <2> QED BY <2>1, <2>3, <2>4, <2>5 DEF CreateRun, TypeOK, rowVars
  <1>12. CASE \E k \in Checkers : \E s \in Schedules : FindDeleted(k, s)
    BY <1>12 DEF FindDeleted, TypeOK, rowVars
  <1>13. CASE \E k \in Checkers : Dispatch(k)
    <2>1. PICK k \in Checkers : Dispatch(k) BY <1>13
    <2>2. runs' \in Seq(Run) /\ Len(runs') = Len(runs) BY <1>13, RunsAreSame
    <2> QED BY <2>1, <2>2 DEF Dispatch, TypeOK, rowVars
  <1>14. CASE \E k \in Checkers : DispatchFails(k)
    <2>1. PICK k \in Checkers : DispatchFails(k) BY <1>14
    <2>2. runs[cur[k]].sched \in Schedules BY <1>a, <2>1 DEF DispatchFails, TypeOK, Run
    <2>3. LeaveSchedule(k, runs[cur[k]].sched) BY <2>1 DEF DispatchFails
    <2> QED BY <2>1, <2>2, <2>3, LeaveTypes DEF DispatchFails, TypeOK, rowVars, Fault
  <1>15. CASE \E k \in Checkers : Advance(k)
    <2>1. PICK k \in Checkers : Advance(k) BY <1>15
    <2>2. cur[k] \in DOMAIN runs /\ runs[cur[k]] \in Run BY <1>a, <2>1 DEF Advance, TypeOK
    <2>3. runs' \in Seq(Run) /\ Len(runs') = Len(runs)
      BY <1>15, RunsAreSame
    <2>4. nextRun' \in [Schedules -> NextRuns] BY <2>1, <2>2 DEF Advance, TypeOK, NextRuns
    <2>5. LeaveSchedule(k, runs[cur[k]].sched) BY <2>1 DEF Advance
    <2>6. runs[cur[k]].sched \in Schedules BY <2>2 DEF Run
    <2> QED BY <2>1, <2>3, <2>4, <2>5, <2>6, LeaveTypes DEF Advance, TypeOK
  <1>16. CASE \E k \in Checkers : ReleaseGet(k)
    <2>1. PICK k \in Checkers : ReleaseGet(k) BY <1>16
    <2>2. CASE lock = k BY <2>1, <2>2 DEF ReleaseGet, TypeOK, rowVars
    <2>3. CASE lock # k
      <3>1. Return(k) BY <2>1, <2>3 DEF ReleaseGet
      <3> QED BY <2>1, <3>1, ReturnTypes DEF ReleaseGet, TypeOK, rowVars
    <2> QED BY <2>2, <2>3
  <1>17. CASE \E k \in Checkers : ReleaseDelete(k)
    <2>1. PICK k \in Checkers : ReleaseDelete(k) BY <1>17
    <2>2. Return(k) BY <2>1 DEF ReleaseDelete
    <2> QED BY <2>1, <2>2, ReturnTypes DEF ReleaseDelete, TypeOK, rowVars, Fault
  <1>18. CASE \E k \in Checkers : Crash(k)
    <2>1. PICK k \in Checkers : Crash(k) BY <1>18
    <2>2. Return(k) BY <2>1 DEF Crash
    <2> QED BY <2>1, <2>2, ReturnTypes DEF Crash, TypeOK, rowVars, Fault
  <1>19. CASE LockExpires
    BY <1>19 DEF LockExpires, TypeOK, rowVars, Fault
  <1>20. CASE \E i \in DOMAIN runs : RunEnds(i)
    <2>1. PICK i \in DOMAIN runs : RunEnds(i) BY <1>20
    <2>3. runs' \in Seq(Run) /\ Len(runs') = Len(runs) BY <1>20, RunsAreSame
    <2> QED BY <2>1, <2>3 DEF RunEnds, TypeOK, rowVars, checkVars
  <1>21. CASE \E i \in DOMAIN runs : RunEndsUnrecorded(i)
    <2>1. PICK i \in DOMAIN runs : RunEndsUnrecorded(i) BY <1>21
    <2>3. runs' \in Seq(Run) /\ Len(runs') = Len(runs) BY <1>21, RunsAreSame
    <2> QED BY <2>1, <2>3 DEF RunEndsUnrecorded, TypeOK, rowVars, checkVars
  <1>22. CASE UNCHANGED vars
    BY <1>22 DEF vars, rowVars, checkVars, TypeOK
  <1> QED
    BY <1>1, <1>2, <1>3, <1>4, <1>5, <1>6, <1>7, <1>8, <1>9, <1>10, <1>11,
       <1>12, <1>13, <1>14, <1>15, <1>16, <1>17, <1>18, <1>19, <1>20, <1>21,
       <1>22 DEF Next, Edit, Time, Check

\* Every variable keeps its type, and a check has a run in hand exactly between
\* creating it and committing the schedule.
THEOREM SchedulerTypeCorrect == Spec => []TypeOK
  BY TypeInit, TypeStep, PTL DEF Spec

-----------------------------------------------------------------------------
(* One run per time.                                                       *)

LEMMA OneRunInit == Init => OneRunInv /\ OneRunPerTime
  BY LockAssumption DEF Init, OneRunInv, OneRunPerTime, Exclusive, RunsOfPast, SeenIsPast,
     TodoUnfired, DueUnfired, RunsOf, Busy, Nobody, Dead

\* What an endpoint, a block or the passing of time does to a schedule: it is due
\* afterwards if it was, or for a time that is new.
RowStep ==
    /\ UNCHANGED <<runs, checkVars>>
    /\ \A s \in Schedules :
          /\ slot'[s] \in {slot[s], slot[s] + 1}
          /\ nextRun'[s] = "due" /\ row'[s] # "deleted" =>
                \/ nextRun[s] = "due" /\ row[s] # "deleted" /\ slot'[s] = slot[s]
                \/ slot'[s] = slot[s] + 1

LEMMA RowsStep ==
    ASSUME TypeOK, NEW s \in Schedules, Edit(s) \/ Time(s)
    PROVE  RowStep
  <1> USE DEF TypeOK, RowStep, NextRuns
  <1>1. CASE CreateSchedule(s) BY <1>1 DEF CreateSchedule
  <1>2. CASE PauseSchedule(s) BY <1>2 DEF PauseSchedule
  <1>3. CASE ResumeSchedule(s) BY <1>3 DEF ResumeSchedule
  <1>4. CASE DeleteSchedule(s) BY <1>4 DEF DeleteSchedule
  <1>5. CASE BlockDownstream(s) BY <1>5 DEF BlockDownstream
  <1>6. CASE BecomesDue(s) BY <1>6 DEF BecomesDue
  <1>7. CASE HourPasses(s) BY <1>7 DEF HourPasses
  <1> QED BY <1>1, <1>2, <1>3, <1>4, <1>5, <1>6, <1>7 DEF Edit, Time

\* A step that leaves the runs' schedules and times alone keeps them apart.
LEMMA SameRunsApart ==
    ASSUME SameRuns, OneRunPerTime, faults = 0
    PROVE  OneRunPerTime'
  BY DEF SameRuns, OneRunPerTime

LEMMA SameRunsOf ==
    ASSUME SameRuns
    PROVE  \A s : RunsOf(s)' = RunsOf(s) /\ \A i \in RunsOf(s) : runs'[i].slot = runs[i].slot
  BY DEF SameRuns, RunsOf

LEMMA RunNumbers ==
    ASSUME TypeOK
    PROVE  /\ \A s \in Schedules : slot[s] \in Nat
           /\ \A s \in Schedules : \A k \in Checkers : seen[k][s].slot \in Nat
           /\ \A i \in DOMAIN runs : runs[i].slot \in Nat /\ runs[i].sched \in Schedules
  <1>1. \A i \in DOMAIN runs : runs[i] \in Run BY DEF TypeOK
  <1>2. \A i \in DOMAIN runs : runs[i].slot \in Nat /\ runs[i].sched \in Schedules
    BY <1>1, SchedulerAssumption DEF Run
  <1>3. \A s \in Schedules : slot[s] \in Nat BY SchedulerAssumption DEF TypeOK
  <1>4. \A s \in Schedules : \A k \in Checkers : seen[k][s].slot \in Nat
    BY SchedulerAssumption DEF TypeOK
  <1> QED BY <1>2, <1>3, <1>4

LEMMA RowStepKeeps ==
    ASSUME TypeOK, faults = 0, OneRunInv, RowStep
    PROVE  Exclusive' /\ RunsOfPast' /\ SeenIsPast' /\ TodoUnfired' /\ DueUnfired'
  <1> USE DEF RowStep, checkVars
  <1>1. SameRuns BY DEF SameRuns
  <1>2. \A s : RunsOf(s)' = RunsOf(s) BY <1>1, SameRunsOf
  <1>3. Exclusive' BY DEF OneRunInv, Exclusive
  <1>4. \A s \in Schedules : /\ slot[s] \in Nat
                             /\ \A k \in Checkers : seen[k][s].slot \in Nat
    BY RunNumbers
  <1>5. \A s \in Schedules : \A i \in RunsOf(s) : runs[i].slot \in Nat
    BY RunNumbers DEF RunsOf
  <1>6. \A k : Busy(k)' <=> Busy(k) BY DEF Busy
  <1>7. RunsOfPast' BY <1>2, <1>4, <1>5, <1>6 DEF OneRunInv, RunsOfPast
  <1>8. TodoUnfired' BY <1>2, <1>6 DEF OneRunInv, TodoUnfired
  <1>9. DueUnfired'
    <2> SUFFICES ASSUME NEW s \in Schedules, nextRun'[s] = "due", row'[s] # "deleted",
                        NEW i \in RunsOf(s), runs[i].slot = slot'[s]
                 PROVE  \E k \in Checkers : pc[k] \in {"created", "dispatched"} /\ cur[k] = i
      BY <1>2 DEF DueUnfired
    <2>1. runs[i].slot <= slot[s] BY DEF OneRunInv, RunsOfPast
    <2>2. nextRun[s] = "due" /\ row[s] # "deleted" /\ slot'[s] = slot[s]
      BY <1>4, <1>5, <2>1
    <2> QED BY <2>2 DEF OneRunInv, DueUnfired
  <1>10. SeenIsPast' BY <1>4, <1>6 DEF OneRunInv, SeenIsPast
  <1> QED BY <1>3, <1>7, <1>8, <1>9, <1>10

\* While a check is under way it is the only one.
LEMMA OnlyOne ==
    ASSUME TypeOK, faults = 0, OneRunInv, NEW k \in Checkers, pc[k] # "idle"
    PROVE  /\ lock = k
           /\ \A d \in Checkers : d # k => pc[d] = "idle" /\ ~Busy(d)
  BY DEF OneRunInv, Exclusive, Busy

LEMMA CheckKeeps ==
    ASSUME TypeOK, faults = 0, OneRunInv, OneRunPerTime, NEW k \in Checkers, Check(k)
    PROVE  Exclusive' /\ RunsOfPast' /\ SeenIsPast' /\ TodoUnfired' /\ DueUnfired' /\ OneRunPerTime'
  <1>a. /\ \A s \in Schedules : slot[s] \in Nat
        /\ \A s \in Schedules : seen[k][s].slot \in Nat
        /\ \A i \in DOMAIN runs : runs[i].slot \in Nat /\ runs[i].sched \in Schedules
    BY RunNumbers
  <1>1. CASE Acquire(k)
    <2>1. SameRuns BY <1>1 DEF Acquire, SameRuns
    <2>2. Exclusive'
      BY <1>1, LockAssumption DEF Acquire, OneRunInv, Exclusive, TypeOK, Dead, Nobody
    <2>3. \A d \in Checkers : Busy(d)' <=> Busy(d) BY <1>1 DEF Acquire, Busy, TypeOK
    <2>4. RunsOfPast' /\ SeenIsPast'
      BY <1>1, <2>1, <2>3, SameRunsOf DEF Acquire, OneRunInv, RunsOfPast, SeenIsPast, rowVars
    <2>5. \A d \in Checkers : d # k => pc'[d] = pc[d] BY <1>1 DEF Acquire, TypeOK
    <2>6. TodoUnfired'
      BY <1>1, <2>1, <2>3, <2>5, SameRunsOf DEF Acquire, Busy, OneRunInv, TodoUnfired
    <2>7. DueUnfired'
      <3> SUFFICES ASSUME NEW s \in Schedules, nextRun[s] = "due", row[s] # "deleted",
                          NEW i \in RunsOf(s), runs[i].slot = slot[s]
                   PROVE  \E d \in Checkers : pc'[d] \in {"created", "dispatched"} /\ cur[d] = i
        BY <1>1, <2>1, SameRunsOf DEF Acquire, DueUnfired, rowVars
      <3> QED BY <1>1, <2>5 DEF Acquire, OneRunInv, DueUnfired
    <2> QED BY <2>1, <2>2, <2>4, <2>6, <2>7, SameRunsApart
  <1>2. CASE Query(k)
    <2>1. SameRuns BY <1>2 DEF Query, SameRuns
    <2>2. /\ \A d \in Checkers : d # k => pc[d] = "idle" /\ ~Busy(d)
          /\ \A d \in Checkers : d # k => ~Busy(d)'
      BY <1>2, OnlyOne DEF Query, Busy, TypeOK
    <2>3. Exclusive' BY <1>2 DEF Query, OneRunInv, Exclusive, TypeOK
    <2>4. \A s \in Schedules : seen'[k][s].slot = slot[s] BY <1>2 DEF Query, TypeOK
    <2>5. RunsOfPast'
      BY <1>2, <2>1, <2>2, <2>4, SameRunsOf DEF Query, OneRunInv, RunsOfPast, rowVars
    <2>6. \A s \in todo'[k] : s \in Schedules /\ row[s] = "active" /\ nextRun[s] = "due"
      BY <1>2 DEF Query, TypeOK
    <2>7. \A s \in Schedules : nextRun[s] = "due" /\ row[s] # "deleted" =>
             \A i \in RunsOf(s) : runs[i].slot # slot[s]
      BY <1>2, <2>2 DEF Query, OneRunInv, DueUnfired
    <2>8. TodoUnfired'
      BY <1>2, <2>1, <2>2, <2>4, <2>6, <2>7, SameRunsOf DEF Query, TodoUnfired
    <2>9. DueUnfired'
      BY <1>2, <2>1, <2>7, SameRunsOf DEF Query, DueUnfired, rowVars
    <2>10. SeenIsPast' BY <1>2, <1>a, <2>2, <2>4 DEF Query, SeenIsPast, rowVars
    <2> QED BY <2>1, <2>3, <2>5, <2>8, <2>9, <2>10, SameRunsApart
  <1>3. CASE Dispatch(k)
    <2>1. SameRuns BY <1>3, RunsAreSame
    <2>2. Exclusive' BY <1>3 DEF Dispatch, OneRunInv, Exclusive, TypeOK
    <2>3. \A d \in Checkers : /\ Busy(d)' <=> Busy(d)
                              /\ pc[d] # "fire" => pc'[d] # "fire"
                              /\ pc[d] \in {"created", "dispatched"}
                                   => pc'[d] \in {"created", "dispatched"}
      BY <1>3 DEF Dispatch, Busy, TypeOK
    <2>4. RunsOfPast'
      BY <1>3, <2>1, <2>3, SameRunsOf DEF Dispatch, OneRunInv, RunsOfPast, rowVars
    <2>5. TodoUnfired'
      <3> SUFFICES ASSUME NEW d \in Checkers, Busy(d), NEW s \in todo[d], NEW i \in RunsOf(s),
                          runs[i].slot = seen[d][s].slot
                   PROVE  pc'[d] # "fire" /\ cur[d] = i
        BY <1>3, <2>1, <2>3, SameRunsOf DEF Dispatch, TodoUnfired
      <3> QED BY <2>3 DEF OneRunInv, TodoUnfired
    <2>6. DueUnfired'
      <3> SUFFICES ASSUME NEW s \in Schedules, nextRun[s] = "due", row[s] # "deleted",
                          NEW i \in RunsOf(s), runs[i].slot = slot[s]
                   PROVE  \E d \in Checkers : pc'[d] \in {"created", "dispatched"} /\ cur[d] = i
        BY <1>3, <2>1, SameRunsOf DEF Dispatch, DueUnfired, rowVars
      <3> QED BY <2>3 DEF OneRunInv, DueUnfired
    <2>7. SeenIsPast' BY <1>3, <2>3 DEF Dispatch, OneRunInv, SeenIsPast, rowVars
    <2> QED BY <2>1, <2>2, <2>4, <2>5, <2>6, <2>7, SameRunsApart
  <1>4. CASE Advance(k)
    <2> DEFINE s == runs[cur[k]].sched
    <2>1. SameRuns BY <1>4, RunsAreSame
    <2>2. \A d \in Checkers : d # k => pc[d] = "idle" /\ ~Busy(d)
      BY <1>4, OnlyOne DEF Advance
    <2>3. /\ todo' = [todo EXCEPT ![k] = @ \ {s}]
          /\ cur' = [cur EXCEPT ![k] = 0]
          /\ pc' = [pc EXCEPT ![k] = IF row[s] = "deleted" THEN "get" ELSE "fire"]
      BY <1>4 DEF Advance, LeaveSchedule
    <2>4. Exclusive' BY <1>4, <2>3 DEF Advance, OneRunInv, Exclusive, TypeOK
    <2>5. Busy(k) /\ \A d \in Checkers : Busy(d)' => d = k
      BY <1>4, <2>2, <2>3 DEF Advance, Busy, TypeOK
    <2>6. RunsOfPast'
      BY <1>4, <2>1, <2>5, SameRunsOf DEF Advance, OneRunInv, RunsOfPast
    <2>7. cur[k] \in DOMAIN runs /\ cur[k] \in RunsOf(s) /\ s \in Schedules
      BY <1>4, <1>a DEF Advance, RunsOf, TypeOK
    <2>8. TodoUnfired'
      <3> SUFFICES ASSUME NEW t \in todo'[k], NEW i \in RunsOf(t)
                   PROVE  runs[i].slot # seen[k][t].slot
        BY <1>4, <2>1, <2>5, SameRunsOf DEF Advance, TodoUnfired
      <3>1. t \in todo[k] /\ t # s BY <2>3 DEF TypeOK
      <3>2. i # cur[k] BY <3>1 DEF RunsOf
      <3> QED BY <2>5, <3>1, <3>2 DEF OneRunInv, TodoUnfired
    <2>9. DueUnfired'
      <3> SUFFICES ASSUME NEW t \in Schedules, nextRun'[t] = "due", row[t] # "deleted",
                          NEW i \in RunsOf(t), runs[i].slot = slot[t]
                   PROVE  FALSE
        BY <1>4, <2>1, SameRunsOf DEF Advance, DueUnfired
      <3>1. CASE t = s
        <4>1. slot[s] > seen[k][s].slot BY <1>4, <2>7, <3>1 DEF Advance, TypeOK
        <4>2. runs[i].slot <= seen[k][s].slot BY <2>5, <3>1 DEF OneRunInv, RunsOfPast
        <4> QED BY <1>a, <3>1, <4>1, <4>2 DEF RunsOf
      <3>2. CASE t # s
        <4>1. nextRun[t] = "due" BY <1>4, <2>7, <3>2 DEF Advance, TypeOK
        <4>2. PICK d \in Checkers : pc[d] \in {"created", "dispatched"} /\ cur[d] = i
          BY <4>1 DEF OneRunInv, DueUnfired
        <4>3. d = k BY <2>2, <4>2
        <4> QED BY <3>2, <4>2, <4>3 DEF RunsOf
      <3> QED BY <3>1, <3>2
    <2>10. SeenIsPast' BY <1>4, <2>5 DEF Advance, OneRunInv, SeenIsPast
    <2> QED BY <2>1, <2>4, <2>6, <2>8, <2>9, <2>10, SameRunsApart
  <1>5. CASE ReleaseGet(k) \/ ReleaseDelete(k)
    <2>1. SameRuns BY <1>5 DEF ReleaseGet, ReleaseDelete, SameRuns
    <2>2. pc[k] # "idle" BY <1>5 DEF ReleaseGet, ReleaseDelete
    <2>3. lock = k /\ \A d \in Checkers : d # k => pc[d] = "idle" /\ ~Busy(d)
      BY <2>2, OnlyOne
    <2>4. /\ pc' \in [Checkers -> {"delete", "idle"}]
          /\ \A d \in Checkers : d # k => pc'[d] = "idle"
          /\ lock' = IF pc'[k] = "idle" THEN Nobody ELSE k
      BY <1>5, <2>3 DEF ReleaseGet, ReleaseDelete, Return, TypeOK
    <2>5. Exclusive' BY <2>4, LockAssumption DEF Exclusive, Nobody, Dead
    <2>6. \A d \in Checkers : ~Busy(d)' BY <2>4 DEF Busy
    <2>7. pc[k] \notin {"created", "dispatched"} BY <1>5 DEF ReleaseGet, ReleaseDelete
    <2>8. RunsOfPast'
      BY <1>5, <2>1, <2>6, SameRunsOf
      DEF ReleaseGet, ReleaseDelete, rowVars, OneRunInv, RunsOfPast
    <2>9. TodoUnfired' BY <2>6 DEF TodoUnfired
    <2>10. \A d \in Checkers : pc[d] \notin {"created", "dispatched"} BY <2>3, <2>7
    <2>11. DueUnfired'
      BY <1>5, <2>1, <2>10, SameRunsOf
      DEF ReleaseGet, ReleaseDelete, rowVars, OneRunInv, DueUnfired
    <2>12. SeenIsPast' BY <2>6 DEF SeenIsPast
    <2> QED BY <2>1, <2>5, <2>8, <2>9, <2>11, <2>12, SameRunsApart
  <1>6. ASSUME NEW s \in Schedules, FindDeleted(k, s)
        PROVE  Exclusive' /\ RunsOfPast' /\ SeenIsPast' /\ TodoUnfired' /\ DueUnfired' /\ OneRunPerTime'
    <2>1. SameRuns BY <1>6 DEF FindDeleted, SameRuns
    <2>2. \A d \in Checkers : d # k => pc[d] = "idle" /\ ~Busy(d)
      BY <1>6, OnlyOne DEF FindDeleted
    <2>3. Exclusive' BY <1>6 DEF FindDeleted, OneRunInv, Exclusive, TypeOK
    <2>4. \A d \in Checkers : ~Busy(d)' BY <1>6, <2>2 DEF FindDeleted, Busy, TypeOK
    <2>5. \A d \in Checkers : pc[d] \notin {"created", "dispatched"}
      BY <1>6, <2>2 DEF FindDeleted
    <2>6. RunsOfPast' BY <1>6, <2>1, <2>4, SameRunsOf DEF FindDeleted, rowVars, OneRunInv, RunsOfPast
    <2>7. TodoUnfired' BY <2>4 DEF TodoUnfired
    <2>8. DueUnfired'
      BY <1>6, <2>1, <2>5, SameRunsOf DEF FindDeleted, rowVars, OneRunInv, DueUnfired
    <2>9. SeenIsPast' BY <2>4 DEF SeenIsPast
    <2> QED BY <2>1, <2>3, <2>6, <2>7, <2>8, <2>9, SameRunsApart
  <1>7. ASSUME NEW s \in Schedules, CreateRun(k, s)
        PROVE  Exclusive' /\ RunsOfPast' /\ SeenIsPast' /\ TodoUnfired' /\ DueUnfired' /\ OneRunPerTime'
    <2> DEFINE n == Len(runs) + 1
    <2>1. /\ DOMAIN runs' = DOMAIN runs \union {n} /\ n \notin DOMAIN runs
          /\ \A i \in DOMAIN runs : runs'[i] = runs[i]
          /\ runs'[n].sched = s /\ runs'[n].slot = seen[k][s].slot
      BY <1>7 DEF CreateRun, TypeOK
    <2>2. \A t : RunsOf(t)' = RunsOf(t) \union (IF t = s THEN {n} ELSE {})
      BY <2>1 DEF RunsOf
    <2>3. \A d \in Checkers : d # k => pc[d] = "idle" /\ ~Busy(d)
      BY <1>7, OnlyOne DEF CreateRun
    <2>4. Exclusive' BY <1>7 DEF CreateRun, OneRunInv, Exclusive, TypeOK
    <2>5. /\ Busy(k) /\ \A d \in Checkers : Busy(d)' => d = k
          /\ pc[k] = "fire" /\ s \in todo[k] /\ pc'[k] = "created" /\ cur'[k] = n
      BY <1>7, <2>3 DEF CreateRun, Busy, TypeOK
    <2>6. \A t \in todo[k] : \A i \in RunsOf(t) : runs[i].slot # seen[k][t].slot
      BY <2>5 DEF OneRunInv, TodoUnfired
    <2>7. seen[k][s].slot <= slot[s]
      BY <2>5 DEF OneRunInv, SeenIsPast
    <2>8. RunsOfPast'
      <3> SUFFICES ASSUME NEW t \in Schedules, NEW i \in RunsOf(t)'
                   PROVE  runs'[i].slot <= slot[t] /\ runs'[i].slot <= seen[k][t].slot
        BY <1>7, <2>5 DEF CreateRun, RunsOfPast, rowVars
      <3>1. CASE i \in RunsOf(t)
        BY <2>1, <2>5, <3>1 DEF RunsOf, OneRunInv, RunsOfPast
      <3>2. CASE i = n /\ t = s BY <1>a, <2>1, <2>7, <3>2
      <3> QED BY <2>2, <3>1, <3>2
    <2>9. TodoUnfired'
      <3> SUFFICES ASSUME NEW t \in todo[k], NEW i \in RunsOf(t)', runs'[i].slot = seen[k][t].slot
                   PROVE  i = n
        BY <1>7, <2>5 DEF CreateRun, TodoUnfired
      <3> QED BY <2>1, <2>2, <2>6 DEF RunsOf
    <2>10. DueUnfired'
      <3> SUFFICES ASSUME NEW t \in Schedules, nextRun[t] = "due", row[t] # "deleted",
                          NEW i \in RunsOf(t)', runs'[i].slot = slot[t]
                   PROVE  i = n
        BY <1>7, <2>5 DEF CreateRun, DueUnfired, rowVars
      <3> SUFFICES ASSUME i \in RunsOf(t) PROVE FALSE
        BY <2>2
      <3>1. PICK d \in Checkers : pc[d] \in {"created", "dispatched"} /\ cur[d] = i
        BY <2>1 DEF RunsOf, OneRunInv, DueUnfired
      <3> QED BY <2>3, <2>5, <3>1
    <2>11. OneRunPerTime'
      <3> SUFFICES ASSUME NEW i \in DOMAIN runs', NEW j \in DOMAIN runs', i # j,
                          runs'[i].sched = runs'[j].sched, runs'[i].slot = runs'[j].slot
                   PROVE  FALSE
        BY DEF OneRunPerTime
      <3>1. CASE i \in DOMAIN runs /\ j \in DOMAIN runs BY <2>1, <3>1 DEF OneRunPerTime
      <3>2. CASE i = n BY <2>1, <2>5, <2>6, <3>2 DEF RunsOf
      <3>3. CASE j = n BY <2>1, <2>5, <2>6, <3>3 DEF RunsOf
      <3> QED BY <2>1, <3>1, <3>2, <3>3
    <2>12. SeenIsPast' BY <1>7, <2>5 DEF CreateRun, OneRunInv, SeenIsPast, rowVars
    <2> QED BY <2>4, <2>8, <2>9, <2>10, <2>11, <2>12
  <1> QED BY <1>1, <1>2, <1>3, <1>4, <1>5, <1>6, <1>7 DEF Check

LEMMA OneRunStep ==
    TypeOK /\ OneRunInv /\ OneRunPerTime /\ [Next]_vars => OneRunInv' /\ OneRunPerTime'
  <1> SUFFICES ASSUME TypeOK, OneRunInv, OneRunPerTime, [Next]_vars
               PROVE  OneRunInv' /\ OneRunPerTime'
    OBVIOUS
  <1> SUFFICES ASSUME faults' = 0
               PROVE  /\ Exclusive' /\ RunsOfPast' /\ SeenIsPast' /\ TodoUnfired' /\ DueUnfired'
                      /\ OneRunPerTime'
    BY DEF OneRunInv, OneRunPerTime
  <1>a. ~Fault BY DEF Fault, TypeOK
  <1>1. ASSUME NEW s \in Schedules, Edit(s) \/ Time(s)
        PROVE  /\ Exclusive' /\ RunsOfPast' /\ SeenIsPast' /\ TodoUnfired' /\ DueUnfired' /\ OneRunPerTime'
    <2>1. RowStep BY <1>1, RowsStep
    <2>2. faults = 0 BY <1>1 DEF Edit, Time, CreateSchedule, PauseSchedule, ResumeSchedule,
             DeleteSchedule, BlockDownstream, BecomesDue, HourPasses
    <2>3. SameRuns BY <2>1 DEF RowStep, SameRuns
    <2> QED BY <2>1, <2>2, <2>3, RowStepKeeps, SameRunsApart
  <1>2. ASSUME NEW k \in Checkers, Check(k)
        PROVE  /\ Exclusive' /\ RunsOfPast' /\ SeenIsPast' /\ TodoUnfired' /\ DueUnfired' /\ OneRunPerTime'
    <2>1. faults = 0 BY <1>2 DEF Check, Acquire, Query, CreateRun, FindDeleted, Dispatch, Advance,
             ReleaseGet, ReleaseDelete
    <2> QED BY <1>2, <2>1, CheckKeeps
  <1>3. \A k \in Checkers : ~DispatchFails(k) /\ ~CheckFails(k) /\ ~Crash(k)
    BY <1>a DEF DispatchFails, CheckFails, Crash
  <1>4. ~LockExpires
    <2> SUFFICES ASSUME LockExpires PROVE FALSE
      OBVIOUS
    <2>1. lock = Dead /\ faults = 0 BY <1>a DEF LockExpires
    <2> QED BY <2>1 DEF OneRunInv, Exclusive
  <1>5. ASSUME \/ \E i \in DOMAIN runs : RunEnds(i) \/ RunEndsUnrecorded(i)
               \/ UNCHANGED vars
        PROVE  /\ Exclusive' /\ RunsOfPast' /\ SeenIsPast' /\ TodoUnfired' /\ DueUnfired' /\ OneRunPerTime'
    <2>1. SameRuns BY <1>5, RunsAreSame DEF vars
    <2>2. UNCHANGED <<rowVars, checkVars, faults>>
      BY <1>5 DEF RunEnds, RunEndsUnrecorded, vars
    <2> USE DEF rowVars, checkVars
    <2>3. \A k : Busy(k)' <=> Busy(k) BY <2>2 DEF Busy
    <2>4. Exclusive' BY <2>2 DEF OneRunInv, Exclusive
    <2>5. RunsOfPast' BY <2>1, <2>2, <2>3, SameRunsOf DEF OneRunInv, RunsOfPast
    <2>6. TodoUnfired' BY <2>1, <2>2, <2>3, SameRunsOf DEF OneRunInv, TodoUnfired
    <2>7. DueUnfired' BY <2>1, <2>2, SameRunsOf DEF OneRunInv, DueUnfired
    <2>8. OneRunPerTime' BY <2>1, <2>2, SameRunsApart
    <2>9. SeenIsPast' BY <2>2, <2>3 DEF OneRunInv, SeenIsPast
    <2> QED BY <2>4, <2>5, <2>6, <2>7, <2>8, <2>9
  <1> QED BY <1>1, <1>2, <1>3, <1>4, <1>5 DEF Next

\* As long as nothing fails, each time of each schedule leads to one run: for any
\* number of schedules, of workers that execute the check and of times.
THEOREM OneRunPerTimeHolds == Spec => []OneRunPerTime
  <1>1. Init => TypeOK /\ OneRunInv /\ OneRunPerTime BY TypeInit, OneRunInit
  <1>2. TypeOK /\ OneRunInv /\ OneRunPerTime /\ [Next]_vars
          => TypeOK' /\ OneRunInv' /\ OneRunPerTime'
    BY TypeStep, OneRunStep
  <1> QED BY <1>1, <1>2, PTL DEF Spec

-----------------------------------------------------------------------------
(* Dispatches and faults.  A time of a schedule can be dispatched by the     *)
(* checks that have lost the lock (strays) and once more by all the others  *)
(* together: by the holder of the lock, or by a check to come.  Dispatches, *)
(* strays and this chance together are no more than one and the faults.     *)

\* What a check has in hand is what it read and still has to leave.
InHand(k) ==
    /\ Busy(k) => \A s \in Schedules : seen[k][s].slot <= slot[s]
    /\ pc[k] \in {"created", "dispatched"} =>
         /\ runs[cur[k]].sched \in todo[k]
         /\ runs[cur[k]].slot = seen[k][runs[cur[k]].sched].slot

ChecksInv == \A k \in Checkers : InHand(k) /\ (lock = k => pc[k] # "idle")

\* The check k has dispatched time n of s and not advanced s yet.
Handled(k, s, n) == pc[k] = "dispatched" /\ runs[cur[k]].sched = s /\ seen[k][s].slot = n

\* The check k may still dispatch time n of s, or make it due again: Advance sets a
\* schedule due that became due since the query.
May(k, s, n) == Busy(k) /\ s \in todo[k] /\ seen[k][s].slot <= n /\ ~Handled(k, s, n)

\* A stray counts before its query, and when it is about to delete a lock that
\* is not its own, which makes another check a stray.
Counts(k, s, n) == pc[k] \in {"query", "delete"} \/ May(k, s, n)
Strays(s, n) == {k \in Checkers : lock # k /\ Counts(k, s, n)}

Chance(s, n) ==
    \/ slot[s] < n
    \/ /\ slot[s] = n /\ nextRun[s] = "due" /\ row[s] # "deleted"
       /\ ~(lock \in Checkers /\ Handled(lock, s, n))
    \/ lock \in Checkers /\ May(lock, s, n)
ChanceOf(s, n) == IF Chance(s, n) THEN 1 ELSE 0

FiresInv ==
    \A s \in Schedules : \A n \in 1..MaxSlots :
        /\ IsFiniteSet(Strays(s, n))
        /\ Cardinality(Fired(s, n)) + Cardinality(Strays(s, n)) + ChanceOf(s, n) <= 1 + faults

KeepsRuns ==
    \A i \in DOMAIN runs : /\ i \in DOMAIN runs'
                           /\ runs'[i].sched = runs[i].sched /\ runs'[i].slot = runs[i].slot

SameCheck(k) == UNCHANGED <<pc[k], todo[k], seen[k], cur[k]>>

LEMMA RunInHand ==
    ASSUME TypeOK, NEW k \in Checkers, pc[k] \in {"created", "dispatched"}
    PROVE  cur[k] \in DOMAIN runs /\ runs[cur[k]] \in Run /\ runs[cur[k]].sched \in Schedules
  <1>1. cur[k] \in DOMAIN runs BY DEF TypeOK
  <1>2. runs[cur[k]] \in Run BY <1>1 DEF TypeOK
  <1> QED BY <1>1, <1>2 DEF Run

LEMMA KeepsInHand ==
    ASSUME TypeOK, KeepsRuns, NEW k \in Checkers, SameCheck(k), InHand(k), TypeOK',
           \A s \in Schedules : slot[s] <= slot'[s]
    PROVE  InHand(k)'
  <1>1. ASSUME pc[k] \in {"created", "dispatched"}
        PROVE  runs'[cur[k]].sched = runs[cur[k]].sched /\ runs'[cur[k]].slot = runs[cur[k]].slot
    BY <1>1, RunInHand DEF KeepsRuns
  <1>2. ASSUME Busy(k), NEW s \in Schedules PROVE seen[k][s].slot <= slot'[s]
    <2>1. seen[k][s].slot \in Nat /\ slot[s] \in Nat BY RunNumbers
    <2>2. slot'[s] \in Nat BY SchedulerAssumption DEF TypeOK
    <2> QED BY <1>2, <2>1, <2>2 DEF InHand
  <1> QED BY <1>1, <1>2 DEF InHand, SameCheck, Busy

\* A check that is not touched may do what it could.
LEMMA KeepsMay ==
    ASSUME TypeOK, KeepsRuns, NEW k \in Checkers, SameCheck(k)
    PROVE  \A s, n : /\ Handled(k, s, n)' <=> Handled(k, s, n)
                     /\ May(k, s, n)' <=> May(k, s, n)
                     /\ Counts(k, s, n)' <=> Counts(k, s, n)
  <1>1. ASSUME pc[k] = "dispatched" PROVE runs'[cur[k]].sched = runs[cur[k]].sched
    BY <1>1, RunInHand DEF KeepsRuns
  <1>2. \A s, n : Handled(k, s, n)' <=> Handled(k, s, n)
    BY <1>1 DEF Handled, SameCheck
  <1>3. Busy(k)' <=> Busy(k) BY DEF Busy, SameCheck
  <1>4. \A s, n : May(k, s, n)' <=> May(k, s, n)
    BY <1>2, <1>3 DEF May, SameCheck
  <1> QED BY <1>2, <1>4 DEF Counts, SameCheck

LEMMA ReturnEffect ==
    ASSUME TypeOK, NEW k \in Checkers, Return(k)
    PROVE  pc'[k] = "idle" /\ \A d \in Checkers : d # k => SameCheck(d)
  BY DEF TypeOK, Return, SameCheck

LEMMA LeaveEffect ==
    ASSUME TypeOK, NEW k \in Checkers, NEW s \in Schedules, LeaveSchedule(k, s), UNCHANGED seen
    PROVE  /\ pc'[k] \in {"get", "fire"} /\ todo'[k] = todo[k] \ {s}
           /\ \A d \in Checkers : d # k => SameCheck(d)
  BY DEF TypeOK, LeaveSchedule, SameCheck

LEMMA RunsKept == TypeOK /\ [Next]_vars => KeepsRuns
  <1> SUFFICES ASSUME TypeOK, [Next]_vars PROVE KeepsRuns
    OBVIOUS
  <1>1. CASE \E k \in Checkers : \E s \in Schedules : CreateRun(k, s)
    BY <1>1 DEF CreateRun, TypeOK, KeepsRuns
  <1>2. CASE \/ UNCHANGED runs
             \/ \E k \in Checkers : Dispatch(k) \/ Advance(k)
             \/ \E i \in DOMAIN runs : RunEnds(i) \/ RunEndsUnrecorded(i)
    BY <1>2, RunsAreSame DEF SameRuns, KeepsRuns
  <1>3. \/ UNCHANGED runs
        \/ \E k \in Checkers : Dispatch(k) \/ Advance(k) \/ \E s \in Schedules : CreateRun(k, s)
        \/ \E i \in DOMAIN runs : RunEnds(i) \/ RunEndsUnrecorded(i)
    BY DEF Next, Edit, Time, Check, CreateSchedule, PauseSchedule, ResumeSchedule, DeleteSchedule,
           BlockDownstream, BecomesDue, HourPasses, Acquire, Query, FindDeleted, ReleaseGet,
           ReleaseDelete, Return, DispatchFails, CheckFails, Crash, LockExpires, vars
  <1> QED BY <1>1, <1>2, <1>3

LEMMA ChecksStep == TypeOK /\ ChecksInv /\ [Next]_vars => ChecksInv'
  <1> SUFFICES ASSUME TypeOK, ChecksInv, [Next]_vars PROVE ChecksInv'
    OBVIOUS
  <1>a. KeepsRuns /\ TypeOK' BY RunsKept, TypeStep
  <1>b. ASSUME NEW k \in Checkers, InHand(k)', \A d \in Checkers : d # k => SameCheck(d),
               UNCHANGED slot, lock' = k => pc'[k] # "idle", \A d \in Checkers : d # k /\ lock' = d => lock = d
        PROVE  ChecksInv'
    <2>1. \A s \in Schedules : slot[s] <= slot'[s] BY <1>b, RunNumbers
    <2>2. \A d \in Checkers : d # k => InHand(d)' BY <1>a, <1>b, <2>1, KeepsInHand DEF ChecksInv
    <2> QED BY <1>b, <2>2 DEF ChecksInv, SameCheck
  <1>1. ASSUME NEW s \in Schedules, Edit(s) \/ Time(s) PROVE ChecksInv'
    <2>1. RowStep BY <1>1, RowsStep
    <2>2. \A t \in Schedules : slot[t] <= slot'[t] BY <2>1, RunNumbers DEF RowStep
    <2>3. \A d \in Checkers : SameCheck(d) BY <2>1 DEF RowStep, checkVars, SameCheck
    <2>4. \A d \in Checkers : InHand(d)' BY <1>a, <2>2, <2>3, KeepsInHand DEF ChecksInv
    <2> QED BY <2>1, <2>4 DEF ChecksInv, RowStep, checkVars
  <1>2. ASSUME \/ \E i \in DOMAIN runs : RunEnds(i) \/ RunEndsUnrecorded(i)
               \/ UNCHANGED vars
               \/ LockExpires
        PROVE  ChecksInv'
    <2>1. UNCHANGED <<slot, pc, todo, seen, cur>> /\ lock' \in {lock, Nobody}
      BY <1>2 DEF RunEnds, RunEndsUnrecorded, LockExpires, rowVars, checkVars, vars
    <2>2. \A d \in Checkers : SameCheck(d) BY <2>1 DEF SameCheck
    <2>3. \A t \in Schedules : slot[t] <= slot'[t] BY <2>1, RunNumbers
    <2>4. \A d \in Checkers : InHand(d)' BY <1>a, <2>2, <2>3, KeepsInHand DEF ChecksInv
    <2> QED BY <2>1, <2>4, LockAssumption DEF ChecksInv
  <1>3. ASSUME NEW k \in Checkers, Acquire(k) \/ CheckFails(k) \/ \E s \in Schedules : FindDeleted(k, s)
        PROVE  ChecksInv'
    <2>1. pc'[k] \in {"query", "get"} /\ UNCHANGED slot /\ lock' \in {lock, k} /\ \A d \in Checkers : d # k => SameCheck(d)
      BY <1>3 DEF Acquire, CheckFails, FindDeleted, TypeOK, SameCheck, rowVars
    <2>2. InHand(k)' BY <2>1 DEF InHand, Busy
    <2> QED BY <1>b, <2>1, <2>2
  <1>4. ASSUME NEW k \in Checkers, Query(k) PROVE ChecksInv'
    <2>1. /\ pc'[k] = "fire" /\ UNCHANGED <<slot, lock>> /\ \A d \in Checkers : d # k => SameCheck(d)
          /\ \A s \in Schedules : seen'[k][s].slot = slot[s]
      BY <1>4 DEF Query, TypeOK, SameCheck, rowVars
    <2>2. InHand(k)' BY <2>1, RunNumbers DEF InHand
    <2> QED BY <1>b, <2>1, <2>2
  <1>5. ASSUME NEW k \in Checkers, NEW s \in Schedules, CreateRun(k, s) PROVE ChecksInv'
    <2>1. /\ pc[k] = "fire" /\ pc'[k] = "created" /\ s \in todo[k]
          /\ UNCHANGED <<slot, lock, todo, seen>> /\ \A d \in Checkers : d # k => SameCheck(d)
      BY <1>5 DEF CreateRun, TypeOK, SameCheck, rowVars
    <2>2. runs'[cur'[k]].sched = s /\ runs'[cur'[k]].slot = seen[k][s].slot
      BY <1>5 DEF CreateRun, TypeOK
    <2>3. InHand(k)' BY <2>1, <2>2 DEF ChecksInv, InHand, Busy
    <2> QED BY <1>b, <2>1, <2>3
  <1>6. ASSUME NEW k \in Checkers, Dispatch(k) PROVE ChecksInv'
    <2>1. /\ pc[k] = "created" /\ pc'[k] = "dispatched"
          /\ UNCHANGED <<slot, lock, todo, seen, cur>> /\ \A d \in Checkers : d # k => SameCheck(d)
      BY <1>6 DEF Dispatch, TypeOK, SameCheck, rowVars
    <2>2. runs'[cur[k]].sched = runs[cur[k]].sched /\ runs'[cur[k]].slot = runs[cur[k]].slot
      BY <1>a, <2>1, RunInHand DEF KeepsRuns
    <2>3. InHand(k)' BY <2>1, <2>2 DEF ChecksInv, InHand, Busy
    <2> QED BY <1>b, <2>1, <2>3
  <1>7. ASSUME NEW k \in Checkers, DispatchFails(k) \/ Advance(k) PROVE ChecksInv'
    <2>1. pc[k] \in {"created", "dispatched"} /\ LeaveSchedule(k, runs[cur[k]].sched) /\ UNCHANGED <<slot, lock, seen>>
      BY <1>7 DEF DispatchFails, Advance, rowVars
    <2>2. /\ pc'[k] \in {"get", "fire"} /\ \A d \in Checkers : d # k => SameCheck(d)
      BY <2>1, RunInHand, LeaveEffect
    <2>3. InHand(k)' BY <2>1, <2>2 DEF ChecksInv, InHand, Busy
    <2> QED BY <1>b, <2>1, <2>2, <2>3
  <1>8. ASSUME NEW k \in Checkers, ReleaseGet(k) \/ ReleaseDelete(k) \/ Crash(k) PROVE ChecksInv'
    <2>1. CASE ReleaseGet(k) /\ lock = k
      <3>1. pc'[k] = "delete" /\ UNCHANGED <<slot, lock>> /\ \A d \in Checkers : d # k => SameCheck(d)
        BY <2>1 DEF ReleaseGet, TypeOK, SameCheck, rowVars
      <3>2. InHand(k)' BY <3>1 DEF InHand, Busy
      <3> QED BY <1>b, <3>1, <3>2
    <2>2. CASE ~(ReleaseGet(k) /\ lock = k)
      <3>1. Return(k) /\ UNCHANGED slot /\ lock' \in {lock, Nobody, Dead} /\ lock' # k
        BY <1>8, <2>2, LockAssumption DEF ReleaseGet, ReleaseDelete, Crash, rowVars
      <3>2. pc'[k] = "idle" /\ \A d \in Checkers : d # k => SameCheck(d) BY <3>1, ReturnEffect
      <3>3. InHand(k)' BY <3>2 DEF InHand, Busy
      <3> QED BY <1>b, <3>1, <3>2, <3>3, LockAssumption
    <2> QED BY <2>1, <2>2
  <1> QED BY <1>1, <1>2, <1>3, <1>4, <1>5, <1>6, <1>7, <1>8 DEF Next, Check

\* How a step pays for what it adds.
Quiet(s, n) ==
    /\ Fired(s, n)' = Fired(s, n) /\ Strays(s, n)' \subseteq Strays(s, n)
    /\ Chance(s, n)' => Chance(s, n)
    /\ faults' >= faults
FaultPays(s, n) ==
    /\ Fired(s, n)' = Fired(s, n) /\ faults' = faults + 1
    /\ \/ Strays(s, n)' \subseteq Strays(s, n)
       \/ /\ Chance(s, n)' => Chance(s, n)
          /\ \E k : Strays(s, n)' \subseteq Strays(s, n) \union {k}
StrayPays(s, n) ==
    /\ faults' = faults
    /\ \E k \in Strays(s, n) :
          \/ /\ Fired(s, n)' = Fired(s, n) /\ Strays(s, n)' \subseteq Strays(s, n) \ {k}
          \/ /\ Fired(s, n)' = Fired(s, n) /\ (Chance(s, n)' => Chance(s, n))
             /\ \E j : Strays(s, n)' \subseteq (Strays(s, n) \ {k}) \union {j}
          \/ /\ Chance(s, n)' => Chance(s, n)
             /\ Strays(s, n)' \subseteq Strays(s, n) \ {k}
             /\ \E i : Fired(s, n)' \subseteq Fired(s, n) \union {i}
ChancePays(s, n) ==
    /\ faults' = faults
    /\ Chance(s, n) /\ ~Chance(s, n)'
    /\ Strays(s, n)' \subseteq Strays(s, n)
    /\ \E i : Fired(s, n)' \subseteq Fired(s, n) \union {i}
Paid(s, n) == Quiet(s, n) \/ FaultPays(s, n) \/ StrayPays(s, n) \/ ChancePays(s, n)

\* The size of a set that shrank, lost a member, gained one, or exchanged one.
LEMMA SizeOfSubset ==
    ASSUME NEW S, IsFiniteSet(S), NEW T, T \subseteq S
    PROVE  IsFiniteSet(T) /\ Cardinality(T) \in Nat /\ Cardinality(S) \in Nat /\ Cardinality(T) <= Cardinality(S)
  BY FS_Subset, FS_CardinalityType

LEMMA SizeOfLess ==
    ASSUME NEW S, IsFiniteSet(S), NEW k \in S, NEW T, T \subseteq S \ {k}
    PROVE  IsFiniteSet(T) /\ Cardinality(T) \in Nat /\ Cardinality(S) \in Nat /\ Cardinality(T) + 1 <= Cardinality(S)
  <1>1. IsFiniteSet(S \ {k}) /\ Cardinality(S \ {k}) = Cardinality(S) - 1 BY FS_RemoveElement
  <1>2. IsFiniteSet(T) /\ Cardinality(T) \in Nat /\ Cardinality(T) <= Cardinality(S \ {k}) BY <1>1, SizeOfSubset
  <1>3. Cardinality(S) \in Nat BY FS_CardinalityType
  <1> QED BY <1>1, <1>2, <1>3

LEMMA SizeOfMore ==
    ASSUME NEW S, IsFiniteSet(S), NEW j, NEW T, T \subseteq S \union {j}
    PROVE  IsFiniteSet(T) /\ Cardinality(T) \in Nat /\ Cardinality(S) \in Nat /\ Cardinality(T) <= Cardinality(S) + 1
  <1>1. /\ IsFiniteSet(S \union {j})
        /\ Cardinality(S \union {j}) = Cardinality(S) \/ Cardinality(S \union {j}) = Cardinality(S) + 1
    BY FS_AddElement
  <1>2. IsFiniteSet(T) /\ Cardinality(T) \in Nat /\ Cardinality(T) <= Cardinality(S \union {j})
    BY <1>1, SizeOfSubset
  <1>3. Cardinality(S) \in Nat BY FS_CardinalityType
  <1> QED BY <1>1, <1>2, <1>3

LEMMA SizeOfExchange ==
    ASSUME NEW S, IsFiniteSet(S), NEW k \in S, NEW j, NEW T, T \subseteq (S \ {k}) \union {j}
    PROVE  IsFiniteSet(T) /\ Cardinality(T) \in Nat /\ Cardinality(S) \in Nat /\ Cardinality(T) <= Cardinality(S)
  <1>1. /\ IsFiniteSet(S \ {k}) /\ Cardinality(S \ {k}) \in Nat /\ Cardinality(S) \in Nat
        /\ Cardinality(S \ {k}) + 1 <= Cardinality(S)
    BY SizeOfLess
  <1>2. IsFiniteSet(T) /\ Cardinality(T) \in Nat /\ Cardinality(T) <= Cardinality(S \ {k}) + 1
    <2> DEFINE R == S \ {k}
    <2>1. IsFiniteSet(R) /\ T \subseteq R \union {j} BY <1>1
    <2> HIDE DEF R
    <2>2. IsFiniteSet(T) /\ Cardinality(T) \in Nat /\ Cardinality(T) <= Cardinality(R) + 1 BY <2>1, SizeOfMore
    <2> QED BY <2>2 DEF R
  <1> QED BY <1>1, <1>2

LEMMA FiredFinite == TypeOK => \A s, n : IsFiniteSet(Fired(s, n))
  <1> SUFFICES ASSUME TypeOK, NEW s, NEW n PROVE IsFiniteSet(Fired(s, n))
    OBVIOUS
  <1>1. DOMAIN runs = 1..Len(runs) /\ Len(runs) \in Nat BY DEF TypeOK
  <1>2. IsFiniteSet(DOMAIN runs) BY <1>1, FS_Interval
  <1>3. Fired(s, n) \subseteq DOMAIN runs BY DEF Fired
  <1> QED BY <1>2, <1>3, FS_Subset

LEMMA PaidKeeps ==
    ASSUME TypeOK, TypeOK', FiresInv, NEW s \in Schedules, NEW n \in 1..MaxSlots, Paid(s, n)
    PROVE  /\ IsFiniteSet(Strays(s, n)')
           /\ Cardinality(Fired(s, n)') + Cardinality(Strays(s, n)') + ChanceOf(s, n)' <= 1 + faults'
  <1> DEFINE S == Strays(s, n)
             T == Strays(s, n)'
             F == Fired(s, n)
             G == Fired(s, n)'
             c == ChanceOf(s, n)
             d == ChanceOf(s, n)'
  <1>1. /\ IsFiniteSet(S) /\ IsFiniteSet(F) /\ Cardinality(F) \in Nat
        /\ Cardinality(F) + Cardinality(S) + c <= 1 + faults
    BY FiredFinite, FS_CardinalityType DEF FiresInv
  <1>2. /\ c \in {0, 1} /\ d \in {0, 1} /\ (Chance(s, n) <=> c = 1) /\ (Chance(s, n)' <=> d = 1)
    BY DEF ChanceOf
  <1>3. faults \in Nat /\ faults' \in Nat BY SchedulerAssumption DEF TypeOK
  <1>4. \/ G = F /\ T \subseteq S /\ (d = 1 => c = 1) /\ faults' >= faults
        \/ G = F /\ faults' = faults + 1 /\ T \subseteq S
        \/ G = F /\ faults' = faults + 1 /\ (d = 1 => c = 1) /\ \E k : T \subseteq S \union {k}
        \/ faults' = faults /\ G = F /\ \E k \in S : T \subseteq S \ {k}
        \/ /\ faults' = faults /\ G = F /\ (d = 1 => c = 1)
           /\ \E k \in S : \E j : T \subseteq (S \ {k}) \union {j}
        \/ /\ faults' = faults /\ (d = 1 => c = 1)
           /\ \E k \in S : T \subseteq S \ {k}
           /\ \E i : G \subseteq F \union {i}
        \/ faults' = faults /\ c = 1 /\ d # 1 /\ T \subseteq S /\ \E i : G \subseteq F \union {i}
    BY <1>2 DEF Paid, Quiet, FaultPays, StrayPays, ChancePays
  <1> HIDE DEF S, T, F, G, c, d
  <1> SUFFICES IsFiniteSet(T) /\ Cardinality(G) + Cardinality(T) + d <= 1 + faults'
    BY DEF T, G, d
  <1>5. CASE G = F /\ T \subseteq S /\ (((d = 1 => c = 1) /\ faults' >= faults) \/ faults' = faults + 1)
    <2>1. IsFiniteSet(T) /\ Cardinality(T) \in Nat /\ Cardinality(S) \in Nat /\ Cardinality(T) <= Cardinality(S)
      BY <1>1, <1>5, SizeOfSubset
    <2> QED BY <1>1, <1>2, <1>3, <1>5, <2>1
  <1>6. CASE G = F /\ faults' = faults + 1 /\ (d = 1 => c = 1) /\ \E k : T \subseteq S \union {k}
    <2>1. IsFiniteSet(T) /\ Cardinality(T) \in Nat /\ Cardinality(S) \in Nat /\ Cardinality(T) <= Cardinality(S) + 1
      BY <1>1, <1>6, SizeOfMore
    <2> QED BY <1>1, <1>2, <1>3, <1>6, <2>1
  <1>7. CASE faults' = faults /\ G = F /\ \E k \in S : T \subseteq S \ {k}
    <2>1. IsFiniteSet(T) /\ Cardinality(T) \in Nat /\ Cardinality(S) \in Nat /\ Cardinality(T) + 1 <= Cardinality(S)
      BY <1>1, <1>7, SizeOfLess
    <2> QED BY <1>1, <1>2, <1>3, <1>7, <2>1
  <1>8. CASE /\ faults' = faults /\ G = F /\ (d = 1 => c = 1)
             /\ \E k \in S : \E j : T \subseteq (S \ {k}) \union {j}
    <2>1. IsFiniteSet(T) /\ Cardinality(T) \in Nat /\ Cardinality(S) \in Nat /\ Cardinality(T) <= Cardinality(S)
      BY <1>1, <1>8, SizeOfExchange
    <2> QED BY <1>1, <1>2, <1>3, <1>8, <2>1
  <1>9. CASE /\ faults' = faults /\ (d = 1 => c = 1)
             /\ \E k \in S : T \subseteq S \ {k}
             /\ \E i : G \subseteq F \union {i}
    <2>1. IsFiniteSet(T) /\ Cardinality(T) \in Nat /\ Cardinality(S) \in Nat /\ Cardinality(T) + 1 <= Cardinality(S)
      BY <1>1, <1>9, SizeOfLess
    <2>2. Cardinality(G) \in Nat /\ Cardinality(G) <= Cardinality(F) + 1 BY <1>1, <1>9, SizeOfMore
    <2> QED BY <1>1, <1>2, <1>3, <1>9, <2>1, <2>2
  <1>10. CASE faults' = faults /\ c = 1 /\ d # 1 /\ T \subseteq S /\ \E i : G \subseteq F \union {i}
    <2>1. IsFiniteSet(T) /\ Cardinality(T) \in Nat /\ Cardinality(S) \in Nat /\ Cardinality(T) <= Cardinality(S)
      BY <1>1, <1>10, SizeOfSubset
    <2>2. Cardinality(G) \in Nat /\ Cardinality(G) <= Cardinality(F) + 1 BY <1>1, <1>10, SizeOfMore
    <2> QED BY <1>1, <1>2, <1>3, <1>10, <2>1, <2>2
  <1> QED BY <1>4, <1>5, <1>6, <1>7, <1>8, <1>9, <1>10

\* A step that changes no state of a run from or to "created".
LEMMA FiredKept ==
    ASSUME SameRuns, \A i \in DOMAIN runs : runs'[i].state = "created" <=> runs[i].state = "created"
    PROVE  \A s, n : Fired(s, n)' = Fired(s, n)
  BY DEF SameRuns, Fired

LEMMA FiredUnchanged == UNCHANGED runs => \A s, n : Fired(s, n)' = Fired(s, n)
  BY DEF Fired

\* The check k moves on with the lock and the schedules as they are.
LEMMA CheckMoves ==
    ASSUME TypeOK, KeepsRuns, UNCHANGED <<rowVars, lock>>, NEW k \in Checkers,
           \A d \in Checkers : d # k => SameCheck(d),
           NEW s \in Schedules, NEW n \in 1..MaxSlots,
           Fired(s, n)' = Fired(s, n), faults' = faults,
           Counts(k, s, n)' => Counts(k, s, n) \/ lock = k,
           lock = k /\ May(k, s, n)' => Chance(s, n),
           lock = k /\ Handled(k, s, n) => Handled(k, s, n)'
    PROVE  Quiet(s, n)
  <1>1. \A d \in Checkers : d # k =>
           /\ Handled(d, s, n)' <=> Handled(d, s, n)
           /\ May(d, s, n)' <=> May(d, s, n)
           /\ Counts(d, s, n)' <=> Counts(d, s, n)
    BY KeepsMay
  <1>2. Strays(s, n)' \subseteq Strays(s, n) BY <1>1 DEF Strays
  <1>3. Chance(s, n)' => Chance(s, n) BY <1>1 DEF Chance, rowVars
  <1>4. faults \in Nat BY SchedulerAssumption DEF TypeOK
  <1> QED BY <1>2, <1>3, <1>4 DEF Quiet

\* The holder j loses the lock while it is at work: it is a stray now, or there is
\* a new chance, not both.
LEMMA LockIsLost ==
    ASSUME TypeOK, KeepsRuns, UNCHANGED rowVars, lock' = Nobody, NEW C, C \subseteq Checkers,
           \A d \in C : SameCheck(d), lock \in C,
           NEW s \in Schedules, NEW n \in 1..MaxSlots
    PROVE  \/ \A d \in C : d \in Strays(s, n)' => d \in Strays(s, n)
           \/ /\ Chance(s, n)' => Chance(s, n)
              /\ \A d \in C : d \in Strays(s, n)' => d \in Strays(s, n) \/ d = lock
  <1>0. \A d \in C : d \in Checkers OBVIOUS
  <1>1. \A d \in C : /\ Handled(d, s, n)' <=> Handled(d, s, n)
                     /\ May(d, s, n)' <=> May(d, s, n)
                     /\ Counts(d, s, n)' <=> Counts(d, s, n)
    BY <1>0, KeepsMay
  <1>2. \A d \in C : d \in Strays(s, n)' => d \in Strays(s, n) \/ d = lock BY <1>1 DEF Strays
  <1>3. CASE Handled(lock, s, n)
    <2>1. ~Counts(lock, s, n) BY <1>3 DEF Counts, May, Handled
    <2> QED BY <1>1, <1>2, <2>1 DEF Strays
  <1>4. CASE ~Handled(lock, s, n)
    <2>1. Chance(s, n)' => Chance(s, n) BY <1>0, <1>4, LockAssumption DEF Chance, rowVars
    <2> QED BY <1>2, <2>1
  <1> QED BY <1>3, <1>4

LEMMA RowStepPaid ==
    ASSUME TypeOK, KeepsRuns, RowStep, faults' = faults, NEW s \in Schedules, NEW n \in 1..MaxSlots
    PROVE  Quiet(s, n)
  <1>1. \A d \in Checkers : SameCheck(d) BY DEF RowStep, checkVars, SameCheck
  <1>2. \A d \in Checkers : /\ Handled(d, s, n)' <=> Handled(d, s, n)
                            /\ May(d, s, n)' <=> May(d, s, n)
                            /\ Counts(d, s, n)' <=> Counts(d, s, n)
    BY <1>1, KeepsMay
  <1>3. lock' = lock /\ runs' = runs BY DEF RowStep, checkVars
  <1>4. Fired(s, n)' = Fired(s, n) BY <1>3, FiredUnchanged
  <1>5. Strays(s, n)' \subseteq Strays(s, n) BY <1>2, <1>3 DEF Strays
  <1>6. Chance(s, n)' => Chance(s, n)
    <2>1. slot[s] \in Nat /\ n \in Nat BY RunNumbers
    <2>2. slot'[s] < n => slot[s] < n BY <2>1 DEF RowStep
    <2>3. ASSUME slot'[s] = n, nextRun'[s] = "due", row'[s] # "deleted"
          PROVE  slot[s] < n \/ (slot[s] = n /\ nextRun[s] = "due" /\ row[s] # "deleted")
      BY <2>1, <2>3 DEF RowStep
    <2> QED BY <1>2, <1>3, <2>2, <2>3 DEF Chance
  <1>7. faults \in Nat BY SchedulerAssumption DEF TypeOK
  <1> QED BY <1>4, <1>5, <1>6, <1>7 DEF Quiet

LEMMA DispatchPaid ==
    ASSUME TypeOK, ChecksInv, KeepsRuns, NEW k \in Checkers, Dispatch(k), NEW s \in Schedules, NEW n \in 1..MaxSlots
    PROVE  Paid(s, n)
  <1>1. /\ pc[k] = "created" /\ pc'[k] = "dispatched" /\ UNCHANGED <<rowVars, lock, todo, seen, cur, faults>>
        /\ \A d \in Checkers : d # k => SameCheck(d)
    BY DEF Dispatch, TypeOK, SameCheck
  <1>2. /\ cur[k] \in DOMAIN runs /\ runs[cur[k]].sched \in Schedules
        /\ runs'[cur[k]].sched = runs[cur[k]].sched
    BY <1>1, RunInHand DEF KeepsRuns
  <1>3. /\ runs[cur[k]].sched \in todo[k] /\ runs[cur[k]].slot = seen[k][runs[cur[k]].sched].slot
        /\ \A t \in Schedules : seen[k][t].slot <= slot[t]
    BY <1>1 DEF ChecksInv, InHand, Busy
  <1>4. SameRuns BY RunsAreSame
  <1>5. \A i \in DOMAIN runs : i # cur[k] => runs'[i] = runs[i] BY <1>2 DEF Dispatch, TypeOK
  <1>6. Fired(s, n)' \subseteq Fired(s, n) \union {cur[k]} BY <1>4, <1>5 DEF Fired, SameRuns
  <1>7. seen[k][s].slot \in Nat /\ slot[s] \in Nat /\ n \in Nat BY RunNumbers
  <1>8. CASE runs[cur[k]].sched = s /\ runs[cur[k]].slot = n
    <2>1. Handled(k, s, n)' BY <1>1, <1>2, <1>3, <1>8 DEF Handled
    <2>2. ~May(k, s, n)' /\ ~Counts(k, s, n)' BY <1>1, <2>1 DEF May, Counts
    <2>3. May(k, s, n) BY <1>1, <1>3, <1>7, <1>8 DEF May, Busy, Handled
    <2>4. \A d \in Checkers : d # k =>
             /\ May(d, s, n)' <=> May(d, s, n)
             /\ Handled(d, s, n)' <=> Handled(d, s, n)
             /\ Counts(d, s, n)' <=> Counts(d, s, n)
      BY <1>1, KeepsMay
    <2>5. Strays(s, n)' \subseteq Strays(s, n) \ {k} BY <1>1, <2>2, <2>4 DEF Strays
    <2>6. CASE lock = k
      <3>1. Chance(s, n) BY <2>3, <2>6 DEF Chance
      <3>2. ~(slot[s] < n) BY <1>3, <1>7, <1>8
      <3>3. ~Chance(s, n)' BY <1>1, <2>1, <2>2, <2>6, <3>2 DEF Chance, rowVars
      <3> QED BY <1>1, <1>6, <2>5, <3>1, <3>3 DEF Paid, ChancePays
    <2>7. CASE lock # k
      <3>1. k \in Strays(s, n) BY <2>3, <2>7 DEF Strays, Counts
      <3>2. Chance(s, n)' => Chance(s, n) BY <1>1, <2>4, <2>7 DEF Chance, rowVars
      <3> QED BY <1>1, <1>6, <2>5, <3>1, <3>2 DEF Paid, StrayPays
    <2> QED BY <2>6, <2>7
  <1>9. CASE ~(runs[cur[k]].sched = s /\ runs[cur[k]].slot = n)
    <2>1. Fired(s, n)' = Fired(s, n) BY <1>4, <1>5, <1>9 DEF Fired, SameRuns
    <2>2. ~Handled(k, s, n)' BY <1>1, <1>2, <1>3, <1>9 DEF Handled
    <2>3. ~Handled(k, s, n) BY <1>1 DEF Handled
    <2>4. May(k, s, n)' <=> May(k, s, n) BY <1>1, <2>2, <2>3 DEF May, Busy
    <2>5. Counts(k, s, n)' <=> Counts(k, s, n) BY <1>1, <2>4 DEF Counts
    <2>6. lock = k /\ May(k, s, n)' => Chance(s, n) BY <2>4 DEF Chance
    <2>7. Quiet(s, n) BY <1>1, <2>1, <2>3, <2>5, <2>6, CheckMoves
    <2> QED BY <2>7 DEF Paid
  <1> QED BY <1>8, <1>9

LEMMA AdvancePaid ==
    ASSUME TypeOK, ChecksInv, KeepsRuns, NEW k \in Checkers, Advance(k), NEW s \in Schedules, NEW n \in 1..MaxSlots
    PROVE  Paid(s, n)
  <1> DEFINE s0 == runs[cur[k]].sched
  <1>1. pc[k] = "dispatched" /\ LeaveSchedule(k, s0) /\ UNCHANGED <<row, slot, hold, lock, seen, faults>>
    BY DEF Advance
  <1>2. cur[k] \in DOMAIN runs /\ s0 \in Schedules BY <1>1, RunInHand
  <1>3. s0 \in todo[k] /\ \A t \in Schedules : seen[k][t].slot <= slot[t]
    BY <1>1 DEF ChecksInv, InHand, Busy
  <1>4. SameRuns BY RunsAreSame
  <1>5. \A i \in DOMAIN runs : runs'[i].state = runs[i].state
    <2>1. CASE UNCHANGED runs BY <2>1
    <2>2. CASE runs' = [runs EXCEPT ![cur[k]].linked = TRUE]
      <3>1. runs[cur[k]] \in Run BY <1>2 DEF TypeOK
      <3>2. [runs[cur[k]] EXCEPT !.linked = TRUE].state = runs[cur[k]].state BY <3>1 DEF Run
      <3> QED BY <1>2, <2>2, <3>2 DEF TypeOK
    <2> QED BY <2>1, <2>2 DEF Advance
  <1>6. Fired(s, n)' = Fired(s, n) BY <1>4, <1>5, FiredKept
  <1>7. nextRun'[s0] = "due" /\ row[s0] # "deleted" => slot[s0] > seen[k][s0].slot
    BY <1>2 DEF Advance, TypeOK
  <1>8. \A t \in Schedules : t # s0 => nextRun'[t] = nextRun[t] BY <1>2 DEF Advance, TypeOK
  <1>9. seen[k][s].slot \in Nat /\ slot[s] \in Nat /\ n \in Nat BY RunNumbers
  <1> HIDE DEF s0
  <1>10. /\ pc'[k] \in {"get", "fire"} /\ todo'[k] = todo[k] \ {s0}
         /\ \A d \in Checkers : d # k => SameCheck(d)
    BY <1>1, <1>2, LeaveEffect
  <1>11. \A d \in Checkers : d # k =>
             /\ May(d, s, n)' <=> May(d, s, n)
             /\ Handled(d, s, n)' <=> Handled(d, s, n)
             /\ Counts(d, s, n)' <=> Counts(d, s, n)
      BY <1>10, KeepsMay
  <1>12. ~Handled(k, s, n)' /\ (Handled(k, s, n) => s = s0) BY <1>10 DEF Handled, s0
  <1>13. May(k, s, n)' => May(k, s, n) /\ s # s0 BY <1>1, <1>10, <1>12 DEF May, Busy
  <1>14. Counts(k, s, n)' => Counts(k, s, n) /\ s # s0 BY <1>10, <1>13 DEF Counts
  <1>15. Strays(s, n)' \subseteq Strays(s, n) BY <1>1, <1>11, <1>14 DEF Strays
  <1>16. faults' >= faults BY <1>1, SchedulerAssumption DEF TypeOK
  <1>17. CASE s # s0
    <2>1. Chance(s, n)' => Chance(s, n) BY <1>1, <1>8, <1>11, <1>12, <1>13, <1>17 DEF Chance
    <2> QED BY <1>6, <1>15, <1>16, <2>1 DEF Paid, Quiet
  <1>18. CASE s = s0 /\ (Chance(s, n)' => Chance(s, n))
    BY <1>6, <1>15, <1>16, <1>18 DEF Paid, Quiet
  <1>19. CASE s = s0 /\ Chance(s, n)' /\ ~Chance(s, n)
    <2>1. slot[s] = n /\ nextRun'[s] = "due" /\ row[s] # "deleted"
      BY <1>1, <1>11, <1>13, <1>19 DEF Chance
    <2>2. seen[k][s].slot < n BY <1>7, <1>9, <1>19, <2>1
    <2>3. May(k, s, n) BY <1>1, <1>3, <1>9, <1>19, <2>2 DEF May, Busy, Handled
    <2>4. lock # k BY <1>19, <2>3 DEF Chance
    <2>5. k \in Strays(s, n) /\ k \notin Strays(s, n)' BY <1>14, <1>19, <2>3, <2>4 DEF Strays, Counts
    <2> QED BY <1>1, <1>6, <1>15, <2>5 DEF Paid, StrayPays
  <1> QED BY <1>17, <1>18, <1>19

LEMMA ReleaseDeletePaid ==
    ASSUME TypeOK, KeepsRuns, NEW k \in Checkers, ReleaseDelete(k), NEW s \in Schedules, NEW n \in 1..MaxSlots
    PROVE  Paid(s, n)
  <1>1. pc[k] = "delete" /\ lock' = Nobody /\ Return(k) /\ UNCHANGED <<rowVars, runs, faults>>
    BY DEF ReleaseDelete
  <1>2. pc'[k] = "idle" /\ \A d \in Checkers : d # k => SameCheck(d) BY <1>1, ReturnEffect
  <1>3. Fired(s, n)' = Fired(s, n) BY <1>1, FiredUnchanged
  <1>4. k \notin Strays(s, n)' BY <1>2 DEF Strays, Counts, May, Busy
  <1>5. faults' >= faults BY <1>1, SchedulerAssumption DEF TypeOK
  <1>6. \A d \in Checkers : d # k =>
             /\ May(d, s, n)' <=> May(d, s, n)
             /\ Handled(d, s, n)' <=> Handled(d, s, n)
             /\ Counts(d, s, n)' <=> Counts(d, s, n)
      BY <1>2, KeepsMay
  <1>7. CASE lock \notin Checkers \ {k}
    <2>1. Strays(s, n)' \subseteq Strays(s, n) BY <1>1, <1>4, <1>6, <1>7 DEF Strays
    <2>2. ~Handled(k, s, n) BY <1>1 DEF Handled
    <2>3. Chance(s, n)' => Chance(s, n) BY <1>1, <1>7, <2>2, LockAssumption DEF Chance, rowVars
    <2> QED BY <1>3, <1>5, <2>1, <2>3 DEF Paid, Quiet
  <1>8. CASE lock \in Checkers \ {k}
    <2>1. k \in Strays(s, n) BY <1>1, <1>8 DEF Strays, Counts
    <2> DEFINE C == Checkers \ {k}
    <2>2. C \subseteq Checkers /\ lock \in C /\ \A d \in C : SameCheck(d) BY <1>2, <1>8
    <2>3. Strays(s, n)' \subseteq C BY <1>4 DEF Strays
    <2> HIDE DEF C
    <2>4. \/ \A d \in C : d \in Strays(s, n)' => d \in Strays(s, n)
          \/ /\ Chance(s, n)' => Chance(s, n)
             /\ \A d \in C : d \in Strays(s, n)' => d \in Strays(s, n) \/ d = lock
      BY <1>1, <2>2, LockIsLost
    <2>5. CASE \A d \in C : d \in Strays(s, n)' => d \in Strays(s, n)
      <3>1. Strays(s, n)' \subseteq Strays(s, n) \ {k} BY <1>4, <2>3, <2>5
      <3> QED BY <1>1, <1>3, <2>1, <3>1 DEF Paid, StrayPays
    <2>6. CASE /\ Chance(s, n)' => Chance(s, n)
               /\ \A d \in C : d \in Strays(s, n)' => d \in Strays(s, n) \/ d = lock
      <3>1. Strays(s, n)' \subseteq (Strays(s, n) \ {k}) \union {lock} BY <1>4, <2>3, <2>6
      <3> QED BY <1>1, <1>3, <2>1, <2>6, <3>1 DEF Paid, StrayPays
    <2> QED BY <2>4, <2>5, <2>6
  <1> QED BY <1>7, <1>8

LEMMA LockExpiresPaid ==
    ASSUME TypeOK, KeepsRuns, LockExpires, NEW s \in Schedules, NEW n \in 1..MaxSlots
    PROVE  Paid(s, n)
  <1>1. lock' = Nobody /\ UNCHANGED <<rowVars, runs, pc, todo, seen, cur>> BY DEF LockExpires
  <1>2. \A d \in Checkers : SameCheck(d) BY <1>1 DEF SameCheck
  <1>3. Fired(s, n)' = Fired(s, n) BY <1>1, FiredUnchanged
  <1>4. CASE lock = Dead
    <2>1. \A d \in Checkers : Counts(d, s, n)' <=> Counts(d, s, n) BY <1>2, KeepsMay
    <2>2. Strays(s, n)' \subseteq Strays(s, n) BY <1>1, <1>4, <2>1, LockAssumption DEF Strays
    <2>3. Chance(s, n)' => Chance(s, n) BY <1>1, <1>4, LockAssumption DEF Chance, rowVars
    <2>4. faults' >= faults BY <1>4, SchedulerAssumption DEF LockExpires, TypeOK
    <2> QED BY <1>3, <2>2, <2>3, <2>4 DEF Paid, Quiet
  <1>5. CASE lock # Dead
    <2>1. lock \in Checkers /\ faults' = faults + 1 BY <1>5 DEF LockExpires, Fault, TypeOK
    <2>2. Strays(s, n)' \subseteq Checkers BY DEF Strays
    <2>3. \/ \A d \in Checkers : d \in Strays(s, n)' => d \in Strays(s, n)
          \/ /\ Chance(s, n)' => Chance(s, n)
             /\ \A d \in Checkers : d \in Strays(s, n)' => d \in Strays(s, n) \/ d = lock
      BY <1>1, <1>2, <2>1, LockIsLost
    <2> QED BY <1>3, <2>1, <2>2, <2>3 DEF Paid, FaultPays
  <1> QED BY <1>4, <1>5

\* A check dies, or gives up a schedule or altogether: no more strays than before.
LEMMA FailurePaid ==
    ASSUME TypeOK, KeepsRuns, NEW k \in Checkers, DispatchFails(k) \/ CheckFails(k) \/ Crash(k),
           NEW s \in Schedules, NEW n \in 1..MaxSlots
    PROVE  Paid(s, n)
  <1>1. faults' = faults + 1 /\ UNCHANGED runs BY DEF DispatchFails, CheckFails, Crash, Fault
  <1>2. Fired(s, n)' = Fired(s, n) BY <1>1, FiredUnchanged
  <1>3. /\ Counts(k, s, n)' => Counts(k, s, n)
        /\ \A d \in Checkers : d # k => SameCheck(d)
    <2>1. CASE DispatchFails(k)
      <3>1. pc[k] = "created" /\ LeaveSchedule(k, runs[cur[k]].sched) /\ UNCHANGED seen
        BY <2>1 DEF DispatchFails
      <3>2. /\ pc'[k] \in {"get", "fire"} /\ todo'[k] = todo[k] \ {runs[cur[k]].sched}
            /\ \A d \in Checkers : d # k => SameCheck(d)
        BY <3>1, RunInHand, LeaveEffect
      <3>3. May(k, s, n)' => May(k, s, n) BY <3>1, <3>2 DEF May, Busy, Handled
      <3> QED BY <3>2, <3>3 DEF Counts
    <2>2. CASE CheckFails(k)
      <3>1. pc'[k] = "get" /\ \A d \in Checkers : d # k => SameCheck(d)
        BY <2>2 DEF CheckFails, TypeOK, SameCheck
      <3> QED BY <3>1 DEF Counts, May, Busy
    <2>3. CASE Crash(k)
      <3>1. pc'[k] = "idle" /\ \A d \in Checkers : d # k => SameCheck(d) BY <2>3, ReturnEffect DEF Crash
      <3> QED BY <3>1 DEF Counts, May, Busy
    <2> QED BY <2>1, <2>2, <2>3
  <1>4. \A d \in Checkers : d # k => (Counts(d, s, n)' <=> Counts(d, s, n)) BY <1>3, KeepsMay
  <1>5. \A d \in Checkers : lock = d /\ d # k => lock' = d BY DEF DispatchFails, CheckFails, Crash
  <1>6. lock = k => lock' = k \/ ~Counts(k, s, n)'
    <2>1. CASE Crash(k)
      <3>1. pc'[k] = "idle" BY <2>1, ReturnEffect DEF Crash
      <3> QED BY <3>1 DEF Counts, May, Busy
    <2> QED BY <2>1 DEF DispatchFails, CheckFails
  <1>7. Strays(s, n)' \subseteq Strays(s, n) BY <1>3, <1>4, <1>5, <1>6 DEF Strays
  <1> QED BY <1>1, <1>2, <1>7 DEF Paid, FaultPays

LEMMA CheckPaid ==
    ASSUME TypeOK, ChecksInv, KeepsRuns, NEW k \in Checkers, Check(k), NEW s \in Schedules, NEW n \in 1..MaxSlots
    PROVE  Paid(s, n)
  <1>0. seen[k][s].slot \in Nat /\ slot[s] \in Nat /\ n \in Nat BY RunNumbers
  <1>1. CASE Acquire(k)
    <2>1. /\ pc'[k] = "query" /\ pc[k] = "idle" /\ lock = Nobody /\ lock' = k /\ UNCHANGED <<rowVars, runs, faults>>
          /\ \A d \in Checkers : d # k => SameCheck(d)
      BY <1>1 DEF Acquire, TypeOK, SameCheck
    <2>2. \A d \in Checkers : d # k => (Counts(d, s, n)' <=> Counts(d, s, n)) BY <2>1, KeepsMay
    <2>3. Strays(s, n)' \subseteq Strays(s, n) BY <2>1, <2>2, LockAssumption DEF Strays
    <2>4. ~May(k, s, n)' BY <2>1 DEF May, Busy
    <2>5. Chance(s, n)' => Chance(s, n) BY <2>1, <2>4, LockAssumption DEF Chance, rowVars
    <2>6. Fired(s, n)' = Fired(s, n) BY <2>1, FiredUnchanged
    <2>7. faults' >= faults BY <2>1, SchedulerAssumption DEF TypeOK
    <2> QED BY <2>3, <2>5, <2>6, <2>7 DEF Paid, Quiet
  <1>2. CASE Query(k)
    <2>1. /\ pc[k] = "query" /\ pc'[k] = "fire" /\ UNCHANGED <<rowVars, runs, lock, faults>>
          /\ todo'[k] = {t \in Schedules : row[t] = "active" /\ nextRun[t] = "due"}
          /\ \A t \in Schedules : seen'[k][t].slot = slot[t]
          /\ \A d \in Checkers : d # k => SameCheck(d)
      BY <1>2 DEF Query, TypeOK, SameCheck
    <2>2. Counts(k, s, n) /\ ~Handled(k, s, n) BY <2>1 DEF Counts, Handled
    <2>3. lock = k /\ May(k, s, n)' => Chance(s, n)
      <3> SUFFICES ASSUME lock = k, May(k, s, n)' PROVE Chance(s, n) OBVIOUS
      <3>1. slot[s] <= n /\ row[s] = "active" /\ nextRun[s] = "due" BY <2>1 DEF May
      <3> QED BY <1>0, <2>2, <3>1 DEF Chance
    <2>4. Fired(s, n)' = Fired(s, n) BY <2>1, FiredUnchanged
    <2>5. Quiet(s, n) BY <2>1, <2>2, <2>3, <2>4, CheckMoves
    <2> QED BY <2>5 DEF Paid
  <1>3. ASSUME NEW t \in Schedules, CreateRun(k, t) PROVE Paid(s, n)
    <2>1. /\ pc[k] = "fire" /\ pc'[k] = "created" /\ UNCHANGED <<rowVars, lock, faults, todo, seen>>
          /\ \A d \in Checkers : d # k => SameCheck(d)
      BY <1>3 DEF CreateRun, TypeOK, SameCheck
    <2>2. ~Handled(k, s, n) /\ ~Handled(k, s, n)' BY <2>1 DEF Handled
    <2>3. May(k, s, n)' <=> May(k, s, n) BY <2>1, <2>2 DEF May, Busy
    <2>4. Counts(k, s, n)' <=> Counts(k, s, n) BY <2>1, <2>3 DEF Counts
    <2>5. Fired(s, n)' = Fired(s, n)
      <3>1. /\ DOMAIN runs' = DOMAIN runs \union {Len(runs) + 1}
            /\ runs'[Len(runs) + 1].state = "created"
            /\ \A i \in DOMAIN runs : i # Len(runs) + 1 /\ runs'[i] = runs[i]
        BY <1>3 DEF CreateRun, TypeOK
      <3> QED BY <3>1 DEF Fired
    <2>6. lock = k /\ May(k, s, n)' => Chance(s, n) BY <2>3 DEF Chance
    <2>7. Quiet(s, n) BY <2>1, <2>2, <2>4, <2>5, <2>6, CheckMoves
    <2> QED BY <2>7 DEF Paid
  <1>4. ASSUME NEW t \in Schedules, FindDeleted(k, t) PROVE Paid(s, n)
    <2>1. /\ pc[k] = "fire" /\ pc'[k] = "get" /\ UNCHANGED <<rowVars, runs, lock, faults>>
          /\ \A d \in Checkers : d # k => SameCheck(d)
      BY <1>4 DEF FindDeleted, TypeOK, SameCheck
    <2>2. ~Handled(k, s, n) /\ ~May(k, s, n)' /\ ~Counts(k, s, n)' BY <2>1 DEF Handled, May, Counts, Busy
    <2>3. Fired(s, n)' = Fired(s, n) BY <2>1, FiredUnchanged
    <2>4. Quiet(s, n) BY <2>1, <2>2, <2>3, CheckMoves
    <2> QED BY <2>4 DEF Paid
  <1>5. CASE ReleaseGet(k)
    <2>1. /\ pc[k] \in {"fire", "get"} /\ UNCHANGED <<rowVars, runs, lock, faults>>
          /\ pc'[k] \in {"delete", "idle"} /\ (lock # k => pc'[k] = "idle")
          /\ \A d \in Checkers : d # k => SameCheck(d)
      BY <1>5 DEF ReleaseGet, Return, TypeOK, SameCheck
    <2>2. /\ ~Handled(k, s, n) /\ ~May(k, s, n)'
          /\ Counts(k, s, n)' => lock = k
      BY <2>1 DEF Handled, May, Counts, Busy
    <2>3. Fired(s, n)' = Fired(s, n) BY <2>1, FiredUnchanged
    <2>4. Quiet(s, n) BY <2>1, <2>2, <2>3, CheckMoves
    <2> QED BY <2>4 DEF Paid
  <1> QED BY <1>1, <1>2, <1>3, <1>4, <1>5, DispatchPaid, AdvancePaid, ReleaseDeletePaid DEF Check

LEMMA StepPaid ==
    ASSUME TypeOK, ChecksInv, [Next]_vars, NEW s \in Schedules, NEW n \in 1..MaxSlots
    PROVE  Paid(s, n)
  <1>a. KeepsRuns BY RunsKept
  <1>1. ASSUME NEW t \in Schedules, Edit(t) \/ Time(t) PROVE Paid(s, n)
    <2>1. faults' = faults BY <1>1 DEF Edit, Time, CreateSchedule, PauseSchedule, ResumeSchedule,
             DeleteSchedule, BlockDownstream, BecomesDue, HourPasses
    <2>2. RowStep BY <1>1, RowsStep
    <2> QED BY <1>a, <2>1, <2>2, RowStepPaid DEF Paid
  <1>2. ASSUME \/ \E i \in DOMAIN runs : RunEnds(i) \/ RunEndsUnrecorded(i)
               \/ UNCHANGED vars
        PROVE  Paid(s, n)
    <2>1. UNCHANGED <<rowVars, checkVars, faults>> BY <1>2 DEF RunEnds, RunEndsUnrecorded, vars
    <2>2. SameRuns BY <1>2, RunsAreSame DEF vars
    <2>3. \A i \in DOMAIN runs : runs'[i].state = "created" <=> runs[i].state = "created"
      <3>1. CASE UNCHANGED vars BY <3>1 DEF vars
      <3>2. ASSUME NEW i \in DOMAIN runs, RunEnds(i) \/ RunEndsUnrecorded(i)
            PROVE  /\ runs'[i].state # "created" /\ runs[i].state # "created"
                   /\ \A j \in DOMAIN runs : j # i => runs'[j] = runs[j]
        <4>1. runs[i] \in Run BY DEF TypeOK
        <4>2. CASE RunEndsUnrecorded(i)
          <5> DEFINE e == [runs[i] EXCEPT !.state = "aborted"]
          <5>1. e.state = "aborted" BY <4>1 DEF Run
          <5>2. runs' = [runs EXCEPT ![i] = e] /\ runs[i].state = "dispatched" BY <4>2 DEF RunEndsUnrecorded
          <5> HIDE DEF e
          <5> QED BY <5>1, <5>2 DEF TypeOK
        <4>3. CASE RunEnds(i)
          <5> DEFINE b == runs[i].linked /\ row[runs[i].sched] # "deleted"
                     e == [runs[i] EXCEPT !.state = "ended", !.logged = b]
          <5>1. e.state = "ended"
            <6> HIDE DEF b
            <6> QED BY <4>1 DEF Run
          <5>2. runs' = [runs EXCEPT ![i] = e] /\ runs[i].state = "dispatched" BY <4>3 DEF RunEnds
          <5> HIDE DEF e
          <5> QED BY <5>1, <5>2 DEF TypeOK
        <4> QED BY <3>2, <4>2, <4>3
      <3> QED BY <1>2, <3>1, <3>2
    <2>4. Fired(s, n)' = Fired(s, n) BY <2>2, <2>3, FiredKept
    <2>5. \A d \in Checkers : SameCheck(d) BY <2>1 DEF checkVars, SameCheck
    <2>6. \A d \in Checkers : /\ Handled(d, s, n)' <=> Handled(d, s, n)
                              /\ May(d, s, n)' <=> May(d, s, n)
                              /\ Counts(d, s, n)' <=> Counts(d, s, n)
      BY <1>a, <2>5, KeepsMay
    <2>7. Strays(s, n)' \subseteq Strays(s, n) BY <2>1, <2>6 DEF Strays, checkVars
    <2>8. Chance(s, n)' => Chance(s, n) BY <2>1, <2>6 DEF Chance, checkVars, rowVars
    <2>9. faults' >= faults BY <2>1, SchedulerAssumption DEF TypeOK
    <2> QED BY <2>4, <2>7, <2>8, <2>9 DEF Paid, Quiet
  <1> QED BY <1>a, <1>1, <1>2, CheckPaid, FailurePaid, LockExpiresPaid DEF Next

LEMMA FiresInit == Init => ChecksInv /\ FiresInv
  <1> SUFFICES ASSUME Init PROVE ChecksInv /\ FiresInv
    OBVIOUS
  <1>1. ChecksInv BY LockAssumption DEF Init, ChecksInv, InHand, Busy
  <1>2. \A s, n : Fired(s, n) = {} BY DEF Init, Fired
  <1>3. \A s, n : Strays(s, n) = {} BY DEF Init, Strays, Counts, May, Busy
  <1>4. \A s, n : ChanceOf(s, n) \in {0, 1} BY DEF ChanceOf
  <1>5. IsFiniteSet({}) /\ Cardinality({}) = 0 BY FS_EmptySet
  <1>6. ASSUME NEW s \in Schedules, NEW n \in 1..MaxSlots
        PROVE  /\ IsFiniteSet(Strays(s, n))
               /\ Cardinality(Fired(s, n)) + Cardinality(Strays(s, n)) + ChanceOf(s, n) <= 1 + faults
    <2>1. faults = 0 BY DEF Init
    <2>2. Cardinality(Fired(s, n)) = 0 /\ Cardinality(Strays(s, n)) = 0 /\ IsFiniteSet(Strays(s, n))
      BY <1>2, <1>3, <1>5
    <2>3. ChanceOf(s, n) = 0 \/ ChanceOf(s, n) = 1 BY <1>4
    <2> QED BY <2>1, <2>2, <2>3
  <1> QED BY <1>1, <1>6 DEF FiresInv

LEMMA FiresStep == TypeOK /\ ChecksInv /\ FiresInv /\ [Next]_vars => FiresInv'
  <1> SUFFICES ASSUME TypeOK, ChecksInv, FiresInv, [Next]_vars, NEW s \in Schedules, NEW n \in 1..MaxSlots
               PROVE  /\ IsFiniteSet(Strays(s, n)')
                      /\ Cardinality(Fired(s, n)') + Cardinality(Strays(s, n)') + ChanceOf(s, n)' <= 1 + faults'
    BY DEF FiresInv
  <1>1. TypeOK' BY TypeStep
  <1>2. Paid(s, n) BY StepPaid
  <1> QED BY <1>1, <1>2, PaidKeeps

\* A time of a schedule is dispatched at most once more often than checks crash,
\* fail or outlast their lock: although the release deletes a lock it does not hold
\* and a late check sets schedules due again, for any number of schedules, workers,
\* times and faults.
THEOREM FiresOnceHolds == Spec => []FiresOnce
  <1>1. Init => TypeOK /\ ChecksInv /\ FiresInv BY TypeInit, FiresInit
  <1>2. TypeOK /\ ChecksInv /\ FiresInv /\ [Next]_vars => (TypeOK /\ ChecksInv /\ FiresInv)'
    BY TypeStep, ChecksStep, FiresStep
  <1>3. TypeOK /\ FiresInv => FiresOnce
    <2> SUFFICES ASSUME TypeOK, FiresInv, NEW s \in Schedules, NEW n \in 1..MaxSlots
                 PROVE  Cardinality(Fired(s, n)) <= 1 + faults
      BY DEF FiresOnce
    <2>1. /\ Cardinality(Fired(s, n)) \in Nat /\ Cardinality(Strays(s, n)) \in Nat
          /\ Cardinality(Fired(s, n)) + Cardinality(Strays(s, n)) + ChanceOf(s, n) <= 1 + faults
      BY FiredFinite, FS_CardinalityType DEF FiresInv
    <2>2. ChanceOf(s, n) \in {0, 1} /\ faults \in Nat BY SchedulerAssumption DEF ChanceOf, TypeOK
    <2> QED BY <2>1, <2>2
  <1> QED BY <1>1, <1>2, <1>3, PTL DEF Spec
=============================================================================
