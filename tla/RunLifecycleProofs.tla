------------------------- MODULE RunLifecycleProofs -------------------------
(***************************************************************************)
(* Proofs about RunLifecycle, for any sets of runs and workers and any     *)
(* number of crashes.  Each invariant has a lemma that says that a step    *)
(* preserves it, with one step per action of Next.                         *)
(***************************************************************************)
EXTENDS RunLifecycle, TLAPS

USE DEF rowVars, brokerVars, workerVars, reconVars, otherThanWorker,
        otherThanSweep

-----------------------------------------------------------------------------
(* Types.                                                                  *)

LEMMA TypeInit == Init => TypeOK
  BY ConstantsAssumption DEF Init, TypeOK, CeleryState, WorkerPC, PipelineStatus

LEMMA TypeStep == ASSUME TypeOK, [Next]_vars PROVE TypeOK'
<1> USE ConstantsAssumption DEF TypeOK, CeleryState, WorkerPC, Claiming,
        Executing, PipelineStatus, Terminal, Unfinished
<1>1. CASE UNCHANGED vars
  BY <1>1 DEF vars
<1>2. ASSUME NEW r \in Runs, Create(r) PROVE TypeOK'
  BY <1>2 DEF Create
<1>3. ASSUME NEW r \in Runs, Dispatch(r) PROVE TypeOK'
  BY <1>3 DEF Dispatch
<1>4. ASSUME NEW r \in Runs, DispatchFails(r) PROVE TypeOK'
  BY <1>4 DEF DispatchFails
<1>5. ASSUME NEW r \in Runs, RecordTaskId(r) PROVE TypeOK'
  BY <1>5 DEF RecordTaskId
<1>6. ASSUME NEW r \in Runs, CancelCheck(r) PROVE TypeOK'
  BY <1>6 DEF CancelCheck
<1>7. ASSUME NEW r \in Runs, CancelCommit(r) PROVE TypeOK'
  BY <1>7 DEF CancelCommit
<1>8. ASSUME NEW r \in Runs, Redeliver(r) PROVE TypeOK'
  BY <1>8 DEF Redeliver, Holds
<1>9. ASSUME NEW r \in Runs, Discard(r) PROVE TypeOK'
  BY <1>9 DEF Discard
<1>10. ASSUME NEW r \in Runs, ExpireResult(r) PROVE TypeOK'
  BY <1>10 DEF ExpireResult
<1>11. ASSUME NEW r \in Runs, Age(r) PROVE TypeOK'
  BY <1>11 DEF Age, Holds
<1>12. ASSUME NEW w \in Workers, NEW r \in Runs, Deliver(w, r) PROVE TypeOK'
  BY <1>12 DEF Deliver
<1>13. ASSUME NEW w \in Workers, Load(w) PROVE TypeOK'
  BY <1>13 DEF Load
<1>14. ASSUME NEW w \in Workers, CommitTaskId(w) PROVE TypeOK'
  BY <1>14 DEF CommitTaskId, Goto
<1>15. ASSUME NEW w \in Workers, MarkRunning(w) PROVE TypeOK'
  BY <1>15 DEF MarkRunning, Goto
<1>16. ASSUME NEW w \in Workers, Reload(w) PROVE TypeOK'
  BY <1>16 DEF Reload
<1>17. ASSUME NEW w \in Workers, RunReturns(w) PROVE TypeOK'
  BY <1>17 DEF RunReturns, Goto
<1>18. ASSUME NEW w \in Workers, RunDrifts(w) PROVE TypeOK'
  BY <1>18 DEF RunDrifts, Goto
<1>19. ASSUME NEW w \in Workers, MarkHealing(w) PROVE TypeOK'
  BY <1>19 DEF MarkHealing, Goto, Assigned
<1>20. ASSUME NEW w \in Workers, HealFails(w) PROVE TypeOK'
  BY <1>20 DEF HealFails, Goto
<1>21. ASSUME NEW w \in Workers, HealApplies(w) PROVE TypeOK'
  BY <1>21 DEF HealApplies, Goto
<1>22. ASSUME NEW w \in Workers, MarkHealed(w) PROVE TypeOK'
  BY <1>22 DEF MarkHealed, Goto
<1>23. ASSUME NEW w \in Workers, RerunFails(w) PROVE TypeOK'
  BY <1>23 DEF RerunFails, Goto
<1>24. ASSUME NEW w \in Workers, RefreshRun(w) PROVE TypeOK'
  BY <1>24 DEF RefreshRun, Goto
<1>25. ASSUME NEW w \in Workers, CommitResults(w) PROVE TypeOK'
  BY <1>25 DEF CommitResults, Goto, Assigned, FinalStatuses
<1>26. ASSUME NEW w \in Workers, CommitFails(w) PROVE TypeOK'
  BY <1>26 DEF CommitFails, Goto
<1>27. ASSUME NEW w \in Workers, Raise(w) PROVE TypeOK'
  BY <1>27 DEF Raise, Goto
<1>28. ASSUME NEW w \in Workers, MarkFailed(w) PROVE TypeOK'
  <2>1. status' \in [Runs -> PipelineStatus \union {"none"}]
    BY <1>28 DEF MarkFailed, Assigned
  <2>2. results' \in [Runs -> BOOLEAN]
    BY <1>28 DEF MarkFailed
  <2> QED BY <1>28, <2>1, <2>2 DEF MarkFailed
<1>29. ASSUME NEW w \in Workers, MarkFailedFails(w) PROVE TypeOK'
  BY <1>29 DEF MarkFailedFails
<1>30. ASSUME NEW w \in Workers, Finish(w) PROVE TypeOK'
  BY <1>30 DEF Finish, Release
<1>31. ASSUME NEW w \in Workers, ProcessDies(w) PROVE TypeOK'
  BY <1>31 DEF ProcessDies, Release
<1>32. ASSUME NEW w \in Workers, NodeLost(w) PROVE TypeOK'
  BY <1>32 DEF NodeLost, Release
<1>33. ASSUME NEW w \in Workers, Terminate(w) PROVE TypeOK'
  BY <1>33 DEF Terminate, Release
<1>34. CASE SweepQuery
  BY <1>34 DEF SweepQuery
<1>35. ASSUME NEW r \in Runs, SweepCheck(r) PROVE TypeOK'
  BY <1>35 DEF SweepCheck
<1>36. CASE SweepTimeout
  BY <1>36 DEF SweepTimeout
<1>37. CASE SweepEnd
  BY <1>37 DEF SweepEnd
<1> QED
  BY <1>1, <1>2, <1>3, <1>4, <1>5, <1>6, <1>7, <1>8, <1>9, <1>10, <1>11,
     <1>12, <1>13, <1>14, <1>15, <1>16, <1>17, <1>18, <1>19, <1>20, <1>21,
     <1>22, <1>23, <1>24, <1>25, <1>26, <1>27, <1>28, <1>29, <1>30, <1>31,
     <1>32, <1>33, <1>34, <1>35, <1>36, <1>37
     DEF Next, Submit, Cancel, Broker, Execute, Heal, Lost, Sweep

\* Every variable keeps its type: each status written is a PipelineStatus,
\* each task state one that Celery knows.
THEOREM TypeCorrect == Spec => []TypeOK
<1>1. Init => TypeOK
  BY TypeInit
<1>2. TypeOK /\ [Next]_vars => TypeOK'
  BY TypeStep
<1> QED BY <1>1, <1>2, PTL DEF Spec

-----------------------------------------------------------------------------
(* Deliveries, starts and vetoes.                                          *)

LEMMA RunInvInit == Init => RunInv
  BY ConstantsAssumption
     DEF Init, RunInv, NotYetSent, OneDelivery, PendingIsUnstarted,
         ClaimIsFirst, StartsBounded, VetoHolds

\* The part of RunInv that is about run q.
RunInvOf(q) ==
    /\ NotYetSent(q)
    /\ OneDelivery(q)
    /\ PendingIsUnstarted(q)
    /\ ClaimIsFirst(q)
    /\ StartsBounded(q)
    /\ VetoHolds(q)

LEMMA RunInvStep ==
    ASSUME TypeOK, RunInv, [Next]_vars, NEW q \in Runs PROVE RunInvOf(q)'
<1> USE ConstantsAssumption
    DEF TypeOK, RunInv, RunInvOf, NotYetSent, OneDelivery, PendingIsUnstarted,
        ClaimIsFirst, StartsBounded, VetoHolds, Claiming, Executing,
        Cancellable
<1>1. CASE UNCHANGED vars
  BY <1>1 DEF vars
<1>2. ASSUME NEW r \in Runs, Create(r) PROVE RunInvOf(q)'
  BY <1>2 DEF Create
<1>3. ASSUME NEW r \in Runs, Dispatch(r) PROVE RunInvOf(q)'
  BY <1>3 DEF Dispatch
<1>4. ASSUME NEW r \in Runs, DispatchFails(r) PROVE RunInvOf(q)'
  BY <1>4 DEF DispatchFails
<1>5. ASSUME NEW r \in Runs, RecordTaskId(r) PROVE RunInvOf(q)'
  BY <1>5 DEF RecordTaskId
<1>6. ASSUME NEW r \in Runs, CancelCheck(r) PROVE RunInvOf(q)'
  BY <1>6 DEF CancelCheck
<1>7. ASSUME NEW r \in Runs, CancelCommit(r) PROVE RunInvOf(q)'
  BY <1>7 DEF CancelCommit
<1>8. ASSUME NEW r \in Runs, Redeliver(r) PROVE RunInvOf(q)'
  BY <1>8 DEF Redeliver, Holds
<1>9. ASSUME NEW r \in Runs, Discard(r) PROVE RunInvOf(q)'
  BY <1>9 DEF Discard
<1>10. ASSUME NEW r \in Runs, ExpireResult(r) PROVE RunInvOf(q)'
  BY <1>10 DEF ExpireResult
<1>11. ASSUME NEW r \in Runs, Age(r) PROVE RunInvOf(q)'
  BY <1>11 DEF Age, Holds
<1>12. ASSUME NEW w \in Workers, NEW r \in Runs, Deliver(w, r) PROVE RunInvOf(q)'
  BY <1>12 DEF Deliver
<1>13. ASSUME NEW w \in Workers, Load(w) PROVE RunInvOf(q)'
  BY <1>13 DEF Load
<1>14. ASSUME NEW w \in Workers, CommitTaskId(w) PROVE RunInvOf(q)'
  BY <1>14 DEF CommitTaskId, Goto
<1>15. ASSUME NEW w \in Workers, MarkRunning(w) PROVE RunInvOf(q)'
  BY <1>15 DEF MarkRunning, Goto
<1>16. ASSUME NEW w \in Workers, Reload(w) PROVE RunInvOf(q)'
  BY <1>16 DEF Reload
<1>17. ASSUME NEW w \in Workers, RunReturns(w) PROVE RunInvOf(q)'
  BY <1>17 DEF RunReturns, Goto
<1>18. ASSUME NEW w \in Workers, RunDrifts(w) PROVE RunInvOf(q)'
  BY <1>18 DEF RunDrifts, Goto
<1>19. ASSUME NEW w \in Workers, MarkHealing(w) PROVE RunInvOf(q)'
  BY <1>19 DEF MarkHealing, Goto, Assigned
<1>20. ASSUME NEW w \in Workers, HealFails(w) PROVE RunInvOf(q)'
  BY <1>20 DEF HealFails, Goto
<1>21. ASSUME NEW w \in Workers, HealApplies(w) PROVE RunInvOf(q)'
  BY <1>21 DEF HealApplies, Goto
<1>22. ASSUME NEW w \in Workers, MarkHealed(w) PROVE RunInvOf(q)'
  BY <1>22 DEF MarkHealed, Goto
<1>23. ASSUME NEW w \in Workers, RerunFails(w) PROVE RunInvOf(q)'
  BY <1>23 DEF RerunFails, Goto
<1>24. ASSUME NEW w \in Workers, RefreshRun(w) PROVE RunInvOf(q)'
  BY <1>24 DEF RefreshRun, Goto
<1>25. ASSUME NEW w \in Workers, CommitResults(w) PROVE RunInvOf(q)'
  BY <1>25 DEF CommitResults, Goto, Assigned, FinalStatuses
<1>26. ASSUME NEW w \in Workers, CommitFails(w) PROVE RunInvOf(q)'
  BY <1>26 DEF CommitFails, Goto
<1>27. ASSUME NEW w \in Workers, Raise(w) PROVE RunInvOf(q)'
  BY <1>27 DEF Raise, Goto
<1>28. ASSUME NEW w \in Workers, MarkFailed(w) PROVE RunInvOf(q)'
  BY <1>28 DEF MarkFailed, Assigned
<1>29. ASSUME NEW w \in Workers, MarkFailedFails(w) PROVE RunInvOf(q)'
  BY <1>29 DEF MarkFailedFails
<1>30. ASSUME NEW w \in Workers, Finish(w) PROVE RunInvOf(q)'
  BY <1>30 DEF Finish, Release
<1>31. ASSUME NEW w \in Workers, ProcessDies(w) PROVE RunInvOf(q)'
  BY <1>31 DEF ProcessDies, Release
<1>32. ASSUME NEW w \in Workers, NodeLost(w) PROVE RunInvOf(q)'
  BY <1>32 DEF NodeLost, Release
<1>33. ASSUME NEW w \in Workers, Terminate(w) PROVE RunInvOf(q)'
  BY <1>33 DEF Terminate, Release
<1>34. CASE SweepQuery
  BY <1>34 DEF SweepQuery, RECONCILABLE_STATUSES
<1>35. ASSUME NEW r \in Runs, SweepCheck(r) PROVE RunInvOf(q)'
  BY <1>35 DEF SweepCheck
<1>36. CASE SweepTimeout
  BY <1>36 DEF SweepTimeout
<1>37. CASE SweepEnd
  BY <1>37 DEF SweepEnd
<1> QED
  BY <1>1, <1>2, <1>3, <1>4, <1>5, <1>6, <1>7, <1>8, <1>9, <1>10, <1>11,
     <1>12, <1>13, <1>14, <1>15, <1>16, <1>17, <1>18, <1>19, <1>20, <1>21,
     <1>22, <1>23, <1>24, <1>25, <1>26, <1>27, <1>28, <1>29, <1>30, <1>31,
     <1>32, <1>33, <1>34, <1>35, <1>36, <1>37
     DEF Next, Submit, Cancel, Broker, Execute, Heal, Lost, Sweep

LEMMA RunInvariant == Spec => []RunInv
<1>1. Init => RunInv
  BY RunInvInit
<1>2. TypeOK /\ RunInv /\ [Next]_vars => RunInv'
  BY RunInvStep DEF RunInv, RunInvOf
<1> QED BY <1>1, <1>2, TypeCorrect, PTL DEF Spec

\* Unless the broker redelivers what is being executed, no two workers ever
\* work on the same run: the message of a run is a token that is in the
\* queue, lost with a node, or with one worker.
THEOREM WorkersExclusive == Spec => []OneWorkerPerRun
<1>1. TypeOK /\ RunInv => OneWorkerPerRun
  BY DEF TypeOK, RunInv, OneDelivery, OneWorkerPerRun
<1> QED BY <1>1, TypeCorrect, RunInvariant, PTL

\* ... and the steps of a run are started at most once, in spite of crashes
\* and redeliveries, because only a PENDING run is started and nothing ever
\* makes a run PENDING again.
THEOREM StartsAtMostOnce == Spec => []StartedOnce
<1>1. RunInv => StartedOnce
  BY DEF RunInv, StartsBounded, StartedOnce
<1> QED BY <1>1, RunInvariant, PTL

\* A run cancelled while PENDING and unclaimed is never started, even when
\* the broker duplicates its message.
THEOREM VetoIsFinal == Spec => []VetoedNeverStarts
<1>1. RunInv => VetoedNeverStarts
  BY DEF RunInv, VetoHolds, VetoedNeverStarts
<1> QED BY <1>1, RunInvariant, PTL

-----------------------------------------------------------------------------
(* Results.                                                                *)

LEMMA ResultsStep ==
    ASSUME TypeOK, FinishedHasResults, [Next]_vars PROVE FinishedHasResults'
<1> USE DEF TypeOK, FinishedHasResults
<1>1. CASE UNCHANGED vars
  BY <1>1 DEF vars
<1>2. ASSUME NEW r \in Runs, Create(r) PROVE FinishedHasResults'
  BY <1>2 DEF Create
<1>3. ASSUME NEW r \in Runs, Dispatch(r) PROVE FinishedHasResults'
  BY <1>3 DEF Dispatch
<1>4. ASSUME NEW r \in Runs, DispatchFails(r) PROVE FinishedHasResults'
  BY <1>4 DEF DispatchFails
<1>5. ASSUME NEW r \in Runs, RecordTaskId(r) PROVE FinishedHasResults'
  BY <1>5 DEF RecordTaskId
<1>6. ASSUME NEW r \in Runs, CancelCheck(r) PROVE FinishedHasResults'
  BY <1>6 DEF CancelCheck
<1>7. ASSUME NEW r \in Runs, CancelCommit(r) PROVE FinishedHasResults'
  BY <1>7 DEF CancelCommit
<1>8. ASSUME NEW r \in Runs, Redeliver(r) PROVE FinishedHasResults'
  BY <1>8 DEF Redeliver, Holds
<1>9. ASSUME NEW r \in Runs, Discard(r) PROVE FinishedHasResults'
  BY <1>9 DEF Discard
<1>10. ASSUME NEW r \in Runs, ExpireResult(r) PROVE FinishedHasResults'
  BY <1>10 DEF ExpireResult
<1>11. ASSUME NEW r \in Runs, Age(r) PROVE FinishedHasResults'
  BY <1>11 DEF Age, Holds
<1>12. ASSUME NEW w \in Workers, NEW r \in Runs, Deliver(w, r) PROVE FinishedHasResults'
  BY <1>12 DEF Deliver
<1>13. ASSUME NEW w \in Workers, Load(w) PROVE FinishedHasResults'
  BY <1>13 DEF Load
<1>14. ASSUME NEW w \in Workers, CommitTaskId(w) PROVE FinishedHasResults'
  BY <1>14 DEF CommitTaskId, Goto
<1>15. ASSUME NEW w \in Workers, MarkRunning(w) PROVE FinishedHasResults'
  BY <1>15 DEF MarkRunning, Goto
<1>16. ASSUME NEW w \in Workers, Reload(w) PROVE FinishedHasResults'
  BY <1>16 DEF Reload
<1>17. ASSUME NEW w \in Workers, RunReturns(w) PROVE FinishedHasResults'
  BY <1>17 DEF RunReturns, Goto
<1>18. ASSUME NEW w \in Workers, RunDrifts(w) PROVE FinishedHasResults'
  BY <1>18 DEF RunDrifts, Goto
<1>19. ASSUME NEW w \in Workers, MarkHealing(w) PROVE FinishedHasResults'
  BY <1>19 DEF MarkHealing, Goto, Assigned
<1>20. ASSUME NEW w \in Workers, HealFails(w) PROVE FinishedHasResults'
  BY <1>20 DEF HealFails, Goto
<1>21. ASSUME NEW w \in Workers, HealApplies(w) PROVE FinishedHasResults'
  BY <1>21 DEF HealApplies, Goto
<1>22. ASSUME NEW w \in Workers, MarkHealed(w) PROVE FinishedHasResults'
  BY <1>22 DEF MarkHealed, Goto
<1>23. ASSUME NEW w \in Workers, RerunFails(w) PROVE FinishedHasResults'
  BY <1>23 DEF RerunFails, Goto
<1>24. ASSUME NEW w \in Workers, RefreshRun(w) PROVE FinishedHasResults'
  BY <1>24 DEF RefreshRun, Goto
<1>25. ASSUME NEW w \in Workers, CommitResults(w) PROVE FinishedHasResults'
  BY <1>25 DEF CommitResults, Goto, Assigned, FinalStatuses
<1>26. ASSUME NEW w \in Workers, CommitFails(w) PROVE FinishedHasResults'
  BY <1>26 DEF CommitFails, Goto
<1>27. ASSUME NEW w \in Workers, Raise(w) PROVE FinishedHasResults'
  BY <1>27 DEF Raise, Goto
<1>28. ASSUME NEW w \in Workers, MarkFailed(w) PROVE FinishedHasResults'
  BY <1>28 DEF MarkFailed, Assigned
<1>29. ASSUME NEW w \in Workers, MarkFailedFails(w) PROVE FinishedHasResults'
  BY <1>29 DEF MarkFailedFails
<1>30. ASSUME NEW w \in Workers, Finish(w) PROVE FinishedHasResults'
  BY <1>30 DEF Finish, Release
<1>31. ASSUME NEW w \in Workers, ProcessDies(w) PROVE FinishedHasResults'
  BY <1>31 DEF ProcessDies, Release
<1>32. ASSUME NEW w \in Workers, NodeLost(w) PROVE FinishedHasResults'
  BY <1>32 DEF NodeLost, Release
<1>33. ASSUME NEW w \in Workers, Terminate(w) PROVE FinishedHasResults'
  BY <1>33 DEF Terminate, Release
<1>34. CASE SweepQuery
  BY <1>34 DEF SweepQuery, RECONCILABLE_STATUSES
<1>35. ASSUME NEW r \in Runs, SweepCheck(r) PROVE FinishedHasResults'
  BY <1>35 DEF SweepCheck
<1>36. CASE SweepTimeout
  BY <1>36 DEF SweepTimeout
<1>37. CASE SweepEnd
  BY <1>37 DEF SweepEnd
<1> QED
  BY <1>1, <1>2, <1>3, <1>4, <1>5, <1>6, <1>7, <1>8, <1>9, <1>10, <1>11,
     <1>12, <1>13, <1>14, <1>15, <1>16, <1>17, <1>18, <1>19, <1>20, <1>21,
     <1>22, <1>23, <1>24, <1>25, <1>26, <1>27, <1>28, <1>29, <1>30, <1>31,
     <1>32, <1>33, <1>34, <1>35, <1>36, <1>37
     DEF Next, Submit, Cancel, Broker, Execute, Heal, Lost, Sweep

\* COMPLETED and CONTRACT_VIOLATION are never seen without the step results
\* and the lineage, duplicates of the message or not.
THEOREM ResultsBehindStatus == Spec => []FinishedHasResults
<1>1. Init => FinishedHasResults
  BY DEF Init, FinishedHasResults
<1>2. TypeOK /\ FinishedHasResults /\ [Next]_vars => FinishedHasResults'
  BY ResultsStep
<1> QED BY <1>1, <1>2, TypeCorrect, PTL DEF Spec

-----------------------------------------------------------------------------
(* Settled runs.                                                           *)

LEMMA SettledStep ==
    ASSUME TypeOK, [Next]_vars, NEW q \in Runs, Settled(q)
    PROVE  Settled(q)' /\ status'[q] = status[q]
<1> USE ConstantsAssumption
    DEF TypeOK, Settled, Terminal, Cancellable, Unfinished
<1>1. CASE UNCHANGED vars
  BY <1>1 DEF vars
<1>2. ASSUME NEW r \in Runs, Create(r) PROVE Settled(q)' /\ status'[q] = status[q]
  BY <1>2 DEF Create
<1>3. ASSUME NEW r \in Runs, Dispatch(r) PROVE Settled(q)' /\ status'[q] = status[q]
  BY <1>3 DEF Dispatch
<1>4. ASSUME NEW r \in Runs, DispatchFails(r) PROVE Settled(q)' /\ status'[q] = status[q]
  BY <1>4 DEF DispatchFails
<1>5. ASSUME NEW r \in Runs, RecordTaskId(r) PROVE Settled(q)' /\ status'[q] = status[q]
  BY <1>5 DEF RecordTaskId
<1>6. ASSUME NEW r \in Runs, CancelCheck(r) PROVE Settled(q)' /\ status'[q] = status[q]
  BY <1>6 DEF CancelCheck
<1>7. ASSUME NEW r \in Runs, CancelCommit(r) PROVE Settled(q)' /\ status'[q] = status[q]
  BY <1>7 DEF CancelCommit
<1>8. ASSUME NEW r \in Runs, Redeliver(r) PROVE Settled(q)' /\ status'[q] = status[q]
  BY <1>8 DEF Redeliver, Holds
<1>9. ASSUME NEW r \in Runs, Discard(r) PROVE Settled(q)' /\ status'[q] = status[q]
  BY <1>9 DEF Discard
<1>10. ASSUME NEW r \in Runs, ExpireResult(r) PROVE Settled(q)' /\ status'[q] = status[q]
  BY <1>10 DEF ExpireResult
<1>11. ASSUME NEW r \in Runs, Age(r) PROVE Settled(q)' /\ status'[q] = status[q]
  BY <1>11 DEF Age, Holds
<1>12. ASSUME NEW w \in Workers, NEW r \in Runs, Deliver(w, r) PROVE Settled(q)' /\ status'[q] = status[q]
  BY <1>12 DEF Deliver
<1>13. ASSUME NEW w \in Workers, Load(w) PROVE Settled(q)' /\ status'[q] = status[q]
  BY <1>13 DEF Load
<1>14. ASSUME NEW w \in Workers, CommitTaskId(w) PROVE Settled(q)' /\ status'[q] = status[q]
  BY <1>14 DEF CommitTaskId, Goto
<1>15. ASSUME NEW w \in Workers, MarkRunning(w) PROVE Settled(q)' /\ status'[q] = status[q]
  BY <1>15 DEF MarkRunning, Goto
<1>16. ASSUME NEW w \in Workers, Reload(w) PROVE Settled(q)' /\ status'[q] = status[q]
  BY <1>16 DEF Reload
<1>17. ASSUME NEW w \in Workers, RunReturns(w) PROVE Settled(q)' /\ status'[q] = status[q]
  BY <1>17 DEF RunReturns, Goto
<1>18. ASSUME NEW w \in Workers, RunDrifts(w) PROVE Settled(q)' /\ status'[q] = status[q]
  BY <1>18 DEF RunDrifts, Goto
<1>19. ASSUME NEW w \in Workers, MarkHealing(w) PROVE Settled(q)' /\ status'[q] = status[q]
  BY <1>19 DEF MarkHealing, Goto, Assigned
<1>20. ASSUME NEW w \in Workers, HealFails(w) PROVE Settled(q)' /\ status'[q] = status[q]
  BY <1>20 DEF HealFails, Goto
<1>21. ASSUME NEW w \in Workers, HealApplies(w) PROVE Settled(q)' /\ status'[q] = status[q]
  BY <1>21 DEF HealApplies, Goto
<1>22. ASSUME NEW w \in Workers, MarkHealed(w) PROVE Settled(q)' /\ status'[q] = status[q]
  BY <1>22 DEF MarkHealed, Goto
<1>23. ASSUME NEW w \in Workers, RerunFails(w) PROVE Settled(q)' /\ status'[q] = status[q]
  BY <1>23 DEF RerunFails, Goto
<1>24. ASSUME NEW w \in Workers, RefreshRun(w) PROVE Settled(q)' /\ status'[q] = status[q]
  BY <1>24 DEF RefreshRun, Goto
<1>25. ASSUME NEW w \in Workers, CommitResults(w) PROVE Settled(q)' /\ status'[q] = status[q]
  BY <1>25 DEF CommitResults, Goto, Assigned, FinalStatuses
<1>26. ASSUME NEW w \in Workers, CommitFails(w) PROVE Settled(q)' /\ status'[q] = status[q]
  BY <1>26 DEF CommitFails, Goto
<1>27. ASSUME NEW w \in Workers, Raise(w) PROVE Settled(q)' /\ status'[q] = status[q]
  BY <1>27 DEF Raise, Goto
<1>28. ASSUME NEW w \in Workers, MarkFailed(w) PROVE Settled(q)' /\ status'[q] = status[q]
  BY <1>28 DEF MarkFailed, Assigned
<1>29. ASSUME NEW w \in Workers, MarkFailedFails(w) PROVE Settled(q)' /\ status'[q] = status[q]
  BY <1>29 DEF MarkFailedFails
<1>30. ASSUME NEW w \in Workers, Finish(w) PROVE Settled(q)' /\ status'[q] = status[q]
  BY <1>30 DEF Finish, Release
<1>31. ASSUME NEW w \in Workers, ProcessDies(w) PROVE Settled(q)' /\ status'[q] = status[q]
  BY <1>31 DEF ProcessDies, Release
<1>32. ASSUME NEW w \in Workers, NodeLost(w) PROVE Settled(q)' /\ status'[q] = status[q]
  BY <1>32 DEF NodeLost, Release
<1>33. ASSUME NEW w \in Workers, Terminate(w) PROVE Settled(q)' /\ status'[q] = status[q]
  BY <1>33 DEF Terminate, Release
<1>34. CASE SweepQuery
  BY <1>34 DEF SweepQuery, RECONCILABLE_STATUSES
<1>35. ASSUME NEW r \in Runs, SweepCheck(r) PROVE Settled(q)' /\ status'[q] = status[q]
  BY <1>35 DEF SweepCheck
<1>36. CASE SweepTimeout
  BY <1>36 DEF SweepTimeout
<1>37. CASE SweepEnd
  BY <1>37 DEF SweepEnd
<1> QED
  BY <1>1, <1>2, <1>3, <1>4, <1>5, <1>6, <1>7, <1>8, <1>9, <1>10, <1>11,
     <1>12, <1>13, <1>14, <1>15, <1>16, <1>17, <1>18, <1>19, <1>20, <1>21,
     <1>22, <1>23, <1>24, <1>25, <1>26, <1>27, <1>28, <1>29, <1>30, <1>31,
     <1>32, <1>33, <1>34, <1>35, <1>36, <1>37
     DEF Next, Submit, Cancel, Broker, Execute, Heal, Lost, Sweep

\* Once a run has a terminal status and neither its message nor any request
\* about it is under way, no step touches it again.
THEOREM SettledIsFinal == Spec => SettledForever
<1>1. TypeOK /\ [Next]_vars =>
        [\A r \in Runs : Settled(r) => Settled(r)' /\ status'[r] = status[r]]_vars
  BY SettledStep
<1> QED BY <1>1, TypeCorrect, PTL DEF Spec, SettledForever

-----------------------------------------------------------------------------
(* Refinement.                                                             *)

LEMMA PromiseInvInit == Init => PromiseInv
  BY DEF Init, PromiseInv, HasRow, ExecutesStarted, IdleIsBlank, Executing,
         HealedIsPatched

LEMMA PromiseInvStep ==
    ASSUME TypeOK, RunInv, PromiseInv, [Next]_vars PROVE PromiseInv'
<1> USE ConstantsAssumption
    DEF TypeOK, RunInv, NotYetSent, PendingIsUnstarted, PromiseInv, HasRow,
        ExecutesStarted, IdleIsBlank, HealedIsPatched, Claiming, Executing
<1>1. CASE UNCHANGED vars
  BY <1>1 DEF vars
<1>2. ASSUME NEW r \in Runs, Create(r) PROVE PromiseInv'
  BY <1>2 DEF Create
<1>3. ASSUME NEW r \in Runs, Dispatch(r) PROVE PromiseInv'
  BY <1>3 DEF Dispatch
<1>4. ASSUME NEW r \in Runs, DispatchFails(r) PROVE PromiseInv'
  BY <1>4 DEF DispatchFails
<1>5. ASSUME NEW r \in Runs, RecordTaskId(r) PROVE PromiseInv'
  BY <1>5 DEF RecordTaskId
<1>6. ASSUME NEW r \in Runs, CancelCheck(r) PROVE PromiseInv'
  BY <1>6 DEF CancelCheck
<1>7. ASSUME NEW r \in Runs, CancelCommit(r) PROVE PromiseInv'
  BY <1>7 DEF CancelCommit
<1>8. ASSUME NEW r \in Runs, Redeliver(r) PROVE PromiseInv'
  BY <1>8 DEF Redeliver, Holds
<1>9. ASSUME NEW r \in Runs, Discard(r) PROVE PromiseInv'
  BY <1>9 DEF Discard
<1>10. ASSUME NEW r \in Runs, ExpireResult(r) PROVE PromiseInv'
  BY <1>10 DEF ExpireResult
<1>11. ASSUME NEW r \in Runs, Age(r) PROVE PromiseInv'
  BY <1>11 DEF Age, Holds
<1>12. ASSUME NEW w \in Workers, NEW r \in Runs, Deliver(w, r) PROVE PromiseInv'
  BY <1>12 DEF Deliver
<1>13. ASSUME NEW w \in Workers, Load(w) PROVE PromiseInv'
  BY <1>13 DEF Load
<1>14. ASSUME NEW w \in Workers, CommitTaskId(w) PROVE PromiseInv'
  BY <1>14 DEF CommitTaskId, Goto
<1>15. ASSUME NEW w \in Workers, MarkRunning(w) PROVE PromiseInv'
  BY <1>15 DEF MarkRunning, Goto
<1>16. ASSUME NEW w \in Workers, Reload(w) PROVE PromiseInv'
  BY <1>16 DEF Reload
<1>17. ASSUME NEW w \in Workers, RunReturns(w) PROVE PromiseInv'
  BY <1>17 DEF RunReturns, Goto
<1>18. ASSUME NEW w \in Workers, RunDrifts(w) PROVE PromiseInv'
  BY <1>18 DEF RunDrifts, Goto
<1>19. ASSUME NEW w \in Workers, MarkHealing(w) PROVE PromiseInv'
  BY <1>19 DEF MarkHealing, Goto, Assigned
<1>20. ASSUME NEW w \in Workers, HealFails(w) PROVE PromiseInv'
  BY <1>20 DEF HealFails, Goto
<1>21. ASSUME NEW w \in Workers, HealApplies(w) PROVE PromiseInv'
  BY <1>21 DEF HealApplies, Goto
<1>22. ASSUME NEW w \in Workers, MarkHealed(w) PROVE PromiseInv'
  BY <1>22 DEF MarkHealed, Goto
<1>23. ASSUME NEW w \in Workers, RerunFails(w) PROVE PromiseInv'
  BY <1>23 DEF RerunFails, Goto
<1>24. ASSUME NEW w \in Workers, RefreshRun(w) PROVE PromiseInv'
  BY <1>24 DEF RefreshRun, Goto
<1>25. ASSUME NEW w \in Workers, CommitResults(w) PROVE PromiseInv'
  BY <1>25 DEF CommitResults, Goto, Assigned, FinalStatuses
<1>26. ASSUME NEW w \in Workers, CommitFails(w) PROVE PromiseInv'
  BY <1>26 DEF CommitFails, Goto
<1>27. ASSUME NEW w \in Workers, Raise(w) PROVE PromiseInv'
  BY <1>27 DEF Raise, Goto
<1>28. ASSUME NEW w \in Workers, MarkFailed(w) PROVE PromiseInv'
  BY <1>28 DEF MarkFailed, Assigned
<1>29. ASSUME NEW w \in Workers, MarkFailedFails(w) PROVE PromiseInv'
  BY <1>29 DEF MarkFailedFails
<1>30. ASSUME NEW w \in Workers, Finish(w) PROVE PromiseInv'
  BY <1>30 DEF Finish, Release
<1>31. ASSUME NEW w \in Workers, ProcessDies(w) PROVE PromiseInv'
  BY <1>31 DEF ProcessDies, Release
<1>32. ASSUME NEW w \in Workers, NodeLost(w) PROVE PromiseInv'
  BY <1>32 DEF NodeLost, Release
<1>33. ASSUME NEW w \in Workers, Terminate(w) PROVE PromiseInv'
  BY <1>33 DEF Terminate, Release
<1>34. CASE SweepQuery
  BY <1>34 DEF SweepQuery, RECONCILABLE_STATUSES
<1>35. ASSUME NEW r \in Runs, SweepCheck(r) PROVE PromiseInv'
  BY <1>35 DEF SweepCheck
<1>36. CASE SweepTimeout
  BY <1>36 DEF SweepTimeout
<1>37. CASE SweepEnd
  BY <1>37 DEF SweepEnd
<1> QED
  BY <1>1, <1>2, <1>3, <1>4, <1>5, <1>6, <1>7, <1>8, <1>9, <1>10, <1>11,
     <1>12, <1>13, <1>14, <1>15, <1>16, <1>17, <1>18, <1>19, <1>20, <1>21,
     <1>22, <1>23, <1>24, <1>25, <1>26, <1>27, <1>28, <1>29, <1>30, <1>31,
     <1>32, <1>33, <1>34, <1>35, <1>36, <1>37
     DEF Next, Submit, Cancel, Broker, Execute, Heal, Lost, Sweep

LEMMA PromiseInvariant == Spec => []PromiseInv
<1>1. Init => PromiseInv
  BY PromiseInvInit
<1>2. TypeOK /\ RunInv /\ PromiseInv /\ [Next]_vars => PromiseInv'
  BY PromiseInvStep
<1> QED BY <1>1, <1>2, TypeCorrect, RunInvariant, PTL DEF Spec

\* What the promise sees of a step: a step of its own, or nothing.
Kept == Promise!Next \/ UNCHANGED Promise!vars

\* The variables of the promise that RunLifecycle shares with it.
Record == <<status, starts, applied, results, vetoed>>

LEMMA ClosedIsSettled ==
    /\ Closed \in [Runs -> BOOLEAN]
    /\ \A r \in Runs : Closed[r] <=> Settled(r)
<1>1. \A r \in Runs : Settled(r) \in BOOLEAN
  BY DEF Settled
<1> QED BY <1>1 DEF Closed

LEMMA ClosedIsSettledNext ==
    /\ Closed' \in [Runs -> BOOLEAN]
    /\ \A r \in Runs : Closed'[r] <=> Settled(r)'
<1>1. \A r \in Runs : Settled(r)' \in BOOLEAN
  BY DEF Settled
<1> QED BY <1>1 DEF Closed

LEMMA Untouched ==
    ASSUME UNCHANGED Record, \A q \in Runs : Settled(q)' <=> Settled(q)
    PROVE  Kept
<1>1. Closed' = Closed
  BY ClosedIsSettled, ClosedIsSettledNext
<1> QED BY <1>1 DEF Kept, Record, Promise!vars

\* A step that only changes what keeps run r busy closes r or is a stutter.
LEMMA OneRunLess ==
    ASSUME NEW r \in Runs, UNCHANGED Record, Settled(r) => Settled(r)',
           \A q \in Runs \ {r} : Settled(q)' <=> Settled(q)
    PROVE  Kept
<1>1. CASE Settled(r)' <=> Settled(r)
  BY <1>1, Untouched
<1>2. CASE ~Settled(r) /\ Settled(r)'
  <2>1. Closed' = [Closed EXCEPT ![r] = TRUE]
    BY <1>2, ClosedIsSettled, ClosedIsSettledNext
  <2>2. status[r] \in Terminal
    BY <1>2 DEF Settled, Record
  <2>3. ~Closed[r] /\ status[r] # "none"
    BY <1>2, <2>2, ClosedIsSettled DEF Terminal
  <2> QED BY <2>1, <2>2, <2>3
          DEF Kept, Record, Terminal, Promise!Next, Promise!Close, Promise!Open,
              Promise!Terminal
<1> QED BY <1>1, <1>2

\* A step of a worker on the row of its run closes nothing.
LEMMA HeldIsOpen ==
    ASSUME TypeOK, NEW w \in Workers, pc[w] # "idle",
           UNCHANGED <<job, submit, queued, orphaned, cancel, sweep, doomed>>,
           \A q \in Runs \ {job[w]} : status'[q] = status[q]
    PROVE  Closed' = Closed /\ ~Closed[job[w]] /\ job[w] \in Runs
<1>1. job[w] \in Runs
  BY DEF TypeOK
<1>2. ~Settled(job[w]) /\ ~Settled(job[w])'
  BY <1>1 DEF Settled
<1>3. \A q \in Runs \ {job[w]} : Settled(q)' <=> Settled(q)
  BY DEF Settled
<1> QED BY <1>1, <1>2, <1>3, ClosedIsSettled, ClosedIsSettledNext

\* Everything that leaves the record as it is changes at most how busy one run is.
LEMMA SilentStep ==
    ASSUME TypeOK, PromiseInv, [Next]_vars,
           \/ \E r \in Runs : \/ Dispatch(r) \/ DispatchFails(r) \/ RecordTaskId(r)
                             \/ CancelCheck(r) \/ Broker(r) \/ SweepCheck(r)
                             \/ \E w \in Workers : Deliver(w, r)
           \/ \E w \in Workers :
                 \/ Load(w) \/ CommitTaskId(w) \/ Reload(w) \/ RunReturns(w)
                 \/ RunDrifts(w) \/ HealFails(w) \/ RerunFails(w) \/ RefreshRun(w)
                 \/ CommitFails(w) \/ Raise(w) \/ MarkFailedFails(w) \/ Finish(w)
                 \/ Lost(w)
           \/ SweepQuery \/ SweepEnd
    PROVE  Kept
<1> DEFINE OnlyOf(r) == UNCHANGED Record /\ (\A q \in Runs \ {r} : Settled(q)' <=> Settled(q))
<1> USE ConstantsAssumption DEF TypeOK, Settled, Record
<1>0. ASSUME NEW r \in Runs, OnlyOf(r) PROVE Kept
  <2> HIDE DEF TypeOK, Settled, Record
  <2>1. Settled(r) => Settled(r)'
    BY SettledStep
  <2> QED BY <1>0, <2>1, OneRunLess
<1>1. ASSUME NEW r \in Runs, Dispatch(r) PROVE OnlyOf(r)
  BY <1>1 DEF Dispatch
<1>2. ASSUME NEW r \in Runs, DispatchFails(r) PROVE OnlyOf(r)
  BY <1>2 DEF DispatchFails
<1>3. ASSUME NEW r \in Runs, RecordTaskId(r) PROVE OnlyOf(r)
  BY <1>3 DEF RecordTaskId
<1>4. ASSUME NEW r \in Runs, CancelCheck(r) PROVE OnlyOf(r)
  BY <1>4 DEF CancelCheck
<1>5. ASSUME NEW r \in Runs, Redeliver(r) PROVE OnlyOf(r)
  BY <1>5 DEF Redeliver, Holds
<1>6. ASSUME NEW r \in Runs, Discard(r) PROVE OnlyOf(r)
  BY <1>6 DEF Discard
<1>7. ASSUME NEW r \in Runs, ExpireResult(r) PROVE OnlyOf(r)
  BY <1>7 DEF ExpireResult
<1>8. ASSUME NEW r \in Runs, Age(r) PROVE OnlyOf(r)
  BY <1>8 DEF Age, Holds
<1>9. ASSUME NEW r \in Runs, SweepCheck(r) PROVE OnlyOf(r)
  BY <1>9 DEF SweepCheck
<1>10. ASSUME NEW w \in Workers, NEW r \in Runs, Deliver(w, r) PROVE OnlyOf(r)
  BY <1>10 DEF Deliver, PromiseInv, IdleIsBlank
<1>11. ASSUME NEW w \in Workers, Load(w) PROVE job[w] \in Runs /\ OnlyOf(job[w])
  BY <1>11 DEF Load
<1>12. ASSUME NEW w \in Workers, CommitTaskId(w) PROVE job[w] \in Runs /\ OnlyOf(job[w])
  BY <1>12 DEF CommitTaskId, Goto
<1>13. ASSUME NEW w \in Workers, Reload(w) PROVE job[w] \in Runs /\ OnlyOf(job[w])
  BY <1>13 DEF Reload
<1>14. ASSUME NEW w \in Workers, RunReturns(w) PROVE job[w] \in Runs /\ OnlyOf(job[w])
  BY <1>14 DEF RunReturns, Goto
<1>15. ASSUME NEW w \in Workers, RunDrifts(w) PROVE job[w] \in Runs /\ OnlyOf(job[w])
  BY <1>15 DEF RunDrifts, Goto
<1>16. ASSUME NEW w \in Workers, HealFails(w) PROVE job[w] \in Runs /\ OnlyOf(job[w])
  BY <1>16 DEF HealFails, Goto
<1>17. ASSUME NEW w \in Workers, RerunFails(w) PROVE job[w] \in Runs /\ OnlyOf(job[w])
  BY <1>17 DEF RerunFails, Goto
<1>18. ASSUME NEW w \in Workers, RefreshRun(w) PROVE job[w] \in Runs /\ OnlyOf(job[w])
  BY <1>18 DEF RefreshRun, Goto
<1>19. ASSUME NEW w \in Workers, CommitFails(w) PROVE job[w] \in Runs /\ OnlyOf(job[w])
  BY <1>19 DEF CommitFails, Goto
<1>20. ASSUME NEW w \in Workers, Raise(w) PROVE job[w] \in Runs /\ OnlyOf(job[w])
  BY <1>20 DEF Raise, Goto, Claiming, Executing
<1>21. ASSUME NEW w \in Workers, MarkFailedFails(w) PROVE job[w] \in Runs /\ OnlyOf(job[w])
  BY <1>21 DEF MarkFailedFails
<1>22. ASSUME NEW w \in Workers, Finish(w) PROVE job[w] \in Runs /\ OnlyOf(job[w])
  BY <1>22 DEF Finish, Release
<1>23. ASSUME NEW w \in Workers, ProcessDies(w) PROVE job[w] \in Runs /\ OnlyOf(job[w])
  BY <1>23 DEF ProcessDies, Release
<1>24. ASSUME NEW w \in Workers, NodeLost(w) PROVE job[w] \in Runs /\ OnlyOf(job[w])
  BY <1>24 DEF NodeLost, Release
<1>25. ASSUME NEW w \in Workers, Terminate(w) PROVE job[w] \in Runs /\ OnlyOf(job[w])
  BY <1>25 DEF Terminate, Release
<1>26. ASSUME SweepQuery PROVE Kept
  <2>1. UNCHANGED Record
    BY <1>26 DEF SweepQuery
  <2>2. \A q \in Runs : Settled(q)' => Settled(q)
    BY <1>26 DEF SweepQuery, PromiseInv
  <2> HIDE DEF TypeOK, Settled, Record
  <2>3. \A q \in Runs : Settled(q) => Settled(q)'
    BY SettledStep
  <2> QED BY <2>1, <2>2, <2>3, Untouched
<1>27. ASSUME SweepEnd PROVE Kept
  <2>1. UNCHANGED Record /\ \A q \in Runs : Settled(q)' <=> Settled(q)
    BY <1>27 DEF SweepEnd
  <2> HIDE DEF TypeOK, Settled, Record
  <2> QED BY <2>1, Untouched
<1> HIDE DEF TypeOK, Settled, Record, OnlyOf
<1> QED
  BY <1>0, <1>1, <1>2, <1>3, <1>4, <1>5, <1>6, <1>7, <1>8, <1>9, <1>10, <1>11, <1>12, <1>13, <1>14, <1>15, <1>16, <1>17, <1>18, <1>19, <1>20, <1>21, <1>22, <1>23, <1>24, <1>25, <1>26, <1>27
     DEF Broker, Lost
\* The steps that write the record, each with the step of the promise it is.
LEMMA WritingStep ==
    ASSUME TypeOK, RunInv, PromiseInv, [Next]_vars,
           \/ \E r \in Runs : Create(r) \/ CancelCommit(r)
           \/ \E w \in Workers :
                 \/ MarkRunning(w) \/ MarkHealing(w) \/ HealApplies(w)
                 \/ MarkHealed(w) \/ CommitResults(w) \/ MarkFailed(w)
           \/ SweepTimeout
    PROVE  Kept
<1> USE ConstantsAssumption
<1>1. ASSUME NEW w \in Workers, pc[w] # "idle" PROVE status[job[w]] # "none"
  BY <1>1 DEF TypeOK, RunInv, NotYetSent, PromiseInv, HasRow
<1>2. ASSUME NEW r \in Runs, Create(r) PROVE Kept
  <2>1. status[r] = "none"
    BY <1>2 DEF Create, RunInv, NotYetSent
  <2>2. \A q \in Runs : Settled(q)' <=> Settled(q)
    BY <1>2, <2>1 DEF Create, Settled, TypeOK, Terminal
  <2>3. Closed' = Closed
    BY <2>2, ClosedIsSettled, ClosedIsSettledNext
  <2> QED BY <1>2, <2>1, <2>3
          DEF Create, Kept, Promise!Next, Promise!Create, Promise!Becomes
<1>3. ASSUME NEW r \in Runs, CancelCommit(r) PROVE Kept
  <2>1. ~Settled(r) /\ status[r] # "none"
    BY <1>3 DEF CancelCommit, Settled, RunInv, NotYetSent, PromiseInv, HasRow, TypeOK
  <2>2. \A q \in Runs \ {r} : Settled(q)' <=> Settled(q)
    BY <1>3 DEF CancelCommit, Settled, TypeOK
  <2>3. \E last \in {Closed[r], TRUE} : Closed' = [Closed EXCEPT ![r] = last]
    BY <2>1, <2>2, ClosedIsSettled, ClosedIsSettledNext
  <2>4. \/ UNCHANGED vetoed
        \/ /\ status[r] = "PENDING" /\ starts[r] = 0
           /\ vetoed' = [vetoed EXCEPT ![r] = TRUE]
    <3>1. starts[r] = 0 \/ status[r] # "PENDING"
      BY DEF RunInv, PendingIsUnstarted
    <3>2. vetoed[r] \in BOOLEAN /\ [vetoed EXCEPT ![r] = vetoed[r]] = vetoed
      BY DEF TypeOK
    <3>3. CASE /\ status[r] = "PENDING"
               /\ \A w \in Workers : job[w] = r => pc[w] \notin Claiming
      BY <1>3, <3>1, <3>3 DEF CancelCommit
    <3>4. CASE ~(/\ status[r] = "PENDING"
                 /\ \A w \in Workers : job[w] = r => pc[w] \notin Claiming)
      BY <1>3, <3>2, <3>4 DEF CancelCommit
    <3> QED BY <3>3, <3>4
  <2>5. status' = [status EXCEPT ![r] = "CANCELLED"] /\ UNCHANGED <<starts, applied, results>>
    BY <1>3 DEF CancelCommit
  <2>6. ~Closed[r]
    BY <2>1, ClosedIsSettled
  <2> QED BY <2>1, <2>3, <2>4, <2>5, <2>6
          DEF Kept, Promise!Next, Promise!Interrupt, Promise!Open, Promise!Becomes
<1>4. ASSUME NEW w \in Workers, MarkRunning(w) PROVE Kept
  <2>1. pc[w] = "claimed"
    BY <1>4 DEF MarkRunning, Goto
  <2>2. Closed' = Closed /\ ~Closed[job[w]] /\ job[w] \in Runs
    BY <1>4, <2>1, HeldIsOpen DEF MarkRunning, TypeOK
  <2>3. ~vetoed[job[w]] /\ (AtLeastOnce \/ starts[job[w]] = 0)
    BY <2>1, <2>2 DEF RunInv, VetoHolds, ClaimIsFirst, Claiming
  <2> QED BY <1>1, <1>4, <2>1, <2>2, <2>3
          DEF MarkRunning, Kept, Promise!Next, Promise!Start, Promise!Open,
              Promise!Becomes
<1>5. ASSUME NEW w \in Workers, MarkHealing(w) PROVE Kept
  <2>1. pc[w] = "drifted"
    BY <1>5 DEF MarkHealing, Goto
  <2>2. Closed' = Closed /\ ~Closed[job[w]] /\ job[w] \in Runs
    BY <1>5, <2>1, HeldIsOpen DEF MarkHealing, TypeOK, Assigned
  <2>3. starts[job[w]] > 0
    BY <2>1 DEF PromiseInv, ExecutesStarted, Executing
  <2>4. CASE seen[w] = "HEALING"
    BY <1>5, <2>2, <2>4 DEF MarkHealing, Assigned, Kept, Promise!vars
  <2>5. CASE seen[w] # "HEALING"
    BY <1>1, <1>5, <2>1, <2>2, <2>3, <2>5
       DEF MarkHealing, Assigned, Kept, Promise!Next, Promise!Heal, Promise!Open,
           Promise!Becomes
  <2> QED BY <2>4, <2>5
<1>6. ASSUME NEW w \in Workers, HealApplies(w) PROVE Kept
  <2>1. pc[w] = "healing"
    BY <1>6 DEF HealApplies, Goto
  <2>2. Closed' = Closed /\ ~Closed[job[w]] /\ job[w] \in Runs
    BY <1>6, <2>1, HeldIsOpen DEF HealApplies
  <2>3. starts[job[w]] > 0
    BY <2>1 DEF PromiseInv, ExecutesStarted, Executing
  <2> QED BY <1>1, <1>6, <2>1, <2>2, <2>3
          DEF HealApplies, Kept, Promise!Next, Promise!Repair, Promise!Open
<1>7. ASSUME NEW w \in Workers, MarkHealed(w) PROVE Kept
  <2>1. pc[w] = "rerun"
    BY <1>7 DEF MarkHealed, Goto
  <2>2. Closed' = Closed /\ ~Closed[job[w]] /\ job[w] \in Runs
    BY <1>7, <2>1, HeldIsOpen DEF MarkHealed, TypeOK
  <2>3. applied[job[w]]
    BY <2>1 DEF PromiseInv, HealedIsPatched
  <2> QED BY <1>1, <1>7, <2>1, <2>2, <2>3
          DEF MarkHealed, Kept, Promise!Next, Promise!Healed, Promise!Open,
              Promise!Becomes
<1>8. ASSUME NEW w \in Workers, CommitResults(w) PROVE Kept
  <2> DEFINE r == job[w]
  <2>1. pc[w] = "refreshed"
    BY <1>8 DEF CommitResults, Goto
  <2>2. Closed' = Closed /\ ~Closed[r] /\ r \in Runs
    BY <1>8, <2>1, HeldIsOpen DEF CommitResults, TypeOK, Assigned
  <2>3. starts[r] > 0 /\ status[r] # "none"
    BY <1>1, <2>1 DEF PromiseInv, ExecutesStarted, Executing
  <2>4. PICK final \in FinalStatuses(w, r) : status' = Assigned(r, seen[w], final)
    BY <1>8 DEF CommitResults
  <2>5. \/ final = seen[w]
        \/ final \in {"FAILED", "CONTRACT_VIOLATION",
                      IF applied[r] THEN "HEALED" ELSE "COMPLETED"}
    BY <2>4 DEF FinalStatuses, PromiseInv, HealedIsPatched
  <2>6. [status EXCEPT ![r] = status[r]] = status
    BY <2>2 DEF TypeOK
  <2>7. \E new \in {status[r], "FAILED", "CONTRACT_VIOLATION",
                    IF applied[r] THEN "HEALED" ELSE "COMPLETED"} :
           status' = [status EXCEPT ![r] = new]
    BY <2>4, <2>5, <2>6 DEF Assigned
  <2>8. ~results[r] /\ results' = [results EXCEPT ![r] = TRUE]
        /\ UNCHANGED <<starts, applied, vetoed>>
    BY <1>8 DEF CommitResults
  <2> QED BY <2>2, <2>3, <2>7, <2>8
          DEF Kept, Promise!Next, Promise!Store, Promise!Open, Promise!Becomes
<1>9. ASSUME NEW w \in Workers, MarkFailed(w) PROVE Kept
  <2> DEFINE r == job[w]
  <2>1. pc[w] \in {"failing", "failingDirty"}
    BY <1>9 DEF MarkFailed
  <2>2. Closed' = Closed /\ ~Closed[r] /\ r \in Runs
    BY <1>9, <2>1, HeldIsOpen DEF MarkFailed, TypeOK, Assigned
  <2>3. status[r] # "none"
    BY <1>1, <2>1
  <2>4. status' \in {status, [status EXCEPT ![r] = "FAILED"]}
        /\ UNCHANGED <<starts, applied, vetoed>>
    BY <1>9 DEF MarkFailed, Assigned
  <2>5. [Closed EXCEPT ![r] = Closed[r]] = Closed
        /\ [status EXCEPT ![r] = status[r]] = status
    BY <2>2, ClosedIsSettled DEF TypeOK
  <2>6. CASE UNCHANGED results /\ UNCHANGED status
    BY <2>2, <2>4, <2>6 DEF Kept, Promise!vars
  <2>7. CASE UNCHANGED results /\ status' = [status EXCEPT ![r] = "FAILED"]
    <3>1. Promise!Interrupt(r)
      BY <2>2, <2>3, <2>4, <2>5, <2>7
         DEF Promise!Interrupt, Promise!Open, Promise!Becomes
    <3> QED BY <2>2, <3>1 DEF Kept, Promise!Next
  <2>8. CASE pc[w] = "failingDirty" /\ ~results[r] /\ results' = [results EXCEPT ![r] = TRUE]
    <3>1. starts[r] > 0
      BY <2>8 DEF PromiseInv, ExecutesStarted
    <3>2. Promise!Store(r)
      BY <2>2, <2>3, <2>4, <2>5, <2>8, <3>1
         DEF Promise!Store, Promise!Open, Promise!Becomes
    <3> QED BY <2>2, <3>2 DEF Kept, Promise!Next
  <2> QED BY <1>9, <2>4, <2>6, <2>7, <2>8 DEF MarkFailed
<1>10. ASSUME SweepTimeout PROVE Kept
  <2>1. doomed \in Runs /\ ~Settled(doomed) /\ status[doomed] # "none"
    BY <1>10 DEF SweepTimeout, Settled, RunInv, NotYetSent, PromiseInv, HasRow, TypeOK
  <2>2. \A q \in Runs \ {doomed} : Settled(q)' <=> Settled(q)
    BY <1>10 DEF SweepTimeout, Settled, TypeOK
  <2>3. \E last \in {Closed[doomed], TRUE} : Closed' = [Closed EXCEPT ![doomed] = last]
    BY <2>1, <2>2, ClosedIsSettled, ClosedIsSettledNext
  <2>4. ~Closed[doomed]
    BY <2>1, ClosedIsSettled
  <2> QED BY <1>10, <2>1, <2>3, <2>4
          DEF SweepTimeout, Kept, Promise!Next, Promise!Interrupt, Promise!Open,
              Promise!Becomes
<1> QED BY <1>2, <1>3, <1>4, <1>5, <1>6, <1>7, <1>8, <1>9, <1>10

\* Every step of the parties is a step of the promise or invisible to it.
LEMMA PromiseStep ==
    ASSUME TypeOK, RunInv, PromiseInv, [Next]_vars PROVE Kept
<1>1. CASE UNCHANGED vars
  <2>1. UNCHANGED Record /\ \A q \in Runs : Settled(q)' <=> Settled(q)
    BY <1>1 DEF vars, Record, Settled
  <2> QED BY <2>1, Untouched
<1>2. CASE Next
  BY <1>2, SilentStep, WritingStep
     DEF Next, Submit, Cancel, Execute, Heal, Sweep
<1> QED BY <1>1, <1>2

LEMMA PromiseInit == Init => Promise!Init
<1> SUFFICES ASSUME Init PROVE Promise!Init
  OBVIOUS
<1>1. \A r \in Runs : ~Settled(r)
  BY DEF Init, Settled, Terminal
<1>2. Closed = [r \in Runs |-> FALSE]
  BY <1>1, ClosedIsSettled
<1> QED BY <1>2 DEF Init, Promise!Init

\* The API, the workers, the broker and the reconciler implement the abstract
\* run, for any number of runs, workers and crashes, with duplicate messages
\* (then Repeats holds) and without.
THEOREM RunLifecycleImplementsPipelineRun == Spec => ImplementsPipelineRun
<1>1. Init => Promise!Init
  BY PromiseInit
<1>2. TypeOK /\ RunInv /\ PromiseInv /\ [Next]_vars => [Promise!Next]_(Promise!vars)
  BY PromiseStep DEF Kept
<1> QED BY <1>1, <1>2, TypeCorrect, RunInvariant, PromiseInvariant, PTL
        DEF Spec, ImplementsPipelineRun, Promise!Spec
=============================================================================
