-------------------------- MODULE StreamingProofs --------------------------
(***************************************************************************)
(* Proofs about Streaming.  Three inductive invariants, each resting on    *)
(* the one before: TypeInv (types, and the offsets that are in bounds),    *)
(* ConsumerInv (a daemon in a consumer group has inserted the row of its   *)
(* run, which the primary key grants once) and HandledInv (what a daemon   *)
(* has fetched, handled, produced and committed, by its place in the       *)
(* loop).  What a fetch takes of a partition is an interval of offsets, so *)
(* the position is just behind it and a commit skips nothing.              *)
(***************************************************************************)
EXTENDS Streaming, FiniteSetTheorems, WellFoundedInduction, TLAPS

-----------------------------------------------------------------------------
(* Operators.                                                              *)

\* A set of offsets that is not empty has a largest member.
LEMMA MaxOfOffsets ==
    ASSUME NEW n \in Nat, NEW S, S \subseteq 0..n, S # {}
    PROVE  Max(S) \in S /\ \A o \in S : o <= Max(S)
  <1> DEFINE T == {n - o : o \in S}
  <1>b. \A o \in S : o \in Nat /\ n - o \in Nat OBVIOUS
  <1>1. T \subseteq Nat /\ T # {} BY <1>b
  <1> DEFINE R == {ss \in Nat \X Nat : ss[1] < ss[2]}
  <1>2. IsWellFoundedOn(R, Nat) BY NatLessThanWellFounded DEF OpToRel
  <1>a. \E x \in T : \A y \in T : ~(<<y, x>> \in R)
    <2> HIDE DEF R, T
    <2> QED BY <1>1, <1>2, WFMin
  <1>3. PICK x \in T : \A y \in T : ~(y < x)
    <2>1. PICK x \in T : \A y \in T : ~(<<y, x>> \in R) BY <1>a
    <2>2. \A y \in T : y < x => <<y, x>> \in R BY <1>1, <2>1
    <2> QED BY <2>1, <2>2
  <1>4. PICK m \in S : x = n - m OBVIOUS
  <1>5. \A o \in S : m >= o
    <2> TAKE o \in S
    <2>1. n - o \in T OBVIOUS
    <2>2. ~(n - o < n - m) BY <1>3, <1>4, <2>1
    <2> QED BY <2>2, <1>b
  <1>6. \E m0 \in S : \A o \in S : m0 >= o BY <1>5
  <1>7. Max(S) \in S /\ \A o \in S : Max(S) >= o BY <1>6 DEF Max
  <1> QED BY <1>7

\* What a fetch takes of a partition is a run of offsets from the position
\* on: adding their number to the position moves it just behind them.
LEMMA FetchedIsInterval ==
    ASSUME NEW p, NEW a \in Nat, NEW n \in Nat, NEW S,
           S \subseteq {p} \X (a..n),
           \A m \in S : \A o \in a..m[2] : <<p, o>> \in S
    PROVE  /\ Cardinality(S) \in Nat
           /\ \A o \in Nat : a <= o /\ o < a + Cardinality(S) => <<p, o>> \in S
           /\ \A m \in S : m[2] < a + Cardinality(S)
           /\ a <= n + 1 => a + Cardinality(S) <= n + 1
  <1>1. \A i, j \in Nat : /\ IsFiniteSet({p} \X (i..j))
                          /\ i <= j => Cardinality({p} \X (i..j)) = j - i + 1
                          /\ i > j => Cardinality({p} \X (i..j)) = 0
    <2> TAKE i, j \in Nat
    <2>1. IsFiniteSet(i..j) /\ Cardinality(i..j) = IF i > j THEN 0 ELSE j - i + 1
      BY FS_Interval
    <2>2. IsFiniteSet({p}) /\ Cardinality({p}) = 1 BY FS_Singleton
    <2>3. /\ IsFiniteSet({p} \X (i..j))
          /\ Cardinality({p} \X (i..j)) = Cardinality({p}) * Cardinality(i..j)
      BY <2>1, <2>2, FS_Product
    <2> QED BY <2>1, <2>2, <2>3
  <1>2. IsFiniteSet(S) BY <1>1, FS_Subset
  <1>3. Cardinality(S) \in Nat BY <1>2, FS_CardinalityType
  <1>4. ASSUME NEW o \in Nat, a <= o, o < a + Cardinality(S)
        PROVE  <<p, o>> \in S
    <2> SUFFICES ASSUME <<p, o>> \notin S PROVE FALSE OBVIOUS
    <2>1. \A m \in S : m[2] < o
      BY <1>4
    <2>2. CASE o = a
      <3>1. S = {} BY <2>1, <2>2
      <3> QED BY <3>1, <1>4, <2>2, FS_EmptySet
    <2>3. CASE o > a
      <3>1. S \subseteq {p} \X (a..(o - 1)) BY <2>1
      <3>3. o - 1 \in Nat BY <2>3
      <3>5. IsFiniteSet({p} \X (a..(o - 1))) BY <1>1, <3>3
      <3>2. Cardinality(S) <= Cardinality({p} \X (a..(o - 1)))
        BY <3>1, <3>5, FS_Subset
      <3>6. a <= o - 1 /\ (o - 1) - a + 1 = o - a BY <2>3
      <3>4. Cardinality({p} \X (a..(o - 1))) = o - a BY <1>1, <3>3, <3>6
      <3> QED BY <3>2, <3>4, <1>3, <1>4
    <2> QED BY <2>2, <2>3, <1>4
  <1>5. ASSUME NEW m \in S PROVE m[2] < a + Cardinality(S)
    <2>1. {p} \X (a..m[2]) \subseteq S /\ m[2] \in Nat /\ a <= m[2] OBVIOUS
    <2> DEFINE U == {p} \X (a..m[2])
    <2>4. U \in SUBSET S BY <2>1
    <2>2. Cardinality(U) <= Cardinality(S)
      <3> HIDE DEF U
      <3> QED BY <2>4, <1>2, FS_Subset
    <2>3. Cardinality(U) = m[2] - a + 1 BY <1>1, <2>1
    <2> QED BY <2>1, <2>2, <2>3, <1>3
  <1>6. ASSUME a <= n + 1 PROVE a + Cardinality(S) <= n + 1
    <2>1. Cardinality(S) <= Cardinality({p} \X (a..n)) BY <1>1, FS_Subset
    <2> QED BY <2>1, <1>1, <1>3, <1>6
  <1> QED BY <1>3, <1>4, <1>5, <1>6

\* What Fetchable leaves of a partition has the shape of FetchedIsInterval.
LEMMA FetchedOf ==
    ASSUME pos \in [Partitions -> Nat], NEW d \in Daemons, NEW b \in Fetchable(d), NEW p \in Partitions
    PROVE  LET S == {m \in b : m[1] = p}
           IN /\ Cardinality(S) \in Nat
              /\ \A o \in Nat : pos[p] <= o /\ o < pos[p] + Cardinality(S) => <<p, o>> \in b
              /\ \A m \in S : m[2] < pos[p] + Cardinality(S)
  <1> DEFINE S == {m \in b : m[1] = p}
  <1>1. b \subseteq Messages /\ \A m \in b : pos[m[1]] <= m[2] BY DEF Fetchable
  <1>2. \A m \in b : \A o \in pos[m[1]]..m[2] : <<m[1], o>> \in b BY DEF Fetchable
  <1>3. S \subseteq {p} \X (pos[p]..MaxMsgs)
    BY <1>1, StreamingAssumption DEF Messages, Offsets
  <1>4. \A m \in S : \A o \in pos[p]..m[2] : <<p, o>> \in S BY <1>2
  <1>5. pos[p] \in Nat /\ MaxMsgs \in Nat BY StreamingAssumption
  <1>6. /\ Cardinality(S) \in Nat
        /\ \A o \in Nat : pos[p] <= o /\ o < pos[p] + Cardinality(S) => <<p, o>> \in S
        /\ \A m \in S : m[2] < pos[p] + Cardinality(S)
    <2> HIDE DEF S
    <2> QED BY <1>3, <1>4, <1>5, FetchedIsInterval
  <1> QED BY <1>6

\* The part of Consume that does not depend on what becomes of the batch.
Fetches(d, b, old) ==
    /\ pos' = [p \in Partitions |-> pos[p] + Cardinality({m \in b : m[1] = p})]
    /\ batch' = [batch EXCEPT ![d] = Dedup(d, b)]
    /\ processed' = [processed EXCEPT ![d] = (@ \union b) \ old]
    /\ trimmed' = [trimmed EXCEPT ![d] = @ \union old]
    /\ published' = [published EXCEPT ![d] = @ \union Dedup(d, b)]

LEMMA ConsumeFetches ==
    ASSUME TypeOK, NEW d \in Daemons, Consume(d)
    PROVE  \E b \in Fetchable(d) : \E old \in Trims(processed[d] \union b) : Fetches(d, b, old)
  <1>1. PICK b \in Fetchable(d) :
          /\ pos' = [p \in Partitions |-> pos[p] + Cardinality({m \in b : m[1] = p})]
          /\ batch' = [batch EXCEPT ![d] = Dedup(d, b)]
          /\ \E old \in Trims(processed[d] \union b) :
               /\ processed' = [processed EXCEPT ![d] = (@ \union b) \ old]
               /\ trimmed' = [trimmed EXCEPT ![d] = @ \union old]
    BY DEF Consume
  <1>2. batch'[d] = Dedup(d, b) BY <1>1 DEF TypeOK
  <1>3. published' = [published EXCEPT ![d] = @ \union Dedup(d, b)] BY <1>2 DEF Consume
  <1> QED BY <1>1, <1>3 DEF Fetches

\* The offset of the last message of a batch in a partition.
LargestIn(d, p) == Max({m[2] : m \in {n \in batch[d] : n[1] = p}})

LEMMA LastOfBatch ==
    ASSUME batch \in [Daemons -> SUBSET Messages], NEW d \in Daemons,
           NEW p \in {m[1] : m \in batch[d]}
    PROVE  /\ p \in Partitions
           /\ LargestIn(d, p) \in Nat
           /\ \E m \in batch[d] : m[1] = p /\ m[2] = LargestIn(d, p)
  <1> DEFINE S == {m[2] : m \in {n \in batch[d] : n[1] = p}}
  <1>1. \A m \in batch[d] : m[1] \in Partitions /\ m[2] \in 0..MaxMsgs
    BY StreamingAssumption DEF Messages, Offsets
  <1>2. S \subseteq 0..MaxMsgs /\ S # {} BY <1>1
  <1>3. Max(S) \in S
    <2> HIDE DEF S
    <2> QED BY <1>2, MaxOfOffsets, StreamingAssumption
  <1>4. LargestIn(d, p) = Max(S) BY DEF LargestIn
  <1>5. p \in Partitions BY <1>1
  <1>6. Max(S) \in Nat
    <2> HIDE DEF S
    <2>1. 0..MaxMsgs \subseteq Nat BY StreamingAssumption
    <2> QED BY <1>2, <1>3, <2>1
  <1>7. PICK m \in batch[d] : m[1] = p /\ m[2] = Max(S) BY <1>3
  <1> HIDE DEF S
  <1> QED BY <1>4, <1>5, <1>6, <1>7

-----------------------------------------------------------------------------
(* Types.                                                                  *)

\* Tasks stay within their numbers, a daemon at work has one, and a loop
\* that goes on is below the error limit.
Bounds ==
    /\ \A r \in Runs : sent[r] <= events + 1 /\ task[r] <= events + 1
    /\ \A d \in Daemons : pc[d] # "none" => runOf[d] \in Tasks
    /\ \A d \in Daemons : pc[d] \in Looping => errors[d] < MaxErrors
    /\ \A d \in Daemons : pc[d] \in {"none", "start", "init"} => errors[d] = 0

TypeInv == TypeOK /\ Bounds

LEMMA TypeInit == Init => TypeInv
  BY StreamingAssumption DEF Init, TypeInv, TypeOK, Bounds, Looping, Statuses, NoTask, Nobody

LEMMA LeaveTypes ==
    ASSUME TypeInv, NEW d \in Daemons, Leave(d), events' \in 0..MaxEvents, events <= events',
           UNCHANGED <<sent, task>>
    PROVE  /\ pc' \in [Daemons -> {"none", "start", "init", "ending"} \union Looping]
           /\ runOf' \in [Daemons -> Tasks \union {NoTask}]
           /\ batch' \in [Daemons -> SUBSET Messages]
           /\ processed' \in [Daemons -> SUBSET Messages]
           /\ published' \in [Daemons -> SUBSET Messages] /\ trimmed' \in [Daemons -> SUBSET Messages]
           /\ batches' \in [Daemons -> Nat]
           /\ errors' \in [Daemons -> 0..MaxErrors]
           /\ Bounds'
  <1> USE StreamingAssumption DEF TypeInv, TypeOK, Leave
  <1>1. Bounds' BY DEF Bounds, Looping, Tasks
  <1> QED BY <1>1

LEMMA TypeStep == TypeInv /\ [Next]_vars => TypeInv'
  <1> SUFFICES ASSUME TypeInv, [Next]_vars PROVE TypeInv' OBVIOUS
  <1> USE StreamingAssumption DEF TypeInv
  <1>1. ASSUME NEW p \in Partitions, Produce(p) PROVE TypeInv'
    BY <1>1 DEF Produce, TypeOK, Bounds, rowVars, taskVars, daemonVars, Tasks
  <1>2. CASE Rebalance
    <2>1. owner' \in [Partitions -> Daemons \union {Nobody}] BY <1>2 DEF Rebalance, Members, TypeOK
    <2>2. pos' \in [Partitions -> Nat] BY <1>2 DEF Rebalance, TypeOK
    <2>3. events' \in 0..MaxEvents /\ events <= events' BY <1>2 DEF Rebalance, TypeOK
    <2> QED BY <1>2, <2>1, <2>2, <2>3 DEF Rebalance, TypeOK, Bounds, rowVars, taskVars, daemonVars, Tasks
  <1>3. ASSUME NEW r \in Runs, Submit(r) PROVE TypeInv'
    BY <1>3 DEF Submit, TypeOK, Bounds, groupVars, daemonVars, Tasks, Statuses
  <1>4. ASSUME NEW r \in Runs, SubmitRecord(r) PROVE TypeInv'
    BY <1>4 DEF SubmitRecord, TypeOK, Bounds, taskVars, groupVars, daemonVars, Tasks, Statuses, Live
  <1>5. ASSUME NEW r \in Runs, NEW op \in Ops, Request(r, op) PROVE TypeInv'
    <2>1. events' \in 0..MaxEvents /\ events' = events + 1 BY <1>5 DEF Request, TypeOK
    <2>2. sent' \in [Runs -> Nat] /\ \A q \in Runs : sent'[q] <= events' + 1
      BY <1>5, <2>1 DEF Request, TypeOK, Bounds
    <2>3. revoked' \subseteq Tasks BY <1>5, <2>1 DEF Request, TypeOK, Bounds, Tasks
    <2>4. queue' \subseteq Tasks
      <3>1. op = "restart" => sent'[r] \in 1..(MaxEvents + 1) BY <1>5, <2>1 DEF Request, TypeOK, Bounds
      <3> QED BY <1>5, <3>1 DEF Request, TypeOK, Tasks
    <2>5. requests' \in [Runs -> SUBSET Ops] BY <1>5 DEF Request, TypeOK
    <2> QED BY <1>5, <2>1, <2>2, <2>3, <2>4, <2>5 DEF Request, TypeOK, Bounds, groupVars, daemonVars
  <1>6. ASSUME NEW r \in Runs, NEW op \in Ops, Write(r, op) PROVE TypeInv'
    <2>1. Written(op) \in Statuses BY DEF Written, Statuses, Live, Ops
    <2> QED BY <1>6, <2>1 DEF Write, TypeOK, Bounds, taskVars, groupVars, daemonVars
  <1>7. ASSUME NEW d \in Daemons, NEW t \in queue, Deliver(d, t) PROVE TypeInv'
    <2>1. t \in Tasks BY DEF TypeOK
    <2> QED BY <1>7, <2>1 DEF Deliver, TypeOK, Bounds, rowVars, groupVars, Looping
  <1>8. ASSUME NEW d \in Daemons, Terminate(d) PROVE TypeInv'
    BY <1>8, LeaveTypes DEF Terminate, TypeOK, rowVars, taskVars
  <1>9. ASSUME NEW d \in Daemons, NEW dies \in BOOLEAN, Redeliver(d, dies) PROVE TypeInv'
    <2>1. runOf[d] \in Tasks BY <1>9 DEF Redeliver, Bounds
    <2>2. events' \in 0..MaxEvents /\ events <= events' BY <1>9 DEF Redeliver, TypeOK
    <2>3. CASE dies
      BY <1>9, <2>1, <2>2, <2>3, LeaveTypes DEF Redeliver, TypeOK, rowVars
    <2>4. CASE ~dies
      BY <1>9, <2>1, <2>2, <2>4 DEF Redeliver, TypeOK, rowVars, daemonVars, Bounds
    <2> QED BY <2>3, <2>4
  <1>10. ASSUME NEW d \in Daemons, Start(d) PROVE TypeInv'
    BY <1>10 DEF Start, SetStatus, TypeOK, Bounds, taskVars, groupVars, Statuses, Live, Looping
  <1>11. ASSUME NEW d \in Daemons, InitStats(d) PROVE TypeInv'
    <2>1. CASE InsertFails(runOf[d][1])
      BY <1>11, <2>1, LeaveTypes DEF InitStats, TypeOK, taskVars
    <2>2. CASE ~InsertFails(runOf[d][1])
      <3>1. pc[d] = "init" /\ pc' = [pc EXCEPT ![d] = "top"] /\ UNCHANGED <<runOf, batch, processed, batches, errors, published, trimmed>>
        BY <1>11, <2>2 DEF InitStats
      <3>2. statsRow' \in [Runs -> BOOLEAN] BY <1>11, <2>2 DEF InitStats, TypeOK
      <3>3. errors[d] = 0 BY <3>1 DEF Bounds
      <3>4. Bounds' BY <1>11, <3>1, <3>3 DEF InitStats, TypeOK, Bounds, taskVars, Looping, Tasks
      <3> QED BY <1>11, <3>1, <3>2, <3>4 DEF InitStats, TypeOK, taskVars, Looping
    <2> QED BY <2>1, <2>2
  <1>12. ASSUME NEW d \in Daemons, Top(d) PROVE TypeInv'
    BY <1>12 DEF Top, Goto, Keep, TypeOK, Bounds, rowVars, taskVars, groupVars, Looping
  <1>13. ASSUME NEW d \in Daemons, HandlePause(d) PROVE TypeInv'
    BY <1>13 DEF HandlePause, Goto, Keep, TypeOK, Bounds, rowVars, taskVars, groupVars, Looping
  <1>14. ASSUME NEW d \in Daemons, Backpressure(d) PROVE TypeInv'
    BY <1>14 DEF Backpressure, GoesOn, Goto, Keep, TypeOK, Bounds, rowVars, taskVars, groupVars, Looping
  <1>15. ASSUME NEW d \in Daemons, Consume(d) PROVE TypeInv'
    <2>0. PICK b \in Fetchable(d) : \E old \in Trims(processed[d] \union b) : Fetches(d, b, old)
      BY <1>15, ConsumeFetches
    <2>1. PICK old \in Trims(processed[d] \union b) : Fetches(d, b, old) BY <2>0
    <2>2. b \subseteq Messages /\ Dedup(d, b) \subseteq Messages BY DEF Fetchable, Dedup
    <2>8. old \subseteq Messages BY <2>2 DEF Trims, kSubset, TypeOK
    <2>3. /\ batch' \in [Daemons -> SUBSET Messages] /\ processed' \in [Daemons -> SUBSET Messages]
          /\ published' \in [Daemons -> SUBSET Messages] /\ trimmed' \in [Daemons -> SUBSET Messages]
      BY <2>1, <2>2, <2>8 DEF TypeOK, Fetches
    <2>4. pos' \in [Partitions -> Nat]
      <3>1. \A p \in Partitions : Cardinality({m \in b : m[1] = p}) \in Nat
        BY FetchedOf DEF TypeOK
      <3> QED BY <2>1, <3>1 DEF TypeOK, Fetches
    <2>5. pc[d] \in Looping BY <1>15 DEF Consume, GoesOn, Looping
    <2>6. /\ pc' \in [Daemons -> {"none", "start", "init", "ending"} \union Looping]
          /\ batches' \in [Daemons -> Nat] /\ errors' \in [Daemons -> 0..MaxErrors]
          /\ \A e \in Daemons : e # d => pc'[e] = pc[e] /\ errors'[e] = errors[e]
          /\ pc'[d] \in {"top", "commit"} \/ pc'[d] = "ending"
          /\ pc'[d] # "ending" => errors'[d] < MaxErrors
      <3>1. errors[d] \in Nat /\ errors[d] < MaxErrors BY <2>5 DEF Bounds, TypeOK
      <3>2. CASE batch'[d] = {} BY <1>15, <3>2, <3>1 DEF Consume, Goto, Looping, TypeOK
      <3>3. CASE batch'[d] # {} /\ NothingParsed(d)
        BY <3>3, <3>1 DEF NothingParsed, Goto, Looping, TypeOK
      <3>4. CASE batch'[d] # {} /\ StepsFail(d)
        BY <3>4, <3>1 DEF StepsFail, AfterError, Goto, Looping, TypeOK
      <3>5. CASE batch'[d] # {} /\ Publish(d)
        <4>0. batches \in [Daemons -> Nat] /\ batches' = [batches EXCEPT ![d] = @ + 1]
          BY <3>5 DEF Publish, TypeOK
        <4>1. batches' \in [Daemons -> Nat] BY <4>0
        <4>2. /\ errors' \in [Daemons -> 0..MaxErrors] /\ errors'[d] = 0
              /\ \A e \in Daemons : e # d => errors'[e] = errors[e]
          BY <3>5 DEF Publish, TypeOK
        <4>3. /\ pc' \in [Daemons -> {"none", "start", "init", "ending"} \union Looping]
              /\ pc'[d] = "commit" /\ \A e \in Daemons : e # d => pc'[e] = pc[e]
          BY <3>5 DEF Publish, Goto, Looping, TypeOK
        <4> QED BY <4>1, <4>2, <4>3
      <3> QED BY <1>15, <3>2, <3>3, <3>4, <3>5 DEF Consume
    <2>9. events' \in 0..MaxEvents /\ events <= events'
      BY <1>15 DEF Consume, NothingParsed, StepsFail, Publish, TypeOK
    <2>10. UNCHANGED <<sent, task, runOf>> BY <1>15 DEF Consume, rowVars, taskVars
    <2>11. \A r \in Runs : sent'[r] <= events' + 1 /\ task'[r] <= events' + 1
      BY <2>9, <2>10 DEF Bounds, TypeOK
    <2>7. Bounds' BY <2>10, <2>11, <2>5, <2>6 DEF Bounds, Looping
    <2> QED BY <1>15, <2>3, <2>4, <2>6, <2>7, <2>9 DEF Consume, TypeOK, rowVars, taskVars
  <1>16. ASSUME NEW d \in Daemons, Commit(d) PROVE TypeInv'
    <2>1. PICK p \in {m[1] : m \in batch[d]} :
            committed' = [committed EXCEPT ![p] = Max({m[2] : m \in {n \in batch[d] : n[1] = p}}) + 1]
      BY <1>16 DEF Commit
    <2>2. LargestIn(d, p) \in Nat BY <2>1, LastOfBatch DEF TypeOK
    <2>4. committed' = [committed EXCEPT ![p] = LargestIn(d, p) + 1] BY <2>1 DEF LargestIn
    <2>5. committed \in [Partitions -> Int] BY DEF TypeOK
    <2>6. LargestIn(d, p) + 1 \in Int BY <2>2
    <2>3. committed' \in [Partitions -> Int] BY <2>4, <2>5, <2>6, Zenon
    <2> QED BY <1>16, <2>3 DEF Commit, Goto, Keep, TypeOK, Bounds, rowVars, taskVars, Looping
  <1>17. ASSUME NEW d \in Daemons, Raise(d) PROVE TypeInv'
    <2>1. events' \in 0..MaxEvents /\ events <= events' BY <1>17 DEF Raise, TypeOK
    <2> QED BY <1>17, <2>1, LeaveTypes DEF Raise, SetStatus, Statuses, TypeOK, taskVars
  <1>18. ASSUME NEW d \in Daemons, Ending(d) PROVE TypeInv'
    <2>1. status' \in [Runs -> Statuses] BY <1>18 DEF Ending, SetStatus, Statuses, TypeOK
    <2>2. events' \in 0..MaxEvents /\ events <= events' BY <1>18 DEF Ending, TypeOK
    <2> QED BY <1>18, <2>1, <2>2, LeaveTypes DEF Ending, TypeOK, taskVars
  <1>19. CASE UNCHANGED vars
    BY <1>19 DEF vars, rowVars, taskVars, groupVars, daemonVars, TypeOK, Bounds, Tasks
  <1> QED BY <1>1, <1>2, <1>3, <1>4, <1>5, <1>6, <1>7, <1>8, <1>9, <1>10, <1>11, <1>12, <1>13,
             <1>14, <1>15, <1>16, <1>17, <1>18, <1>19 DEF Next, Loop

\* The type invariant: daemons, their batches and the broker's offsets keep
\* their types and bounds over polls, rebalances, crashes and restarts.
THEOREM StreamingTypeCorrect == Spec => []TypeOK
  <1>1. Spec => []TypeInv BY TypeInit, TypeStep, PTL DEF Spec
  <1> QED BY <1>1, PTL DEF TypeInv

-----------------------------------------------------------------------------
(* One consumer per run.                                                   *)

\* A daemon joins the group only after it has inserted the row of its run.
ConsumersHaveRow == \A d \in Members : statsRow[runOf[d][1]]

ConsumerInv == ConsumersHaveRow /\ OneConsumer

\* All steps but a first insert only let daemons go.
NoneJoins ==
    /\ \A d \in Members' : d \in Members /\ runOf'[d] = runOf[d]
    /\ UNCHANGED statsRow

LEMMA LeavingIsNotJoining ==
    ASSUME TypeInv, NEW d \in Daemons, Leave(d), UNCHANGED statsRow
    PROVE  NoneJoins
  BY DEF Leave, NoneJoins, Members, Looping, TypeInv, TypeOK

LEMMA Joining ==
    ASSUME TypeInv, [Next]_vars
    PROVE  NoneJoins \/ \E d \in Daemons : InitStats(d) /\ ~InsertFails(runOf[d][1])
  <1> USE DEF TypeInv
  <1>1. CASE UNCHANGED <<pc, runOf, statsRow>> BY <1>1 DEF NoneJoins, Members
  <1>2. ASSUME NEW p \in Partitions, Produce(p) PROVE UNCHANGED <<pc, runOf, statsRow>>
    BY <1>2 DEF Produce, rowVars, daemonVars
  <1>3. CASE Rebalance BY <1>1, <1>3 DEF Rebalance, rowVars, daemonVars
  <1>4. ASSUME NEW r \in Runs, NEW op \in Ops,
               Submit(r) \/ SubmitRecord(r) \/ Request(r, op) \/ Write(r, op)
        PROVE  UNCHANGED <<pc, runOf, statsRow>>
    BY <1>4 DEF Submit, SubmitRecord, Request, Write, daemonVars
  <1>5. ASSUME NEW d \in Daemons, NEW t \in queue, Deliver(d, t) PROVE NoneJoins
    BY <1>5 DEF Deliver, NoneJoins, Members, Looping, rowVars, TypeOK
  <1>6. ASSUME NEW d \in Daemons, Terminate(d) \/ Raise(d) \/ Ending(d) PROVE NoneJoins
    BY <1>6, LeavingIsNotJoining DEF Terminate, Raise, Ending, rowVars
  <1>7. ASSUME NEW d \in Daemons, NEW dies \in BOOLEAN, Redeliver(d, dies) PROVE NoneJoins
    <2>1. CASE dies BY <1>7, <2>1, LeavingIsNotJoining DEF Redeliver, rowVars
    <2>2. CASE ~dies BY <1>7, <2>2 DEF Redeliver, rowVars, daemonVars, NoneJoins, Members
    <2> QED BY <2>1, <2>2
  <1>8. ASSUME NEW d \in Daemons, Start(d) PROVE NoneJoins
    BY <1>8 DEF Start, NoneJoins, Members, Looping, TypeOK
  <1>9. ASSUME NEW d \in Daemons, InitStats(d), InsertFails(runOf[d][1]) PROVE NoneJoins
    BY <1>9, LeavingIsNotJoining DEF InitStats
  <1>10. ASSUME NEW d \in Daemons, Top(d) \/ HandlePause(d) \/ Backpressure(d) \/ Commit(d)
         PROVE  NoneJoins
    BY <1>10 DEF Top, HandlePause, Backpressure, Commit, GoesOn, Goto, Keep, rowVars, NoneJoins,
                 Members, Looping, TypeOK
  <1>11. ASSUME NEW d \in Daemons, Consume(d) PROVE NoneJoins
    <2>1. pc[d] \in Looping /\ UNCHANGED <<runOf, statsRow>>
      BY <1>11 DEF Consume, GoesOn, Looping, rowVars
    <2>2. Goto(d, "top") \/ Goto(d, "commit") \/ Goto(d, "ending")
      BY <1>11 DEF Consume, NothingParsed, StepsFail, Publish, AfterError
    <2> QED BY <2>1, <2>2 DEF Goto, NoneJoins, Members, Looping, TypeOK
  <1>12. Ops # {} BY DEF Ops
  <1>13. CASE UNCHANGED vars BY <1>1, <1>13 DEF vars, rowVars, daemonVars
  <1> QED BY <1>1, <1>2, <1>3, <1>4, <1>5, <1>6, <1>7, <1>8, <1>9, <1>10, <1>11, <1>12, <1>13
          DEF Next, Loop

LEMMA ConsumerStep == ConsumerInv /\ TypeInv /\ [Next]_vars => ConsumerInv'
  <1> SUFFICES ASSUME ConsumerInv, TypeInv, [Next]_vars PROVE ConsumerInv' OBVIOUS
  <1>1. CASE NoneJoins
    BY <1>1 DEF NoneJoins, ConsumerInv, ConsumersHaveRow, OneConsumer
  <1>2. ASSUME NEW d \in Daemons, InitStats(d), ~InsertFails(runOf[d][1]) PROVE ConsumerInv'
    <2> DEFINE r == runOf[d][1]
    <2>1. /\ statsRow' = [statsRow EXCEPT ![r] = TRUE] /\ UNCHANGED runOf
          /\ pc' = [pc EXCEPT ![d] = "top"] /\ pc[d] = "init" /\ ~statsRow[r]
      BY <1>2 DEF InitStats, InsertFails
    <2>2. Members' = Members \union {d} BY <2>1 DEF Members, Looping, TypeInv, TypeOK
    <2>3. r \in Runs
      <3>1. runOf[d] \in Tasks BY <2>1 DEF TypeInv, Bounds
      <3> QED BY <3>1 DEF Tasks
    <2>4. \A e \in Members : runOf[e][1] # r BY <2>1 DEF ConsumerInv, ConsumersHaveRow
    <2>5. statsRow'[r] /\ \A q \in Runs : statsRow[q] => statsRow'[q]
      BY <2>1, <2>3 DEF TypeInv, TypeOK
    <2>6. \A e \in Members : runOf[e][1] \in Runs
      <3>1. \A e \in Members : runOf[e] \in Tasks BY DEF Members, Looping, TypeInv, Bounds
      <3> QED BY <3>1 DEF Tasks
    <2>7. ConsumersHaveRow'
      BY <2>1, <2>2, <2>5, <2>6 DEF ConsumerInv, ConsumersHaveRow
    <2>8. OneConsumer' BY <2>1, <2>2, <2>4 DEF ConsumerInv, OneConsumer
    <2> QED BY <2>7, <2>8 DEF ConsumerInv
  <1> QED BY <1>1, <1>2, Joining

\* Whatever is delivered twice or restarted, no run has two consumers at a
\* time: the second insert of _init_stats fails before it subscribes.
THEOREM ConsumersExclusive == Spec => []OneConsumer
  <1>1. Init => ConsumerInv
    BY DEF Init, ConsumerInv, ConsumersHaveRow, OneConsumer, Members, Looping
  <1>2. Spec => []TypeInv BY TypeInit, TypeStep, PTL DEF Spec
  <1>3. Spec => []ConsumerInv BY <1>1, <1>2, ConsumerStep, PTL DEF Spec
  <1> QED BY <1>3, PTL DEF ConsumerInv

-----------------------------------------------------------------------------
(* What is committed has been dealt with.                                  *)

\* All that lies before the position of a partition has been dealt with.
ReadIsHandled == \A m \in Messages : m[2] < pos[m[1]] => m \in Handled \union skipped

\* A message is left out as a duplicate only after it was dealt with.
ProcessedIsSettled == \A d \in Daemons : processed[d] \subseteq Handled

\* Until its offset is committed a batch lies before the positions: no
\* rebalance rewinds them in between.
BatchIsRead ==
    \A d \in Daemons : pc[d] = "commit" => \A m \in batch[d] : m[2] < pos[m[1]]

\* What a daemon has handed on it remembers, or has dropped.
PublishedIsKnown == \A d \in Daemons : published[d] \subseteq processed[d] \union trimmed[d]

HandledInv ==
    /\ ReadIsHandled /\ ProcessedIsSettled /\ BatchIsRead /\ PublishedIsKnown /\ CommittedIsHandled

\* Steps that read nothing and commit nothing: at most a daemon ends, with
\* what it remembers, or changes its place in the program.
Forgets ==
    /\ UNCHANGED <<pos, Handled, skipped, committed>>
    /\ \A d \in Daemons :
         \/ UNCHANGED <<batch[d], processed[d], published[d], trimmed[d]>>
            /\ (pc'[d] = "commit" => pc[d] = "commit")
         \/ /\ batch'[d] = {} /\ processed'[d] = {} /\ published'[d] = {} /\ trimmed'[d] = {}
            /\ pc'[d] = "none"

LEMMA LeavingForgets ==
    ASSUME TypeInv, NEW d \in Daemons, Leave(d), UNCHANGED <<pos, skipped, committed>>
    PROVE  Forgets
  BY DEF Leave, Forgets, TypeInv, TypeOK, Handled, fateVars

LEMMA Progress ==
    ASSUME TypeInv, [Next]_vars
    PROVE  Forgets \/ Rebalance \/ \E d \in Daemons : Consume(d) \/ Commit(d)
  <1> USE DEF TypeInv, Handled, fateVars
  <1>1. ASSUME UNCHANGED <<pos, Handled, skipped, committed, batch, processed, published, trimmed>>,
               \A d \in Daemons : pc'[d] = "commit" => pc[d] = "commit"
        PROVE  Forgets
    BY <1>1 DEF Forgets
  <1>2. ASSUME NEW p \in Partitions, Produce(p) PROVE Forgets
    BY <1>2, <1>1 DEF Produce, daemonVars
  <1>4. ASSUME NEW r \in Runs, NEW op \in Ops,
               Submit(r) \/ SubmitRecord(r) \/ Request(r, op) \/ Write(r, op)
        PROVE  Forgets
    BY <1>4, <1>1 DEF Submit, SubmitRecord, Request, Write, daemonVars, groupVars
  <1>5. ASSUME NEW d \in Daemons, NEW t \in queue, Deliver(d, t) PROVE Forgets
    BY <1>5, <1>1 DEF Deliver, groupVars, TypeOK
  <1>6. ASSUME NEW d \in Daemons, Terminate(d) \/ Raise(d) \/ Ending(d) PROVE Forgets
    BY <1>6, LeavingForgets DEF Terminate, Raise, Ending
  <1>7. ASSUME NEW d \in Daemons, NEW dies \in BOOLEAN, Redeliver(d, dies) PROVE Forgets
    BY <1>7, <1>1, LeavingForgets DEF Redeliver, daemonVars
  <1>8. ASSUME NEW d \in Daemons, Start(d) PROVE Forgets
    BY <1>8, <1>1 DEF Start, groupVars, TypeOK
  <1>9. ASSUME NEW d \in Daemons, InitStats(d) PROVE Forgets
    BY <1>9, <1>1, LeavingForgets DEF InitStats, TypeOK
  <1>10. ASSUME NEW d \in Daemons, Top(d) \/ HandlePause(d) \/ Backpressure(d) PROVE Forgets
    BY <1>10, <1>1 DEF Top, HandlePause, Backpressure, Goto, groupVars, TypeOK
  <1>12. Ops # {} BY DEF Ops
  <1>13. CASE UNCHANGED vars BY <1>1, <1>13 DEF vars, groupVars, daemonVars
  <1> QED BY <1>2, <1>4, <1>5, <1>6, <1>7, <1>8, <1>9, <1>10, <1>12, <1>13 DEF Next, Loop

LEMMA HandledStep == HandledInv /\ TypeInv /\ [Next]_vars => HandledInv'
  <1> SUFFICES ASSUME HandledInv, TypeInv, [Next]_vars PROVE HandledInv' OBVIOUS
  <1> USE DEF HandledInv
  <1>1. CASE Forgets
    BY <1>1 DEF Forgets, ReadIsHandled, ProcessedIsSettled, BatchIsRead, PublishedIsKnown,
                CommittedIsHandled, Messages
  <1>2. CASE Rebalance
    <2>1. /\ UNCHANGED <<committed, batch, processed, published, Handled, trimmed, pc>>
          /\ pos' = [p \in Partitions |-> IF committed[p] >= 0 THEN committed[p] ELSE end[p]]
          /\ skipped' = skipped \union
               {m \in Messages : committed[m[1]] < 0 /\ m[2] < end[m[1]] /\ m \notin Handled}
          /\ \A d \in Daemons : pc[d] # "commit"
      BY <1>2 DEF Rebalance, daemonVars, fateVars, Handled
    <2>2. ReadIsHandled'
      <3> SUFFICES ASSUME NEW m \in Messages, m[2] < pos'[m[1]]
                   PROVE  m \in Handled \union skipped'
        BY <2>1 DEF ReadIsHandled, Messages
      <3>1. m[1] \in Partitions BY DEF Messages
      <3>2. CASE committed[m[1]] >= 0
        BY <2>1, <3>1, <3>2 DEF CommittedIsHandled
      <3>3. CASE ~(committed[m[1]] >= 0)
        <4>1. committed[m[1]] < 0 BY <3>1, <3>3 DEF TypeInv, TypeOK
        <4>2. m[2] < end[m[1]] BY <2>1, <3>1, <3>3
        <4> QED BY <2>1, <4>1, <4>2
      <3> QED BY <3>2, <3>3
    <2>3. BatchIsRead' BY <2>1 DEF BatchIsRead
    <2> QED BY <2>1, <2>2, <2>3 DEF ProcessedIsSettled, PublishedIsKnown, CommittedIsHandled, Messages
  <1>3. ASSUME NEW d \in Daemons, Consume(d) PROVE HandledInv'
    <2>0. PICK b \in Fetchable(d) : \E old \in Trims(processed[d] \union b) : Fetches(d, b, old)
      BY <1>3, ConsumeFetches DEF TypeInv
    <2>1. PICK old \in Trims(processed[d] \union b) : Fetches(d, b, old) BY <2>0
    <2> DEFINE new == Dedup(d, b)
    <2>2. batch'[d] = new BY <2>1 DEF Fetches, TypeInv, TypeOK
    <2>3. UNCHANGED <<skipped, committed>> BY <1>3 DEF Consume
    <2>4. Handled \subseteq Handled' /\ new \subseteq Handled'
      BY <1>3, <2>2 DEF Consume, NothingParsed, StepsFail, Publish, Undecoded, SendDlq,
                        Handled, fateVars
    <2>5. b \subseteq Handled'
      BY <2>4 DEF Dedup, ProcessedIsSettled
    <2>6. \A p \in Partitions : pos[p] <= pos'[p]
      BY <2>1, FetchedOf DEF Fetches, TypeInv, TypeOK
    <2>7. ReadIsHandled'
      <3> SUFFICES ASSUME NEW m \in Messages, m[2] < pos'[m[1]]
                   PROVE  m \in Handled' \union skipped
        BY <2>3 DEF ReadIsHandled, Messages
      <3>1. m[1] \in Partitions /\ m[2] \in Nat /\ m = <<m[1], m[2]>>
        BY StreamingAssumption DEF Messages, Offsets
      <3>2. CASE m[2] < pos[m[1]] BY <3>2, <2>4 DEF ReadIsHandled
      <3>3. CASE ~(m[2] < pos[m[1]])
        <4>1. pos[m[1]] \in Nat BY <3>1 DEF TypeInv, TypeOK
        <4>2. pos'[m[1]] = pos[m[1]] + Cardinality({n \in b : n[1] = m[1]}) BY <2>1, <3>1 DEF Fetches
        <4>3. \A o \in Nat : pos[m[1]] <= o /\ o < pos'[m[1]] => <<m[1], o>> \in b
          BY <3>1, <4>2, FetchedOf DEF TypeInv, TypeOK
        <4>4. m \in b BY <3>1, <3>3, <4>1, <4>3
        <4> QED BY <4>4, <2>5
      <3> QED BY <3>2, <3>3
    <2>8. ProcessedIsSettled'
      BY <2>1, <2>4, <2>5 DEF Fetches, ProcessedIsSettled, TypeInv, TypeOK
    <2>9. BatchIsRead'
      <3>1. ASSUME NEW m \in new PROVE m[2] < pos'[m[1]]
        <4>1. m \in b BY DEF Dedup
        <4>2. m[1] \in Partitions BY <4>1 DEF Fetchable, Messages
        <4> QED BY <2>1, <4>1, <4>2, FetchedOf DEF Fetches, TypeInv, TypeOK
      <3>2. ASSUME NEW e \in Daemons, e # d, pc'[e] = "commit", NEW m \in batch'[e]
            PROVE  m[2] < pos'[m[1]]
        <4>1. pc'[e] = pc[e] /\ batch'[e] = batch[e]
          BY <1>3, <2>1, <3>2 DEF Consume, NothingParsed, StepsFail, Publish, Goto, Fetches, TypeInv, TypeOK
        <4>2. m \in Messages BY <4>1 DEF TypeInv, TypeOK
        <4>3. m[1] \in Partitions /\ m[2] \in Nat BY <4>2, StreamingAssumption DEF Messages, Offsets
        <4>4. m[2] < pos[m[1]] BY <3>2, <4>1 DEF BatchIsRead
        <4>5. pos[m[1]] \in Nat /\ pos'[m[1]] \in Nat
          BY <4>3, TypeStep DEF TypeInv, TypeOK
        <4> QED BY <4>3, <4>4, <4>5, <2>6
      <3> QED BY <2>2, <3>1, <3>2 DEF BatchIsRead
    <2>10. PublishedIsKnown'
      BY <2>1 DEF Fetches, Dedup, PublishedIsKnown, TypeInv, TypeOK
    <2>11. CommittedIsHandled' BY <2>3, <2>4 DEF CommittedIsHandled, Messages
    <2> QED BY <2>7, <2>8, <2>9, <2>10, <2>11
  <1>4. ASSUME NEW d \in Daemons, Commit(d) PROVE HandledInv'
    <2>1. PICK p \in {m[1] : m \in batch[d]} :
            committed' = [committed EXCEPT ![p] = LargestIn(d, p) + 1]
      BY <1>4 DEF Commit, LargestIn
    <2>2. /\ UNCHANGED <<pos, skipped, processed, published, Handled, trimmed>>
          /\ pc[d] = "commit" /\ pc' = [pc EXCEPT ![d] = "top"]
          /\ batch' = [batch EXCEPT ![d] = {}]
      BY <1>4 DEF Commit, Goto, Handled, fateVars
    <2>3. PICK last \in batch[d] : last[1] = p /\ last[2] = LargestIn(d, p)
      BY LastOfBatch DEF TypeInv, TypeOK
    <2>4. p \in Partitions /\ LargestIn(d, p) \in Nat BY LastOfBatch DEF TypeInv, TypeOK
    <2>5. LargestIn(d, p) < pos[p] BY <2>2, <2>3 DEF BatchIsRead
    <2>6. CommittedIsHandled'
      <3> SUFFICES ASSUME NEW m \in Messages, m[2] < committed'[m[1]]
                   PROVE  m \in Handled \union skipped
        BY <2>2 DEF CommittedIsHandled, Messages
      <3>1. m[1] \in Partitions /\ m[2] \in Nat BY StreamingAssumption DEF Messages, Offsets
      <3>2. CASE m[1] = p
        <4>1. m[2] < LargestIn(d, p) + 1 BY <2>1, <2>4, <3>2 DEF TypeInv, TypeOK
        <4>2. pos[p] \in Nat BY <2>4 DEF TypeInv, TypeOK
        <4>3. m[2] < pos[m[1]] BY <2>4, <2>5, <3>1, <3>2, <4>1, <4>2
        <4> QED BY <4>3 DEF ReadIsHandled
      <3>3. CASE m[1] # p
        BY <2>1, <3>1, <3>3 DEF CommittedIsHandled, TypeInv, TypeOK
      <3> QED BY <3>2, <3>3
    <2>7. BatchIsRead' BY <2>2 DEF BatchIsRead, TypeInv, TypeOK
    <2> QED BY <2>2, <2>6, <2>7 DEF ReadIsHandled, ProcessedIsSettled, PublishedIsKnown, Messages
  <1> QED BY <1>1, <1>2, <1>3, <1>4, Progress

LEMMA HandledHolds == Spec => [](TypeInv /\ HandledInv)
  <1>1. Init => HandledInv
    <2> SUFFICES ASSUME Init PROVE HandledInv OBVIOUS
    <2>1. \A m \in Messages : m[1] \in Partitions /\ m[2] \in Nat
      BY StreamingAssumption DEF Messages, Offsets
    <2> QED BY <2>1 DEF Init, HandledInv, ReadIsHandled, ProcessedIsSettled, BatchIsRead, PublishedIsKnown,
                        CommittedIsHandled
  <1> QED BY <1>1, TypeInit, TypeStep, HandledStep, PTL DEF Spec

\* Across crashes, redelivered tasks, rebalances, duplicates and commits of
\* single partitions, the group never moves past a message that was neither worked
\* through nor dead-lettered, unless it held no record or auto.offset.reset had
\* passed over it; whose output is missing, its own batch's publication raised.
THEOREM CommitsAreSafe == Spec => []CommittedIsHandled
  BY HandledHolds, PTL DEF HandledInv

\* A daemon hands on a message a second time only when it had dropped the
\* offset from processed_offsets.
THEOREM NoDaemonRepeats == Spec => NotTwice
  <1>1. TypeInv /\ HandledInv /\ [Next]_vars =>
          [\A d \in Daemons : batch'[d] # batch[d] =>
               batch'[d] \intersect published[d] \subseteq trimmed[d]]_vars
    <2> SUFFICES ASSUME TypeInv, HandledInv, [Next]_vars, NEW d \in Daemons, batch'[d] # batch[d]
                 PROVE  batch'[d] \intersect published[d] \subseteq trimmed[d]
      OBVIOUS
    <2>1. CASE Forgets BY <2>1 DEF Forgets
    <2>2. CASE Rebalance BY <2>2 DEF Rebalance, daemonVars
    <2>3. ASSUME NEW e \in Daemons, Consume(e)
          PROVE  batch'[d] \intersect published[d] \subseteq trimmed[d]
      <3>0. PICK b \in Fetchable(e) : \E old \in Trims(processed[e] \union b) : Fetches(e, b, old)
        BY <2>3, ConsumeFetches DEF TypeInv
      <3>1. PICK old \in Trims(processed[e] \union b) : Fetches(e, b, old) BY <3>0
      <3>2. e = d /\ batch'[d] = b \ processed[d]
        BY <3>1 DEF Fetches, Dedup, TypeInv, TypeOK
      <3> QED BY <3>2 DEF HandledInv, PublishedIsKnown
    <2>4. ASSUME NEW e \in Daemons, Commit(e)
          PROVE  batch'[d] \intersect published[d] \subseteq trimmed[d]
      BY <2>4 DEF Commit, TypeInv, TypeOK
    <2> QED BY <2>1, <2>2, <2>3, <2>4, Progress
  <1> QED BY <1>1, HandledHolds, PTL DEF Spec, NotTwice
=============================================================================
