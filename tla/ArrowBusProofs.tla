--------------------------- MODULE ArrowBusProofs ---------------------------
(***************************************************************************)
(* Proofs about ArrowBus, for any number of runs, keys, workers and        *)
(* evictors, and any bounds.                                               *)
(*                                                                         *)
(* NothingLeft is not inductive: what a clean-up removes depends on what   *)
(* the process and the manifest lead to.  BusInv adds that a worker knows  *)
(* locations of its own run only (KnowsOwn), that one worker at most       *)
(* executes a run or knows its tables (OneHolder), that its knowledge and  *)
(* the manifest agree unless an eviction intervened (ManifestAgrees), and  *)
(* that outside shared memory everything is known or in torn               *)
(* (KnownOrTorn).  For the refinement of TableStore, ReadInv adds that     *)
(* what is kept of a run under execution was put by it (KeptIsWritten)     *)
(* and that numbers of tables are fresh (PutsAreNew).                      *)
(***************************************************************************)
EXTENDS ArrowBus, TLAPS

\* The worker that executes r, if any.
Executes(w, r) == cur[w] = r /\ pc[w] \in {"run", "written"}

\* A worker knows locations of its own run only, and none under the key it
\* is writing to.
KnowsOwn ==
    /\ \A w \in Workers : pc[w] \in {"idle", "run", "written", "clean"}
    /\ \A e \in Evictors : pc[e] \in {"idle", "read", "copied"}
    /\ \A w \in Workers, k \in Keys : loc[w][k] # None => loc[w][k].run = cur[w]
    /\ \A w \in Workers : item[w] # None => item[w].run = cur[w] /\ loc[w][item[w].key] = None

\* Of a run that has not begun there is nothing.
NewIsEmpty ==
    \A r \in Runs : life[r] = "new" =>
        /\ \A w \in Workers : cur[w] # r
        /\ \A x \in store : x.run # r
        /\ \A e \in Evictors : item[e] # None => item[e].run # r
        /\ \A k \in Keys : manifest[r][k] = None

\* A run that is cleaned up is executed no more.
CleanedIsOver == \A r \in Runs : life[r] = "cleaned" => \A w \in Workers : ~Executes(w, r)

\* One worker executes a run or knows its tables.
Holds(w) == pc[w] \in {"run", "written"} \/ \E k \in Keys : loc[w][k] # None
OneHolder ==
    \A v, w \in Workers : Holds(v) /\ Holds(w) /\ cur[v] = cur[w] => v = w

\* A manifest entry that no eviction has replaced is what that worker knows.
ManifestAgrees ==
    \A w \in Workers, r \in Runs, k \in Keys :
        /\ cur[w] = r /\ (pc[w] \in {"run", "written"} \/ loc[w][k] # None)
        /\ manifest[r][k] # None /\ manifest[r][k].tier # "shm"
        => loc[w][k] = manifest[r][k]

\* What is not in shared memory is known, or was unknown at some time.
KnownOrTorn ==
    \A x \in store :
        \/ x.tier = "shm" \/ x.table \in torn
        \/ \E w \in Workers : item[w] = x \/ loc[w][x.key] = LocOf(x)
        \/ manifest[x.run][x.key] = LocOf(x)

BusInv ==
    /\ TypeOK /\ KnowsOwn /\ NewIsEmpty /\ CleanedIsOver /\ OneHolder /\ ManifestAgrees
    /\ KnownOrTorn /\ NothingLeft

\* A table is being put under run and key.
Pending(r, k, n) ==
    \E w \in Workers : item[w] # None /\ item[w].run = r /\ item[w].key = k /\ item[w].table = n

\* What is kept: the payloads, and the copies held by evictions.
Kept == {x \in Payload : x \in store \/ \E e \in Evictors : item[e] = x}

\* As long as a run is executed, what is kept of it was put, or is being put.
KeptIsWritten ==
    \A x \in Kept :
        (\E w \in Workers : Executes(w, x.run)) =>
            x.table \in written[x.run][x.key] \/ Pending(x.run, x.key, x.table)

\* Every put has a number of its own.
PutsAreNew ==
    /\ \A r \in Runs, k \in Keys : written[r][k] \subseteq 1..puts
    /\ \A w \in Workers : item[w] # None =>
         /\ item[w].table <= puts
         /\ \A r \in Runs, k \in Keys : item[w].table \notin written[r][k]
         /\ \A v \in Workers : v # w /\ item[v] # None => item[v].table # item[w].table

WrittenTyped == written \in [Runs -> [Keys -> SUBSET (1..MaxPuts)]]

ReadInv == BusInv /\ WrittenTyped /\ KeptIsWritten /\ PutsAreNew

-----------------------------------------------------------------------------
(* Types.                                                                  *)

LEMMA TypeInit == Init => TypeOK
  BY ArrowBusAssumption DEF Init, TypeOK

LEMMA TypeStep == TypeOK /\ [Next]_vars => TypeOK'
  <1> SUFFICES ASSUME TypeOK, [Next]_vars PROVE TypeOK' OBVIOUS
  <1>1. ASSUME NEW w \in Workers, NEW r \in Runs, Begin(w, r) PROVE TypeOK'
    BY <1>1, ArrowBusAssumption DEF Begin, Goto, busVars, TypeOK
  <1>2. ASSUME NEW w \in Workers, NEW r \in Runs, Redelivered(w, r) PROVE TypeOK'
    BY <1>2, ArrowBusAssumption DEF Redelivered, Goto, busVars, TypeOK
  <1>3. ASSUME NEW w \in Workers, NEW k \in Keys, NEW t \in Tiers, PutWrite(w, k, t) PROVE TypeOK'
    <2> DEFINE x == [tier |-> t, run |-> cur[w], key |-> k, table |-> puts']
    <2>1. pc[w] = "run" /\ puts < MaxPuts /\ puts' = puts + 1 /\ cur[w] # None /\ cur[w] \in Runs
      BY <1>3 DEF PutWrite, TypeOK
    <2>2. x \in Payload BY <2>1, ArrowBusAssumption DEF Payload, TypeOK
    <2>3. store' \subseteq Payload
      <3>1. store' = Stored(Deleted(w, {k}).store, x) BY <1>3 DEF PutWrite
      <3>2. Deleted(w, {k}).store \subseteq store BY DEF Deleted
      <3> HIDE DEF x
      <3> QED BY <3>1, <3>2, <2>2 DEF Stored, Removed, TypeOK
    <2>4. item' = [item EXCEPT ![w] = x] BY <1>3 DEF PutWrite
    <2>5. item' \in [Workers \union Evictors -> Payload \union {None}] /\ item'[w] # None
      <3> HIDE DEF x
      <3> QED BY <2>2, <2>4, ArrowBusAssumption DEF TypeOK
    <2>6. manifest' \in [Runs -> [Keys -> Location \union {None}]]
      BY <1>3 DEF PutWrite, Deleted, TypeOK
    <2>7. loc' \in [Workers -> [Keys -> Location \union {None}]]
      BY <1>3 DEF PutWrite, TypeOK
    <2>8. puts' \in 0..MaxPuts BY <2>1, ArrowBusAssumption DEF TypeOK
    <2>9. \A p \in Workers \union Evictors : p # w => item'[p] = item[p] BY <2>4 DEF TypeOK
    <2>10. pc' = [pc EXCEPT ![w] = "written"] BY <1>3 DEF PutWrite, Goto
    <2> QED BY <1>3, <2>1, <2>3, <2>5, <2>6, <2>7, <2>8, <2>9, <2>10 DEF PutWrite, TypeOK
  <1>4. ASSUME NEW w \in Workers, PutRecord(w) PROVE TypeOK'
    <2>1. item[w] \in Payload BY <1>4 DEF PutRecord, TypeOK
    <2>2. LocOf(item[w]) \in Location /\ item[w].key \in Keys /\ item[w].run \in Runs
      BY <2>1 DEF LocOf, Payload, Location
    <2>3. loc' \in [Workers -> [Keys -> Location \union {None}]]
      <3>1. loc' = [loc EXCEPT ![w][item[w].key] = LocOf(item[w])] BY <1>4 DEF PutRecord
      <3> QED BY <3>1, <2>2 DEF TypeOK
    <2>4. manifest' \in [Runs -> [Keys -> Location \union {None}]]
      <3>1. manifest' = [manifest EXCEPT ![item[w].run][item[w].key] = LocOf(item[w])] BY <1>4 DEF PutRecord
      <3> QED BY <3>1, <2>2 DEF TypeOK
    <2> QED BY <1>4, <2>3, <2>4 DEF PutRecord, Goto, TypeOK
  <1>5. ASSUME NEW w \in Workers, RunEnds(w) PROVE TypeOK'
    BY <1>5 DEF RunEnds, Goto, busVars, TypeOK
  <1>6. ASSUME NEW w \in Workers, Crash(w) PROVE TypeOK'
    <2>1. pc[w] # "idle" /\ faults' \in 0..MaxFaults BY <1>6, ArrowBusAssumption DEF Crash, TypeOK
    <2>2. loc' \in [Workers -> [Keys -> Location \union {None}]] BY <1>6 DEF Crash, TypeOK
    <2> QED BY <1>6, <2>1, <2>2, ArrowBusAssumption DEF Crash, Done, Goto, TypeOK
  <1>7. ASSUME NEW w \in Workers, Cleanup(w) PROVE TypeOK'
    <2>1. store' \subseteq store
      <3>1. \A ks : Deleted(w, ks).store \subseteq store BY DEF Deleted
      <3> QED BY <1>7, <3>1 DEF Cleanup
    <2>2. manifest' \in [Runs -> [Keys -> Location \union {None}]] BY <1>7 DEF Cleanup, TypeOK
    <2>3. loc' \in [Workers -> [Keys -> Location \union {None}]] BY <1>7 DEF Cleanup, TypeOK
    <2>4. life' \in [Runs -> {"new", "begun", "cleaned"}] BY <1>7 DEF Cleanup, TypeOK
    <2> QED BY <1>7, <2>1, <2>2, <2>3, <2>4, ArrowBusAssumption DEF Cleanup, Done, Goto, TypeOK
  <1>8. ASSUME NEW e \in Evictors, EvictRead(e) PROVE TypeOK'
    <2>1. PICK x \in store : item' = [item EXCEPT ![e] = x] BY <1>8 DEF EvictRead
    <2>2. x \in Payload /\ x # None BY ArrowBusAssumption DEF TypeOK
    <2>3. e \notin Workers BY ArrowBusAssumption
    <2> QED BY <1>8, <2>1, <2>2, <2>3 DEF EvictRead, Goto, busVars, TypeOK
  <1>9. ASSUME NEW e \in Evictors, EvictWrite(e) PROVE TypeOK'
    <2>1. item[e] \in Payload BY <1>9 DEF EvictWrite, TypeOK
    <2>2. [item[e] EXCEPT !.tier = "shm"] \in Payload BY <2>1 DEF Payload, Tiers
    <2>3. store' \subseteq Payload BY <1>9, <2>2 DEF EvictWrite, Stored, Removed, TypeOK
    <2>4. e \notin Workers BY ArrowBusAssumption
    <2> QED BY <1>9, <2>3, <2>4 DEF EvictWrite, Goto, TypeOK
  <1>10. ASSUME NEW e \in Evictors, EvictRecord(e) PROVE TypeOK'
    <2>1. item[e] \in Payload BY <1>10 DEF EvictRecord, TypeOK
    <2> DEFINE l == LocOf([item[e] EXCEPT !.tier = "shm"])
    <2>2. l \in Location /\ item[e].key \in Keys /\ item[e].run \in Runs
      BY <2>1 DEF LocOf, Payload, Location, Tiers
    <2>3. manifest' \in [Runs -> [Keys -> Location \union {None}]]
      <3>1. manifest' = [manifest EXCEPT ![item[e].run][item[e].key] = l] BY <1>10 DEF EvictRecord
      <3> HIDE DEF l
      <3> QED BY <3>1, <2>2 DEF TypeOK
    <2>4. store' \subseteq Payload BY <1>10 DEF EvictRecord, Removed, TypeOK
    <2>5. e \notin Workers BY ArrowBusAssumption
    <2> QED BY <1>10, <2>3, <2>4, <2>5 DEF EvictRecord, Done, Goto, TypeOK
  <1>11. CASE Expire
    BY <1>11 DEF Expire, TypeOK
  <1>12. CASE UNCHANGED vars
    BY <1>12 DEF vars, busVars, TypeOK
  <1> QED BY <1>1, <1>2, <1>3, <1>4, <1>5, <1>6, <1>7, <1>8, <1>9, <1>10, <1>11, <1>12 DEF Next

-----------------------------------------------------------------------------
(* What the longer actions do.                                             *)

\* The payload a put writes.
Fresh(w, k, t) == [tier |-> t, run |-> cur[w], key |-> k, table |-> puts + 1]

\* What PutWrite changes, and what it finds.
PutWriteEffect(w, k, t) ==
    /\ pc[w] = "run" /\ item[w] = None /\ cur[w] \in Runs
    /\ Fresh(w, k, t) \in Payload
    /\ puts' = puts + 1
    /\ pc' = [pc EXCEPT ![w] = "written"]
    /\ item' = [item EXCEPT ![w] = Fresh(w, k, t)]
    /\ loc' = [loc EXCEPT ![w][k] = None]
    /\ \A y \in store' :
         \/ y = Fresh(w, k, t)
         \/ y \in store /\ (loc[w][k] # None => ~SamePointer(At(loc[w][k], k), y))
    /\ \A r \in Runs, j \in Keys :
         /\ j = k /\ loc[w][k] # None /\ loc[w][k].run = r => manifest'[r][j] = None
         /\ ~(j = k /\ loc[w][k] # None /\ loc[w][k].run = r) => manifest'[r][j] = manifest[r][j]
    /\ UNCHANGED <<cur, written, life, torn, demoted>>

LEMMA PutWriteDoes ==
    ASSUME TypeOK, NEW w \in Workers, NEW k \in Keys, NEW t \in Tiers, PutWrite(w, k, t)
    PROVE  PutWriteEffect(w, k, t)
  <1>1. pc[w] = "run" /\ puts < MaxPuts /\ puts' = puts + 1 /\ cur[w] # None /\ cur[w] \in Runs
        /\ item[w] = None
    BY DEF PutWrite, TypeOK
  <1>2. Fresh(w, k, t) \in Payload BY <1>1, ArrowBusAssumption DEF Payload, TypeOK, Fresh
  <1>3. item' = [item EXCEPT ![w] = Fresh(w, k, t)] BY <1>1 DEF PutWrite, Fresh
  <1>4. store' = Stored(Deleted(w, {k}).store, Fresh(w, k, t)) BY <1>1 DEF PutWrite, Fresh
  <1>5. \A y \in Deleted(w, {k}).store :
          y \in store /\ (loc[w][k] # None => ~SamePointer(At(loc[w][k], k), y))
    BY DEF Deleted
  <1>6. \A r \in Runs, j \in Keys :
          /\ j = k /\ loc[w][k] # None /\ loc[w][k].run = r => manifest'[r][j] = None
          /\ ~(j = k /\ loc[w][k] # None /\ loc[w][k].run = r) => manifest'[r][j] = manifest[r][j]
    <2> DEFINE known == {j \in {k} : loc[w][j] # None}
    <2>1. manifest' = Deleted(w, {k}).manifest BY DEF PutWrite
    <2>2. Deleted(w, {k}).manifest = [r \in Runs |-> [j \in Keys |->
                        IF j \in known /\ loc[w][j].run = r THEN None ELSE manifest[r][j]]]
      BY DEF Deleted
    <2>3. \A j : j \in known <=> j = k /\ loc[w][k] # None OBVIOUS
    <2> HIDE DEF known
    <2>4. \A r \in Runs, j \in Keys :
            manifest'[r][j] = IF j \in known /\ loc[w][j].run = r THEN None ELSE manifest[r][j]
      BY <2>1, <2>2
    <2> QED BY <2>3, <2>4
  <1>7. \A y \in store' : y = Fresh(w, k, t) \/ y \in Deleted(w, {k}).store
    BY <1>4 DEF Stored, Removed
  <1>8. \A y \in store' :
          \/ y = Fresh(w, k, t)
          \/ y \in store /\ (loc[w][k] # None => ~SamePointer(At(loc[w][k], k), y))
    BY <1>5, <1>7
  <1> QED BY <1>1, <1>2, <1>3, <1>6, <1>8 DEF PutWrite, Goto, PutWriteEffect

\* What Cleanup changes, and what it finds.
CleanupEffect(w) ==
    /\ pc[w] = "clean" /\ cur[w] \in Runs /\ item[w] = None
    /\ \A y \in store' :
         /\ y \in store
         /\ loc[w][y.key] # None => ~SamePointer(At(loc[w][y.key], y.key), y)
         /\ y.run = cur[w] => y.tier # "shm"
         /\ y.run = cur[w] /\ manifest[cur[w]][y.key] # None /\ loc[w][y.key] = None
            => ~SamePointer(At(manifest[cur[w]][y.key], y.key), y)
    /\ manifest' = [manifest EXCEPT ![cur[w]] = [k \in Keys |-> None]]
    /\ loc' = [loc EXCEPT ![w] = [k \in Keys |-> None]]
    /\ cur' = [cur EXCEPT ![w] = None] /\ pc' = [pc EXCEPT ![w] = "idle"]
    /\ item' = [item EXCEPT ![w] = None]
    /\ \/ (\E x \in Workers \ {w} : cur[x] = cur[w]) /\ UNCHANGED life
       \/ (\A x \in Workers \ {w} : cur[x] # cur[w])
          /\ life' = [life EXCEPT ![cur[w]] = "cleaned"]
    /\ UNCHANGED <<puts, written, torn, demoted>>

LEMMA CleanupDoes ==
    ASSUME TypeOK, KnowsOwn, NEW w \in Workers, Cleanup(w)
    PROVE  CleanupEffect(w)
  <1> DEFINE mine == {k \in Keys : loc[w][k] # None /\ loc[w][k].run = cur[w]}
  <1>1. pc[w] = "clean" /\ cur[w] \in Runs /\ item[w] = None BY DEF Cleanup, TypeOK
  <1>2. mine = {k \in Keys : loc[w][k] # None} BY DEF KnowsOwn
  <1>3. store' = {y \in Deleted(w, mine).store :
                    /\ \A k \in ManifestKeys(w, cur[w]) : ~SamePointer(At(manifest[cur[w]][k], k), y)
                    /\ ~(y.tier = "shm" /\ y.run = cur[w])}
    BY DEF Cleanup
  <1>4. \A y \in Deleted(w, mine).store :
          y \in store /\ \A k \in mine : ~SamePointer(At(loc[w][k], k), y)
    BY DEF Deleted
  <1>5. \A y \in store : y.key \in Keys BY DEF TypeOK, Payload
  <1>6. \A y \in store' :
                /\ y \in store
                /\ loc[w][y.key] # None => ~SamePointer(At(loc[w][y.key], y.key), y)
                /\ y.run = cur[w] => y.tier # "shm"
                /\ y.run = cur[w] /\ manifest[cur[w]][y.key] # None /\ loc[w][y.key] = None
                   => ~SamePointer(At(manifest[cur[w]][y.key], y.key), y)
    <2> TAKE y \in store'
    <2>1. y \in Deleted(w, mine).store BY <1>3
    <2>2. y \in store /\ \A k \in mine : ~SamePointer(At(loc[w][k], k), y) BY <2>1, <1>4
    <2>3. loc[w][y.key] # None => ~SamePointer(At(loc[w][y.key], y.key), y) BY <2>2, <1>2, <1>5
    <2>4. y.run = cur[w] => y.tier # "shm" BY <1>3
    <2>5. manifest[cur[w]][y.key] # None /\ loc[w][y.key] = None => y.key \in ManifestKeys(w, cur[w])
      BY <2>2, <1>5 DEF ManifestKeys
    <2> QED BY <2>2, <2>3, <2>4, <2>5, <1>3
  <1>7. loc' = [loc EXCEPT ![w] = [k \in Keys |-> None]]
    <2>1. loc' = [loc EXCEPT ![w] = [k \in Keys |-> IF k \in mine THEN None ELSE loc[w][k]]]
      BY DEF Cleanup
    <2>2. \A k \in Keys : (IF k \in mine THEN None ELSE loc[w][k]) = None BY <1>2
    <2>3. [k \in Keys |-> IF k \in mine THEN None ELSE loc[w][k]] = [k \in Keys |-> None] BY <2>2
    <2> QED BY <2>1, <2>3
  <1> QED BY <1>1, <1>6, <1>7 DEF Cleanup, Done, Goto, CleanupEffect

\* A record known to be a payload with the location of another is that one.
LEMMA LocationsTell ==
    ASSUME NEW x \in Payload
    PROVE  /\ LocOf(x) \in Location /\ LocOf(x) # None
           /\ LocOf(x).run = x.run /\ LocOf(x).tier = x.tier /\ LocOf(x).table = x.table
           /\ SamePointer(At(LocOf(x), x.key), x)
  BY ArrowBusAssumption DEF Payload, Location, LocOf, At, SamePointer

\* What is known of the parts of the state that are not None.
LEMMA ItemsTyped ==
    ASSUME TypeOK, KnowsOwn
    PROVE  /\ \A p \in Workers \union Evictors : item[p] # None => item[p] \in Payload
           /\ \A w \in Workers : pc[w] = "written" <=> item[w] # None
           /\ \A e \in Evictors : pc[e] \in {"read", "copied"} <=> item[e] # None
           /\ \A w \in Workers, k \in Keys : loc[w][k] # None => loc[w][k] \in Location /\ cur[w] \in Runs
           /\ \A w \in Workers, k \in Keys : pc[w] = "idle" => loc[w][k] = None
           /\ \A w \in Workers : item[w] # None => cur[w] \in Runs
  <1>1. \A w \in Workers, k \in Keys : loc[w][k] # None => loc[w][k] \in Location BY DEF TypeOK
  <1>2. \A l \in Location : l.run \in Runs BY DEF Location
  <1>3. \A w \in Workers, k \in Keys : loc[w][k] # None => cur[w] \in Runs BY <1>1, <1>2 DEF KnowsOwn
  <1>4. \A w \in Workers, k \in Keys : pc[w] = "idle" => loc[w][k] = None
    BY <1>3, ArrowBusAssumption DEF TypeOK
  <1>5. \A w \in Workers : pc[w] = "written" <=> item[w] # None BY DEF TypeOK, KnowsOwn
  <1>6. \A e \in Evictors : pc[e] \in {"read", "copied"} <=> item[e] # None BY DEF TypeOK, KnowsOwn
  <1>7. \A p \in Workers \union Evictors : item[p] # None => item[p] \in Payload BY DEF TypeOK
  <1>8. \A w \in Workers : item[w] # None => cur[w] \in Runs BY <1>5 DEF TypeOK
  <1> QED BY <1>1, <1>3, <1>4, <1>5, <1>6, <1>7, <1>8

LEMMA KnowsOwnStep == TypeOK /\ KnowsOwn /\ [Next]_vars => KnowsOwn'
  <1> SUFFICES ASSUME TypeOK, KnowsOwn, [Next]_vars PROVE KnowsOwn' OBVIOUS
  <1>1. ASSUME NEW w \in Workers, NEW r \in Runs, Begin(w, r) PROVE KnowsOwn'
    BY <1>1, ItemsTyped, ArrowBusAssumption DEF Begin, Goto, busVars, TypeOK, KnowsOwn
  <1>2. ASSUME NEW w \in Workers, NEW r \in Runs, Redelivered(w, r) PROVE KnowsOwn'
    BY <1>2, ItemsTyped, ArrowBusAssumption DEF Redelivered, Goto, busVars, TypeOK, KnowsOwn
  <1>3. ASSUME NEW w \in Workers, NEW k \in Keys, NEW t \in Tiers, PutWrite(w, k, t) PROVE KnowsOwn'
    <2>1. PutWriteEffect(w, k, t) BY <1>3, PutWriteDoes
    <2>2. Fresh(w, k, t).run = cur[w] /\ Fresh(w, k, t).key = k BY DEF Fresh
    <2> QED BY <2>1, <2>2, ArrowBusAssumption DEF PutWriteEffect, TypeOK, KnowsOwn
  <1>4. ASSUME NEW w \in Workers, PutRecord(w) PROVE KnowsOwn'
    <2>1. pc[w] = "written" /\ item[w] \in Payload /\ item[w].run = cur[w]
      BY <1>4, ItemsTyped DEF PutRecord, TypeOK, KnowsOwn
    <2>2. LocOf(item[w]).run = cur[w] /\ item[w].key \in Keys BY <2>1 DEF LocOf, Payload
    <2>3. loc' = [loc EXCEPT ![w][item[w].key] = LocOf(item[w])] BY <1>4 DEF PutRecord
    <2> QED BY <1>4, <2>1, <2>2, <2>3, ArrowBusAssumption DEF PutRecord, Goto, TypeOK, KnowsOwn
  <1>5. ASSUME NEW w \in Workers, RunEnds(w) PROVE KnowsOwn'
    BY <1>5, ArrowBusAssumption DEF RunEnds, Goto, busVars, TypeOK, KnowsOwn
  <1>6. ASSUME NEW w \in Workers, Crash(w) PROVE KnowsOwn'
    BY <1>6, ArrowBusAssumption DEF Crash, Done, Goto, TypeOK, KnowsOwn
  <1>7. ASSUME NEW w \in Workers, Cleanup(w) PROVE KnowsOwn'
    <2>1. CleanupEffect(w) BY <1>7, CleanupDoes
    <2> QED BY <2>1, ArrowBusAssumption DEF CleanupEffect, TypeOK, KnowsOwn
  <1>8. ASSUME NEW e \in Evictors, EvictRead(e) PROVE KnowsOwn'
    BY <1>8, ArrowBusAssumption DEF EvictRead, Goto, busVars, TypeOK, KnowsOwn
  <1>9. ASSUME NEW e \in Evictors, EvictWrite(e) PROVE KnowsOwn'
    BY <1>9, ArrowBusAssumption DEF EvictWrite, Goto, TypeOK, KnowsOwn
  <1>10. ASSUME NEW e \in Evictors, EvictRecord(e) PROVE KnowsOwn'
    BY <1>10, ArrowBusAssumption DEF EvictRecord, Done, Goto, TypeOK, KnowsOwn
  <1>11. CASE Expire
    BY <1>11 DEF Expire, TypeOK, KnowsOwn
  <1>12. CASE UNCHANGED vars
    BY <1>12 DEF vars, busVars, TypeOK, KnowsOwn
  <1> QED BY <1>1, <1>2, <1>3, <1>4, <1>5, <1>6, <1>7, <1>8, <1>9, <1>10, <1>11, <1>12 DEF Next

LEMMA NewIsEmptyStep == TypeOK /\ KnowsOwn /\ NewIsEmpty /\ [Next]_vars => NewIsEmpty'
  <1> SUFFICES ASSUME TypeOK, KnowsOwn, NewIsEmpty, [Next]_vars PROVE NewIsEmpty' OBVIOUS
  <1> USE ArrowBusAssumption
  <1>1. ASSUME NEW w \in Workers, NEW r \in Runs, Begin(w, r) PROVE NewIsEmpty'
    BY <1>1 DEF Begin, Goto, busVars, TypeOK, NewIsEmpty
  <1>2. ASSUME NEW w \in Workers, NEW r \in Runs, Redelivered(w, r) PROVE NewIsEmpty'
    BY <1>2 DEF Redelivered, Goto, busVars, TypeOK, NewIsEmpty
  <1>3. ASSUME NEW w \in Workers, NEW k \in Keys, NEW t \in Tiers, PutWrite(w, k, t) PROVE NewIsEmpty'
    <2>1. PutWriteEffect(w, k, t) BY <1>3, PutWriteDoes
    <2>2. Fresh(w, k, t).run = cur[w] BY DEF Fresh
    <2> QED BY <2>1, <2>2 DEF PutWriteEffect, TypeOK, NewIsEmpty
  <1>4. ASSUME NEW w \in Workers, PutRecord(w) PROVE NewIsEmpty'
    <2>1. pc[w] = "written" /\ item[w] \in Payload /\ item[w].run = cur[w] /\ cur[w] \in Runs
      BY <1>4, ItemsTyped DEF PutRecord, TypeOK, KnowsOwn
    <2>2. item[w].key \in Keys BY <2>1 DEF Payload
    <2>3. \A r \in Runs, k \in Keys : r # cur[w] => manifest'[r][k] = manifest[r][k]
      BY <1>4, <2>1, <2>2 DEF PutRecord, TypeOK
    <2> QED BY <1>4, <2>1, <2>3 DEF PutRecord, Goto, TypeOK, NewIsEmpty
  <1>5. ASSUME NEW w \in Workers, RunEnds(w) PROVE NewIsEmpty'
    BY <1>5 DEF RunEnds, Goto, busVars, TypeOK, NewIsEmpty
  <1>6. ASSUME NEW w \in Workers, Crash(w) PROVE NewIsEmpty'
    BY <1>6 DEF Crash, Done, Goto, TypeOK, NewIsEmpty
  <1>7. ASSUME NEW w \in Workers, Cleanup(w) PROVE NewIsEmpty'
    <2>1. CleanupEffect(w) BY <1>7, CleanupDoes
    <2> QED BY <2>1 DEF CleanupEffect, TypeOK, NewIsEmpty
  <1>8. ASSUME NEW e \in Evictors, EvictRead(e) PROVE NewIsEmpty'
    BY <1>8 DEF EvictRead, Goto, busVars, TypeOK, NewIsEmpty
  <1>9. ASSUME NEW e \in Evictors, EvictWrite(e) PROVE NewIsEmpty'
    <2>1. item[e] \in Payload BY <1>9 DEF EvictWrite, TypeOK
    <2>2. [item[e] EXCEPT !.tier = "shm"].run = item[e].run BY <2>1 DEF Payload
    <2>3. \A x \in store' : x \in store \/ x = [item[e] EXCEPT !.tier = "shm"]
      BY <1>9 DEF EvictWrite, Stored, Removed
    <2>4. item[e] # None BY <2>1
    <2> QED BY <1>9, <2>2, <2>3, <2>4 DEF EvictWrite, Goto, NewIsEmpty
  <1>10. ASSUME NEW e \in Evictors, EvictRecord(e) PROVE NewIsEmpty'
    <2>1. item[e] \in Payload /\ item[e] # None BY <1>10 DEF EvictRecord, TypeOK
    <2>2. item[e].key \in Keys /\ item[e].run \in Runs BY <2>1 DEF Payload
    <2>3. \A r \in Runs, k \in Keys : r # item[e].run => manifest'[r][k] = manifest[r][k]
      BY <1>10, <2>2 DEF EvictRecord, TypeOK
    <2>4. store' \subseteq store BY <1>10 DEF EvictRecord, Removed
    <2>5. \A d \in Evictors : item'[d] = item[d] \/ item'[d] = None BY <1>10 DEF EvictRecord, Done, TypeOK
    <2> QED BY <1>10, <2>1, <2>3, <2>4, <2>5 DEF EvictRecord, NewIsEmpty
  <1>11. CASE Expire
    BY <1>11 DEF Expire, TypeOK, NewIsEmpty
  <1>12. CASE UNCHANGED vars
    BY <1>12 DEF vars, busVars, TypeOK, NewIsEmpty
  <1> QED BY <1>1, <1>2, <1>3, <1>4, <1>5, <1>6, <1>7, <1>8, <1>9, <1>10, <1>11, <1>12 DEF Next

LEMMA CleanedIsOverStep == TypeOK /\ KnowsOwn /\ CleanedIsOver /\ [Next]_vars => CleanedIsOver'
  <1> SUFFICES ASSUME TypeOK, KnowsOwn, CleanedIsOver, [Next]_vars PROVE CleanedIsOver' OBVIOUS
  <1> USE ArrowBusAssumption
  <1>1. ASSUME NEW w \in Workers, NEW r \in Runs, Begin(w, r) PROVE CleanedIsOver'
    BY <1>1 DEF Begin, Goto, busVars, TypeOK, CleanedIsOver, Executes
  <1>2. ASSUME NEW w \in Workers, NEW r \in Runs, Redelivered(w, r) PROVE CleanedIsOver'
    BY <1>2 DEF Redelivered, Goto, busVars, TypeOK, CleanedIsOver, Executes
  <1>3. ASSUME NEW w \in Workers, NEW k \in Keys, NEW t \in Tiers, PutWrite(w, k, t) PROVE CleanedIsOver'
    <2>1. PutWriteEffect(w, k, t) BY <1>3, PutWriteDoes
    <2> QED BY <2>1 DEF PutWriteEffect, TypeOK, CleanedIsOver, Executes
  <1>4. ASSUME NEW w \in Workers, PutRecord(w) PROVE CleanedIsOver'
    BY <1>4 DEF PutRecord, Goto, TypeOK, CleanedIsOver, Executes
  <1>5. ASSUME NEW w \in Workers, RunEnds(w) PROVE CleanedIsOver'
    BY <1>5 DEF RunEnds, Goto, busVars, TypeOK, CleanedIsOver, Executes
  <1>6. ASSUME NEW w \in Workers, Crash(w) PROVE CleanedIsOver'
    BY <1>6 DEF Crash, Done, Goto, TypeOK, CleanedIsOver, Executes
  <1>7. ASSUME NEW w \in Workers, Cleanup(w) PROVE CleanedIsOver'
    <2>1. CleanupEffect(w) BY <1>7, CleanupDoes
    <2> QED BY <2>1 DEF CleanupEffect, TypeOK, CleanedIsOver, Executes
  <1>8. ASSUME NEW e \in Evictors, EvictRead(e) PROVE CleanedIsOver'
    BY <1>8 DEF EvictRead, Goto, busVars, TypeOK, CleanedIsOver, Executes
  <1>9. ASSUME NEW e \in Evictors, EvictWrite(e) PROVE CleanedIsOver'
    BY <1>9 DEF EvictWrite, Goto, TypeOK, CleanedIsOver, Executes
  <1>10. ASSUME NEW e \in Evictors, EvictRecord(e) PROVE CleanedIsOver'
    BY <1>10 DEF EvictRecord, Done, Goto, TypeOK, CleanedIsOver, Executes
  <1>11. CASE Expire
    BY <1>11 DEF Expire, TypeOK, CleanedIsOver, Executes
  <1>12. CASE UNCHANGED vars
    BY <1>12 DEF vars, busVars, TypeOK, CleanedIsOver, Executes
  <1> QED BY <1>1, <1>2, <1>3, <1>4, <1>5, <1>6, <1>7, <1>8, <1>9, <1>10, <1>11, <1>12 DEF Next

LEMMA OneHolderStep == TypeOK /\ KnowsOwn /\ NewIsEmpty /\ OneHolder /\ [Next]_vars => OneHolder'
  <1> SUFFICES ASSUME TypeOK, KnowsOwn, NewIsEmpty, OneHolder, [Next]_vars PROVE OneHolder' OBVIOUS
  <1> USE ArrowBusAssumption
  <1>1. ASSUME NEW w \in Workers, NEW r \in Runs, Begin(w, r) PROVE OneHolder'
    <2>1. \A x \in Workers : cur[x] # r BY <1>1 DEF Begin, NewIsEmpty
    <2>2. \A x \in Workers : x # w => cur'[x] = cur[x] /\ (Holds(x)' <=> Holds(x)) /\ cur'[w] = r
      BY <1>1 DEF Begin, Goto, busVars, TypeOK, Holds
    <2> QED BY <2>1, <2>2 DEF OneHolder
  <1>2. ASSUME NEW w \in Workers, NEW r \in Runs, Redelivered(w, r) PROVE OneHolder'
    <2>1. ~Holds(w)' BY <1>2, ItemsTyped DEF Redelivered, Goto, busVars, TypeOK, Holds
    <2>2. \A x \in Workers : x # w => cur'[x] = cur[x] /\ (Holds(x)' <=> Holds(x))
      BY <1>2 DEF Redelivered, Goto, busVars, TypeOK, Holds
    <2> QED BY <2>1, <2>2 DEF OneHolder
  <1>3. ASSUME NEW w \in Workers, NEW k \in Keys, NEW t \in Tiers, PutWrite(w, k, t) PROVE OneHolder'
    <2>1. PutWriteEffect(w, k, t) BY <1>3, PutWriteDoes
    <2>2. \A x \in Workers : Holds(x)' => Holds(x) BY <2>1 DEF PutWriteEffect, TypeOK, Holds
    <2> QED BY <2>1, <2>2 DEF PutWriteEffect, OneHolder
  <1>4. ASSUME NEW w \in Workers, PutRecord(w) PROVE OneHolder'
    <2>1. pc[w] = "written" /\ item[w] \in Payload BY <1>4 DEF PutRecord, TypeOK
    <2>2. item[w].key \in Keys BY <2>1 DEF Payload
    <2>3. \A x \in Workers : Holds(x)' => Holds(x) BY <1>4, <2>1, <2>2 DEF PutRecord, Goto, TypeOK, Holds
    <2> QED BY <1>4, <2>3 DEF PutRecord, OneHolder
  <1>5. ASSUME NEW w \in Workers, RunEnds(w) PROVE OneHolder'
    <2>1. \A x \in Workers : Holds(x)' => Holds(x) BY <1>5 DEF RunEnds, Goto, busVars, TypeOK, Holds
    <2> QED BY <1>5, <2>1 DEF RunEnds, OneHolder
  <1>6. ASSUME NEW w \in Workers, Crash(w) PROVE OneHolder'
    <2>1. ~Holds(w)' BY <1>6 DEF Crash, Done, Goto, TypeOK, Holds
    <2>2. \A x \in Workers : x # w => cur'[x] = cur[x] /\ (Holds(x)' <=> Holds(x))
      BY <1>6 DEF Crash, Done, Goto, TypeOK, Holds
    <2> QED BY <2>1, <2>2 DEF OneHolder
  <1>7. ASSUME NEW w \in Workers, Cleanup(w) PROVE OneHolder'
    <2>1. CleanupEffect(w) BY <1>7, CleanupDoes
    <2>2. ~Holds(w)' BY <2>1 DEF CleanupEffect, TypeOK, Holds
    <2>3. \A x \in Workers : x # w => cur'[x] = cur[x] /\ (Holds(x)' <=> Holds(x))
      BY <2>1 DEF CleanupEffect, TypeOK, Holds
    <2> QED BY <2>2, <2>3 DEF OneHolder
  <1>8. ASSUME NEW e \in Evictors, EvictRead(e) PROVE OneHolder'
    <2>1. \A x \in Workers : Holds(x)' <=> Holds(x) BY <1>8 DEF EvictRead, Goto, busVars, TypeOK, Holds
    <2> QED BY <1>8, <2>1 DEF EvictRead, OneHolder
  <1>9. ASSUME NEW e \in Evictors, EvictWrite(e) PROVE OneHolder'
    <2>1. \A x \in Workers : Holds(x)' <=> Holds(x) BY <1>9 DEF EvictWrite, Goto, TypeOK, Holds
    <2> QED BY <1>9, <2>1 DEF EvictWrite, OneHolder
  <1>10. ASSUME NEW e \in Evictors, EvictRecord(e) PROVE OneHolder'
    <2>1. \A x \in Workers : Holds(x)' <=> Holds(x) BY <1>10 DEF EvictRecord, Done, Goto, TypeOK, Holds
    <2> QED BY <1>10, <2>1 DEF EvictRecord, OneHolder
  <1>11. CASE Expire
    BY <1>11 DEF Expire, TypeOK, OneHolder, Holds
  <1>12. CASE UNCHANGED vars
    BY <1>12 DEF vars, busVars, TypeOK, OneHolder, Holds
  <1> QED BY <1>1, <1>2, <1>3, <1>4, <1>5, <1>6, <1>7, <1>8, <1>9, <1>10, <1>11, <1>12 DEF Next

LEMMA ManifestAgreesStep == TypeOK /\ KnowsOwn /\ NewIsEmpty /\ OneHolder /\ ManifestAgrees /\ [Next]_vars => ManifestAgrees'
  <1> SUFFICES ASSUME TypeOK, KnowsOwn, NewIsEmpty, OneHolder, ManifestAgrees, [Next]_vars PROVE ManifestAgrees' OBVIOUS
  <1> USE ArrowBusAssumption
  <1>1. ASSUME NEW w \in Workers, NEW r \in Runs, Begin(w, r) PROVE ManifestAgrees'
    <2>1. \A k \in Keys : manifest[r][k] = None BY <1>1 DEF Begin, NewIsEmpty
    <2> QED BY <1>1, <2>1 DEF Begin, Goto, busVars, TypeOK, ManifestAgrees
  <1>2. ASSUME NEW w \in Workers, NEW r \in Runs, Redelivered(w, r) PROVE ManifestAgrees'
    BY <1>2, ItemsTyped DEF Redelivered, Goto, busVars, TypeOK, ManifestAgrees
  <1>3. ASSUME NEW w \in Workers, NEW k \in Keys, NEW t \in Tiers, PutWrite(w, k, t) PROVE ManifestAgrees'
    <2>1. PutWriteEffect(w, k, t) BY <1>3, PutWriteDoes
    <2>2. \A x \in Workers, j \in Keys : ~(x = w /\ j = k) => loc'[x][j] = loc[x][j]
      BY <2>1 DEF PutWriteEffect, TypeOK
    <2>3. \A r \in Runs, j \in Keys : manifest'[r][j] = None \/ manifest'[r][j] = manifest[r][j]
      BY <2>1 DEF PutWriteEffect
    <2>4. manifest[cur[w]][k] # None /\ manifest[cur[w]][k].tier # "shm" => loc[w][k] = manifest[cur[w]][k]
      BY <2>1 DEF PutWriteEffect, ManifestAgrees
    <2>5. manifest'[cur[w]][k] # None => manifest'[cur[w]][k].tier = "shm"
      BY <2>1, <2>4 DEF PutWriteEffect, KnowsOwn
    <2>6. cur' = cur /\ \A x \in Workers : pc'[x] \in {"run", "written"} => pc[x] \in {"run", "written"}
      BY <2>1 DEF PutWriteEffect, TypeOK
    <2> QED BY <2>2, <2>3, <2>5, <2>6 DEF ManifestAgrees
  <1>4. ASSUME NEW w \in Workers, PutRecord(w) PROVE ManifestAgrees'
    <2> DEFINE i == item[w]
    <2>1. pc[w] = "written" /\ i \in Payload /\ i.run = cur[w] /\ cur[w] \in Runs
      BY <1>4, ItemsTyped DEF PutRecord, TypeOK, KnowsOwn
    <2>2. i.key \in Keys BY <2>1 DEF Payload
    <2>3. loc'[w][i.key] = LocOf(i) /\ manifest'[cur[w]][i.key] = LocOf(i)
      BY <1>4, <2>1, <2>2 DEF PutRecord, TypeOK
    <2>4. \A x \in Workers, j \in Keys : ~(x = w /\ j = i.key) => loc'[x][j] = loc[x][j]
      BY <1>4, <2>1, <2>2 DEF PutRecord, TypeOK
    <2>5. \A r \in Runs, j \in Keys : ~(r = cur[w] /\ j = i.key) => manifest'[r][j] = manifest[r][j]
      BY <1>4, <2>1, <2>2 DEF PutRecord, TypeOK
    <2>6. cur' = cur /\ \A x \in Workers : pc'[x] \in {"run", "written"} => pc[x] \in {"run", "written"}
      BY <1>4, <2>1 DEF PutRecord, Goto, TypeOK
    <2>7. \A x \in Workers : x # w /\ cur[x] = cur[w] =>
            pc[x] \notin {"run", "written"} /\ \A j \in Keys : loc[x][j] = None
      BY <2>1 DEF OneHolder, Holds
    <2> HIDE DEF i
    <2> QED BY <2>2, <2>3, <2>4, <2>5, <2>6, <2>7 DEF ManifestAgrees
  <1>5. ASSUME NEW w \in Workers, RunEnds(w) PROVE ManifestAgrees'
    BY <1>5 DEF RunEnds, Goto, busVars, TypeOK, ManifestAgrees
  <1>6. ASSUME NEW w \in Workers, Crash(w) PROVE ManifestAgrees'
    BY <1>6 DEF Crash, Done, Goto, TypeOK, ManifestAgrees
  <1>7. ASSUME NEW w \in Workers, Cleanup(w) PROVE ManifestAgrees'
    <2>1. CleanupEffect(w) BY <1>7, CleanupDoes
    <2> QED BY <2>1 DEF CleanupEffect, TypeOK, ManifestAgrees
  <1>8. ASSUME NEW e \in Evictors, EvictRead(e) PROVE ManifestAgrees'
    BY <1>8 DEF EvictRead, Goto, busVars, TypeOK, ManifestAgrees
  <1>9. ASSUME NEW e \in Evictors, EvictWrite(e) PROVE ManifestAgrees'
    BY <1>9 DEF EvictWrite, Goto, TypeOK, ManifestAgrees
  <1>10. ASSUME NEW e \in Evictors, EvictRecord(e) PROVE ManifestAgrees'
    <2>1. item[e] \in Payload /\ item[e] # None BY <1>10 DEF EvictRecord, TypeOK
    <2>2. item[e].key \in Keys /\ item[e].run \in Runs BY <2>1 DEF Payload
    <2>3. LocOf([item[e] EXCEPT !.tier = "shm"]).tier = "shm" BY <2>1 DEF LocOf, Payload
    <2>4. \A r \in Runs, j \in Keys : manifest'[r][j] = manifest[r][j] \/ manifest'[r][j].tier = "shm"
      BY <1>10, <2>2, <2>3 DEF EvictRecord, TypeOK
    <2>5. loc' = loc /\ cur' = cur /\ \A x \in Workers : pc'[x] = pc[x]
      BY <1>10 DEF EvictRecord, Done, Goto, TypeOK
    <2> QED BY <2>4, <2>5 DEF ManifestAgrees
  <1>11. CASE Expire
    BY <1>11 DEF Expire, TypeOK, ManifestAgrees
  <1>12. CASE UNCHANGED vars
    BY <1>12 DEF vars, busVars, TypeOK, ManifestAgrees
  <1> QED BY <1>1, <1>2, <1>3, <1>4, <1>5, <1>6, <1>7, <1>8, <1>9, <1>10, <1>11, <1>12 DEF Next

\* A process, or the manifest of the run, leads to x.
Known(x) ==
    \/ \E w \in Workers : item[w] = x \/ loc[w][x.key] = LocOf(x)
    \/ manifest[x.run][x.key] = LocOf(x)

\* The clean-up removes everything outside shared memory that the process
\* and the manifest of its run lead to.
LEMMA CleanupFinds ==
    ASSUME TypeOK, KnowsOwn, ManifestAgrees, NEW w \in Workers, CleanupEffect(w),
           NEW y \in store', y.tier # "shm"
    PROVE  /\ loc[w][y.key] # LocOf(y)
           /\ y.run = cur[w] => manifest[y.run][y.key] # LocOf(y)
  <1>1. y \in store /\ y \in Payload BY DEF CleanupEffect, TypeOK
  <1>2. y.key \in Keys /\ y.run \in Runs BY <1>1 DEF Payload
  <1>3. LocOf(y) # None /\ LocOf(y).tier # "shm" /\ SamePointer(At(LocOf(y), y.key), y)
    BY <1>1, LocationsTell
  <1>4. loc[w][y.key] # LocOf(y) BY <1>3 DEF CleanupEffect
  <1>5. ASSUME y.run = cur[w], manifest[y.run][y.key] = LocOf(y) PROVE FALSE
    <2>1. loc[w][y.key] # None BY <1>3, <1>5 DEF CleanupEffect
    <2> QED BY <2>1, <1>2, <1>3, <1>4, <1>5 DEF ManifestAgrees
  <1> QED BY <1>4, <1>5

LEMMA KnownOrTornStep == TypeOK /\ KnowsOwn /\ NewIsEmpty /\ OneHolder /\ ManifestAgrees /\ KnownOrTorn /\ [Next]_vars => KnownOrTorn'
  <1> SUFFICES ASSUME TypeOK, KnowsOwn, NewIsEmpty, OneHolder, ManifestAgrees, KnownOrTorn, [Next]_vars PROVE KnownOrTorn' OBVIOUS
  <1> USE ArrowBusAssumption
  <1>1. ASSUME NEW w \in Workers, NEW r \in Runs, Begin(w, r) PROVE KnownOrTorn'
    BY <1>1 DEF Begin, Goto, busVars, TypeOK, KnownOrTorn
  <1>2. ASSUME NEW w \in Workers, NEW r \in Runs, Redelivered(w, r) PROVE KnownOrTorn'
    BY <1>2 DEF Redelivered, Goto, busVars, TypeOK, KnownOrTorn
  <1>3. ASSUME NEW w \in Workers, NEW k \in Keys, NEW t \in Tiers, PutWrite(w, k, t) PROVE KnownOrTorn'
    <2> SUFFICES ASSUME NEW y \in store', y.tier # "shm", y.table \notin torn'
                 PROVE  Known(y)'
      BY DEF KnownOrTorn, Known
    <2>1. PutWriteEffect(w, k, t) BY <1>3, PutWriteDoes
    <2>2. CASE y = Fresh(w, k, t) BY <2>1, <2>2 DEF PutWriteEffect, Known, TypeOK
    <2>3. CASE y # Fresh(w, k, t)
      <3>1. y \in store /\ (loc[w][k] # None => ~SamePointer(At(loc[w][k], k), y))
        BY <2>1, <2>3 DEF PutWriteEffect
      <3>2. y \in Payload /\ y.key \in Keys /\ y.run \in Runs BY <3>1 DEF TypeOK, Payload
      <3>3. LocOf(y) # None /\ LocOf(y).tier # "shm" /\ LocOf(y).run = y.run
            /\ SamePointer(At(LocOf(y), y.key), y)
        BY <3>2, LocationsTell
      <3>4. loc[w][k] = LocOf(y) => y.key # k BY <3>1, <3>3
      <3>5. Known(y) BY <3>1, <2>1 DEF KnownOrTorn, Known, PutWriteEffect
      <3>6. CASE \E v \in Workers : item[v] = y
        <4>1. PICK v \in Workers : item[v] = y BY <3>6
        <4>2. v # w BY <4>1, <3>2, <2>1 DEF PutWriteEffect
        <4>3. item'[v] = y BY <4>1, <4>2, <2>1 DEF PutWriteEffect, TypeOK
        <4> QED BY <4>3 DEF Known
      <3>7. CASE \E v \in Workers : loc[v][y.key] = LocOf(y)
        <4>1. PICK v \in Workers : loc[v][y.key] = LocOf(y) BY <3>7
        <4>2. ~(v = w /\ y.key = k) BY <4>1, <3>4
        <4>3. loc'[v][y.key] = LocOf(y) BY <4>1, <4>2, <3>2, <2>1 DEF PutWriteEffect, TypeOK
        <4> QED BY <4>3 DEF Known
      <3>8. CASE manifest[y.run][y.key] = LocOf(y)
        <4>1. ASSUME y.key = k, loc[w][k] # None, loc[w][k].run = y.run PROVE FALSE
          <5>1. cur[w] = y.run BY <4>1 DEF KnowsOwn
          <5>2. loc[w][k] = LocOf(y) BY <5>1, <4>1, <3>2, <3>3, <3>8 DEF ManifestAgrees
          <5> QED BY <5>2, <4>1, <3>4
        <4>2. manifest'[y.run][y.key] = manifest[y.run][y.key] BY <4>1, <3>2, <2>1 DEF PutWriteEffect
        <4> QED BY <4>2, <3>8 DEF Known
      <3> QED BY <3>5, <3>6, <3>7, <3>8 DEF Known
    <2> QED BY <2>2, <2>3
  <1>4. ASSUME NEW w \in Workers, PutRecord(w) PROVE KnownOrTorn'
    <2> SUFFICES ASSUME NEW y \in store', y.tier # "shm", y.table \notin torn'
                 PROVE  Known(y)'
      BY DEF KnownOrTorn, Known
    <2> DEFINE i == item[w]
    <2>1. pc[w] = "written" /\ i \in Payload /\ i.run = cur[w] /\ cur[w] \in Runs /\ loc[w][i.key] = None
      BY <1>4, ItemsTyped DEF PutRecord, TypeOK, KnowsOwn
    <2>2. i.key \in Keys BY <2>1 DEF Payload
    <2>3. loc'[w][i.key] = LocOf(i) BY <1>4, <2>1, <2>2 DEF PutRecord, TypeOK
    <2>4. \A x \in Workers, j \in Keys : ~(x = w /\ j = i.key) => loc'[x][j] = loc[x][j]
      BY <1>4, <2>1, <2>2 DEF PutRecord, TypeOK
    <2>5. \A r \in Runs, j \in Keys : ~(r = cur[w] /\ j = i.key) => manifest'[r][j] = manifest[r][j]
      BY <1>4, <2>1, <2>2 DEF PutRecord, TypeOK
    <2>6. \A x \in Workers : x # w => item'[x] = item[x] BY <1>4 DEF PutRecord, TypeOK
    <2>7. y \in store /\ torn' = torn BY <1>4 DEF PutRecord
    <2>8. y.key \in Keys /\ y.run \in Runs /\ LocOf(y) # None /\ LocOf(y).tier # "shm"
      <3>1. y \in Payload BY <2>7 DEF TypeOK
      <3> QED BY <3>1, LocationsTell DEF Payload
    <2>9. Known(y) BY <2>7 DEF KnownOrTorn, Known
    <2>10. CASE i = y BY <2>3, <2>10 DEF Known
    <2>11. CASE \E v \in Workers : v # w /\ item[v] = y BY <2>6, <2>11 DEF Known
    <2>12. CASE \E v \in Workers : loc[v][y.key] = LocOf(y)
      <3>1. PICK v \in Workers : loc[v][y.key] = LocOf(y) BY <2>12
      <3>2. ~(v = w /\ y.key = i.key) BY <3>1, <2>1, <2>8
      <3>3. loc'[v][y.key] = LocOf(y) BY <3>1, <3>2, <2>4, <2>8
      <3> QED BY <3>3 DEF Known
    <2>13. CASE manifest[y.run][y.key] = LocOf(y)
      <3>1. ~(y.run = cur[w] /\ y.key = i.key) BY <2>13, <2>1, <2>2, <2>8 DEF ManifestAgrees
      <3>2. manifest'[y.run][y.key] = LocOf(y) BY <3>1, <2>5, <2>8, <2>13
      <3> QED BY <3>2 DEF Known
    <2> HIDE DEF i
    <2> QED BY <2>9, <2>10, <2>11, <2>12, <2>13 DEF Known, i
  <1>5. ASSUME NEW w \in Workers, RunEnds(w) PROVE KnownOrTorn'
    BY <1>5 DEF RunEnds, Goto, busVars, TypeOK, KnownOrTorn
  <1>6. ASSUME NEW w \in Workers, Crash(w) PROVE KnownOrTorn'
    <2>1. \A x \in store' : Known(x)' \/ x.table \in Unknown'
      BY DEF Known, Unknown
    <2> QED BY <1>6, <2>1 DEF Crash, KnownOrTorn, Known
  <1>7. ASSUME NEW w \in Workers, Cleanup(w) PROVE KnownOrTorn'
    <2> SUFFICES ASSUME NEW y \in store', y.tier # "shm", y.table \notin torn'
                 PROVE  Known(y)'
      BY DEF KnownOrTorn, Known
    <2>1. CleanupEffect(w) BY <1>7, CleanupDoes
    <2>2. y \in store /\ y.key \in Keys /\ y.run \in Runs /\ y # None
      <3>1. y \in store /\ y \in Payload BY <2>1 DEF CleanupEffect, TypeOK
      <3> QED BY <3>1 DEF Payload
    <2>3. /\ loc[w][y.key] # LocOf(y)
          /\ y.run = cur[w] => manifest[y.run][y.key] # LocOf(y)
      BY <2>1, CleanupFinds
    <2>4. Known(y) BY <2>1, <2>2 DEF KnownOrTorn, Known, CleanupEffect
    <2>5. \A v \in Workers : v # w => item'[v] = item[v] /\ loc'[v] = loc[v]
      BY <2>1 DEF CleanupEffect, TypeOK
    <2>6. item[w] # y BY <2>1, <2>2 DEF CleanupEffect
    <2>7. y.run # cur[w] => manifest'[y.run][y.key] = manifest[y.run][y.key]
      BY <2>1, <2>2 DEF CleanupEffect, TypeOK
    <2> QED BY <2>3, <2>4, <2>5, <2>6, <2>7 DEF Known
  <1>8. ASSUME NEW e \in Evictors, EvictRead(e) PROVE KnownOrTorn'
    <2>1. \A w \in Workers : item'[w] = item[w] BY <1>8 DEF EvictRead, TypeOK
    <2> QED BY <1>8, <2>1 DEF EvictRead, busVars, KnownOrTorn
  <1>9. ASSUME NEW e \in Evictors, EvictWrite(e) PROVE KnownOrTorn'
    <2>1. item[e] \in Payload BY <1>9 DEF EvictWrite, TypeOK
    <2>2. [item[e] EXCEPT !.tier = "shm"].tier = "shm" BY <2>1 DEF Payload
    <2>3. \A x \in store' : x \in store \/ x = [item[e] EXCEPT !.tier = "shm"]
      BY <1>9 DEF EvictWrite, Stored, Removed
    <2> QED BY <1>9, <2>2, <2>3 DEF EvictWrite, KnownOrTorn
  <1>10. ASSUME NEW e \in Evictors, EvictRecord(e) PROVE KnownOrTorn'
    <2>1. \A x \in store' : Known(x)' \/ x.table \in Unknown'
      BY DEF Known, Unknown
    <2> QED BY <1>10, <2>1 DEF EvictRecord, KnownOrTorn, Known
  <1>11. CASE Expire
    BY <1>11 DEF Expire, TypeOK, KnownOrTorn
  <1>12. CASE UNCHANGED vars
    BY <1>12 DEF vars, busVars, TypeOK, KnownOrTorn
  <1> QED BY <1>1, <1>2, <1>3, <1>4, <1>5, <1>6, <1>7, <1>8, <1>9, <1>10, <1>11, <1>12 DEF Next

LEMMA NothingLeftStep == TypeOK /\ KnowsOwn /\ NewIsEmpty /\ CleanedIsOver /\ ManifestAgrees /\ KnownOrTorn /\ NothingLeft /\ [Next]_vars => NothingLeft'
  <1> SUFFICES ASSUME TypeOK, KnowsOwn, NewIsEmpty, CleanedIsOver, ManifestAgrees, KnownOrTorn, NothingLeft, [Next]_vars PROVE NothingLeft' OBVIOUS
  <1> USE ArrowBusAssumption
  <1>1. ASSUME NEW w \in Workers, NEW r \in Runs, Begin(w, r) PROVE NothingLeft'
    <2>1. \A x \in store : x.run \in Runs BY DEF TypeOK, Payload
    <2> QED BY <1>1, <2>1 DEF Begin, busVars, TypeOK, NothingLeft
  <1>2. ASSUME NEW w \in Workers, NEW r \in Runs, Redelivered(w, r) PROVE NothingLeft'
    BY <1>2 DEF Redelivered, Goto, busVars, TypeOK, NothingLeft
  <1>3. ASSUME NEW w \in Workers, NEW k \in Keys, NEW t \in Tiers, PutWrite(w, k, t) PROVE NothingLeft'
    <2>1. PutWriteEffect(w, k, t) BY <1>3, PutWriteDoes
    <2>2. Fresh(w, k, t).run = cur[w] BY DEF Fresh
    <2>3. life[cur[w]] # "cleaned" BY <2>1 DEF PutWriteEffect, CleanedIsOver, Executes
    <2> QED BY <2>1, <2>2, <2>3 DEF PutWriteEffect, NothingLeft
  <1>4. ASSUME NEW w \in Workers, PutRecord(w) PROVE NothingLeft'
    BY <1>4 DEF PutRecord, Goto, TypeOK, NothingLeft
  <1>5. ASSUME NEW w \in Workers, RunEnds(w) PROVE NothingLeft'
    BY <1>5 DEF RunEnds, Goto, busVars, TypeOK, NothingLeft
  <1>6. ASSUME NEW w \in Workers, Crash(w) PROVE NothingLeft'
    <2>1. torn \subseteq torn' BY <1>6 DEF Crash
    <2> QED BY <1>6, <2>1 DEF Crash, NothingLeft
  <1>7. ASSUME NEW w \in Workers, Cleanup(w) PROVE NothingLeft'
    <2>1. CleanupEffect(w) BY <1>7, CleanupDoes
    <2> SUFFICES ASSUME NEW y \in store', life'[y.run] = "cleaned"
                 PROVE  y.table \in torn \/ (y.tier = "shm" /\ y.table \in demoted)
      BY <2>1 DEF NothingLeft, CleanupEffect
    <2>2. y \in store /\ y.key \in Keys /\ y.run \in Runs /\ y # None /\ y \in Payload
      <3>1. y \in store /\ y \in Payload BY <2>1 DEF CleanupEffect, TypeOK
      <3> QED BY <3>1 DEF Payload
    <2>3. CASE life[y.run] = "cleaned" BY <2>2, <2>3 DEF NothingLeft
    <2>4. CASE life[y.run] # "cleaned"
      <3>1. y.run = cur[w] /\ \A x \in Workers \ {w} : cur[x] # cur[w]
        BY <2>1, <2>2, <2>4 DEF CleanupEffect, TypeOK
      <3>2. y.tier # "shm" BY <2>1, <3>1 DEF CleanupEffect
      <3>3. loc[w][y.key] # LocOf(y) /\ manifest[y.run][y.key] # LocOf(y)
        BY <2>1, <3>1, <3>2, CleanupFinds
      <3>4. LocOf(y) # None /\ LocOf(y).run = y.run BY <2>2, LocationsTell
      <3>5. \A v \in Workers : item[v] = y => cur[v] = y.run BY <2>2 DEF KnowsOwn
      <3>6. \A v \in Workers : loc[v][y.key] = LocOf(y) => cur[v] = y.run BY <2>2, <3>4 DEF KnowsOwn
      <3>7. item[w] # y BY <2>1, <2>2 DEF CleanupEffect
      <3> QED BY <2>2, <3>1, <3>2, <3>3, <3>5, <3>6, <3>7 DEF KnownOrTorn
    <2> QED BY <2>3, <2>4
  <1>8. ASSUME NEW e \in Evictors, EvictRead(e) PROVE NothingLeft'
    BY <1>8 DEF EvictRead, Goto, busVars, TypeOK, NothingLeft
  <1>9. ASSUME NEW e \in Evictors, EvictWrite(e) PROVE NothingLeft'
    <2>1. item[e] \in Payload BY <1>9 DEF EvictWrite, TypeOK
    <2>2. [item[e] EXCEPT !.tier = "shm"].tier = "shm" /\ [item[e] EXCEPT !.tier = "shm"].table = item[e].table
      BY <2>1 DEF Payload
    <2>3. \A x \in store' : x \in store \/ x = [item[e] EXCEPT !.tier = "shm"]
      BY <1>9 DEF EvictWrite, Stored, Removed
    <2> QED BY <1>9, <2>2, <2>3 DEF EvictWrite, NothingLeft
  <1>10. ASSUME NEW e \in Evictors, EvictRecord(e) PROVE NothingLeft'
    <2>1. torn \subseteq torn' BY <1>10 DEF EvictRecord
    <2>2. store' \subseteq store BY <1>10 DEF EvictRecord, Removed
    <2> QED BY <1>10, <2>1, <2>2 DEF EvictRecord, NothingLeft
  <1>11. CASE Expire
    BY <1>11 DEF Expire, TypeOK, NothingLeft
  <1>12. CASE UNCHANGED vars
    BY <1>12 DEF vars, busVars, TypeOK, NothingLeft
  <1> QED BY <1>1, <1>2, <1>3, <1>4, <1>5, <1>6, <1>7, <1>8, <1>9, <1>10, <1>11, <1>12 DEF Next

-----------------------------------------------------------------------------
(* Nothing is left of a run that was cleaned up.                           *)

LEMMA BusInvInit == Init => BusInv
  <1> SUFFICES ASSUME Init PROVE BusInv OBVIOUS
  <1>1. TypeOK BY TypeInit
  <1>2. KnowsOwn /\ NewIsEmpty BY ArrowBusAssumption DEF Init, KnowsOwn, NewIsEmpty
  <1>3. CleanedIsOver BY DEF Init, CleanedIsOver
  <1>4. OneHolder BY DEF Init, OneHolder, Holds
  <1>5. ManifestAgrees /\ KnownOrTorn /\ NothingLeft
    BY DEF Init, ManifestAgrees, KnownOrTorn, NothingLeft
  <1> QED BY <1>1, <1>2, <1>3, <1>4, <1>5 DEF BusInv

LEMMA BusInvStep == BusInv /\ [Next]_vars => BusInv'
  BY TypeStep, KnowsOwnStep, NewIsEmptyStep, CleanedIsOverStep, OneHolderStep, ManifestAgreesStep,
     KnownOrTornStep, NothingLeftStep DEF BusInv

\* The state keeps its types.
THEOREM ArrowBusTypeCorrect == Spec => []TypeOK
  BY TypeInit, TypeStep, PTL DEF Spec

\* Nothing is left of a run after the clean-up of its last process but tables
\* that nothing led to any more, and late copies in shared memory
\* (cleanup_run against put, eviction and the loss of a process).
THEOREM NothingIsLeft == Spec => []NothingLeft
  <1>1. BusInv => NothingLeft BY DEF BusInv
  <1> QED BY <1>1, BusInvInit, BusInvStep, PTL DEF Spec

-----------------------------------------------------------------------------
(* What a run reads.                                                       *)

LEMMA WrittenInit == Init => WrittenTyped /\ KeptIsWritten /\ PutsAreNew
  BY ArrowBusAssumption DEF Init, WrittenTyped, KeptIsWritten, Kept, PutsAreNew

LEMMA WrittenTypedStep == TypeOK /\ WrittenTyped /\ [Next]_vars => WrittenTyped'
  <1> SUFFICES ASSUME TypeOK, WrittenTyped, [Next]_vars PROVE WrittenTyped' OBVIOUS
  <1>1. ASSUME NEW w \in Workers, NEW r \in Runs, Begin(w, r) PROVE WrittenTyped'
    BY <1>1 DEF Begin, Goto, busVars, WrittenTyped
  <1>2. ASSUME NEW w \in Workers, NEW r \in Runs, Redelivered(w, r) PROVE WrittenTyped'
    BY <1>2 DEF Redelivered, Goto, busVars, WrittenTyped
  <1>3. ASSUME NEW w \in Workers, NEW k \in Keys, NEW t \in Tiers, PutWrite(w, k, t) PROVE WrittenTyped'
    BY <1>3 DEF PutWrite, WrittenTyped
  <1>4. ASSUME NEW w \in Workers, PutRecord(w) PROVE WrittenTyped'
    <2>1. item[w] \in Payload BY <1>4 DEF PutRecord, TypeOK
    <2>2. item[w].run \in Runs /\ item[w].key \in Keys /\ item[w].table \in 1..MaxPuts BY <2>1 DEF Payload
    <2>3. written' = [written EXCEPT ![item[w].run][item[w].key] = @ \union {item[w].table}]
      BY <1>4 DEF PutRecord
    <2> QED BY <2>2, <2>3 DEF WrittenTyped
  <1>5. ASSUME NEW w \in Workers, RunEnds(w) PROVE WrittenTyped'
    BY <1>5 DEF RunEnds, Goto, busVars, WrittenTyped
  <1>6. ASSUME NEW w \in Workers, Crash(w) PROVE WrittenTyped'
    BY <1>6 DEF Crash, Done, Goto, WrittenTyped
  <1>7. ASSUME NEW w \in Workers, Cleanup(w) PROVE WrittenTyped'
    BY <1>7 DEF Cleanup, Done, Goto, WrittenTyped
  <1>8. ASSUME NEW e \in Evictors, EvictRead(e) PROVE WrittenTyped'
    BY <1>8 DEF EvictRead, Goto, busVars, WrittenTyped
  <1>9. ASSUME NEW e \in Evictors, EvictWrite(e) PROVE WrittenTyped'
    BY <1>9 DEF EvictWrite, Goto, WrittenTyped
  <1>10. ASSUME NEW e \in Evictors, EvictRecord(e) PROVE WrittenTyped'
    BY <1>10 DEF EvictRecord, Done, Goto, WrittenTyped
  <1>11. CASE Expire
    BY <1>11 DEF Expire, WrittenTyped
  <1>12. CASE UNCHANGED vars
    BY <1>12 DEF vars, busVars, WrittenTyped
  <1> QED BY <1>1, <1>2, <1>3, <1>4, <1>5, <1>6, <1>7, <1>8, <1>9, <1>10, <1>11, <1>12 DEF Next

LEMMA PutsAreNewStep == TypeOK /\ KnowsOwn /\ WrittenTyped /\ PutsAreNew /\ [Next]_vars => PutsAreNew'
  <1> SUFFICES ASSUME TypeOK, KnowsOwn, WrittenTyped, PutsAreNew, [Next]_vars PROVE PutsAreNew' OBVIOUS
  <1> USE ArrowBusAssumption
  <1>1. ASSUME NEW w \in Workers, NEW r \in Runs, Begin(w, r) PROVE PutsAreNew'
    BY <1>1 DEF Begin, Goto, busVars, TypeOK, PutsAreNew
  <1>2. ASSUME NEW w \in Workers, NEW r \in Runs, Redelivered(w, r) PROVE PutsAreNew'
    BY <1>2 DEF Redelivered, Goto, busVars, TypeOK, PutsAreNew
  <1>3. ASSUME NEW w \in Workers, NEW k \in Keys, NEW t \in Tiers, PutWrite(w, k, t) PROVE PutsAreNew'
    <2>1. PutWriteEffect(w, k, t) BY <1>3, PutWriteDoes
    <2>2. Fresh(w, k, t).table = puts' BY <2>1 DEF Fresh, PutWriteEffect
    <2>3. item'[w] = Fresh(w, k, t) /\ \A v \in Workers : v # w => item'[v] = item[v]
      BY <2>1 DEF PutWriteEffect, TypeOK
    <2>4. puts \in Nat /\ puts' = puts + 1 /\ written' = written BY <2>1 DEF PutWriteEffect, TypeOK
    <2>5. \A v \in Workers : item[v] # None => item[v].table \in Nat /\ item[v].table <= puts
      <3>1. \A v \in Workers : item[v] # None => item[v] \in Payload BY DEF TypeOK
      <3>2. \A y \in Payload : y.table \in Nat BY DEF Payload
      <3> QED BY <3>1, <3>2 DEF PutsAreNew
    <2>6. \A r \in Runs, j \in Keys : written[r][j] \subseteq 1..puts BY DEF PutsAreNew
    <2>7. \A r \in Runs, j \in Keys : written'[r][j] \subseteq 1..puts' /\ puts' \notin written'[r][j]
      BY <2>4, <2>6
    <2> QED BY <2>2, <2>3, <2>4, <2>5, <2>7 DEF PutsAreNew
  <1>4. ASSUME NEW w \in Workers, PutRecord(w) PROVE PutsAreNew'
    <2> DEFINE i == item[w]
    <2>1. i \in Payload /\ i # None BY <1>4 DEF PutRecord, TypeOK
    <2>2. i.run \in Runs /\ i.key \in Keys /\ i.table \in 1..MaxPuts BY <2>1 DEF Payload
    <2>3. \A r \in Runs, k \in Keys : \A n \in written'[r][k] : n \in written[r][k] \/ n = i.table
      BY <1>4, <2>2 DEF PutRecord, WrittenTyped
    <2>4. i.table \in 1..puts BY <2>1, <2>2 DEF PutsAreNew, TypeOK
    <2>5. item'[w] = None /\ puts' = puts /\ \A v \in Workers : v # w => item'[v] = item[v]
      BY <1>4 DEF PutRecord, TypeOK
    <2>6. \A v \in Workers : v # w /\ item[v] # None => item[v].table # i.table BY <2>1 DEF PutsAreNew
    <2> HIDE DEF i
    <2> QED BY <2>3, <2>4, <2>5, <2>6 DEF PutsAreNew
  <1>5. ASSUME NEW w \in Workers, RunEnds(w) PROVE PutsAreNew'
    BY <1>5 DEF RunEnds, Goto, busVars, TypeOK, PutsAreNew
  <1>6. ASSUME NEW w \in Workers, Crash(w) PROVE PutsAreNew'
    BY <1>6 DEF Crash, Done, Goto, TypeOK, PutsAreNew
  <1>7. ASSUME NEW w \in Workers, Cleanup(w) PROVE PutsAreNew'
    <2>1. CleanupEffect(w) BY <1>7, CleanupDoes
    <2> QED BY <2>1 DEF CleanupEffect, TypeOK, PutsAreNew
  <1>8. ASSUME NEW e \in Evictors, EvictRead(e) PROVE PutsAreNew'
    BY <1>8 DEF EvictRead, Goto, busVars, TypeOK, PutsAreNew
  <1>9. ASSUME NEW e \in Evictors, EvictWrite(e) PROVE PutsAreNew'
    BY <1>9 DEF EvictWrite, Goto, TypeOK, PutsAreNew
  <1>10. ASSUME NEW e \in Evictors, EvictRecord(e) PROVE PutsAreNew'
    BY <1>10 DEF EvictRecord, Done, Goto, TypeOK, PutsAreNew
  <1>11. CASE Expire
    BY <1>11 DEF Expire, TypeOK, PutsAreNew
  <1>12. CASE UNCHANGED vars
    BY <1>12 DEF vars, busVars, TypeOK, PutsAreNew
  <1> QED BY <1>1, <1>2, <1>3, <1>4, <1>5, <1>6, <1>7, <1>8, <1>9, <1>10, <1>11, <1>12 DEF Next

LEMMA KeptIsWrittenStep == TypeOK /\ KnowsOwn /\ NewIsEmpty /\ OneHolder /\ WrittenTyped /\ KeptIsWritten /\ [Next]_vars => KeptIsWritten'
  <1> SUFFICES ASSUME TypeOK, KnowsOwn, NewIsEmpty, OneHolder, WrittenTyped, KeptIsWritten, [Next]_vars PROVE KeptIsWritten' OBVIOUS
  <1> USE ArrowBusAssumption
  <1>1. ASSUME NEW w \in Workers, NEW r \in Runs, Begin(w, r) PROVE KeptIsWritten'
    <2>1. \A x \in Kept : x.run # r BY <1>1 DEF Begin, NewIsEmpty, Kept
    <2>2. Kept' = Kept BY <1>1 DEF Begin, busVars, Kept
    <2>3. \A s \in Runs, v \in Workers : s # r /\ Executes(v, s)' => Executes(v, s)
      BY <1>1 DEF Begin, Goto, TypeOK, Executes
    <2>4. \A x \in Kept : x.run \in Runs BY DEF Kept, Payload
    <2> QED BY <1>1, <2>1, <2>2, <2>3, <2>4 DEF Begin, KeptIsWritten, Pending
  <1>2. ASSUME NEW w \in Workers, NEW r \in Runs, Redelivered(w, r) PROVE KeptIsWritten'
    <2>1. Kept' = Kept BY <1>2 DEF Redelivered, busVars, Kept
    <2>2. \A s \in Runs, v \in Workers : Executes(v, s)' => Executes(v, s)
      BY <1>2 DEF Redelivered, Goto, TypeOK, Executes
    <2>3. \A x \in Kept : x.run \in Runs BY DEF Kept, Payload
    <2> QED BY <1>2, <2>1, <2>2, <2>3 DEF Redelivered, KeptIsWritten, Pending
  <1>3. ASSUME NEW w \in Workers, NEW k \in Keys, NEW t \in Tiers, PutWrite(w, k, t) PROVE KeptIsWritten'
    <2>1. PutWriteEffect(w, k, t) BY <1>3, PutWriteDoes
    <2>2. \A x \in Kept' : x \in Kept \/ x = Fresh(w, k, t)
      BY <2>1 DEF PutWriteEffect, Kept, TypeOK
    <2>3. \A s \in Runs, v \in Workers : Executes(v, s)' => Executes(v, s)
      BY <2>1 DEF PutWriteEffect, TypeOK, Executes
    <2>4. \A x \in Kept : x.run \in Runs BY DEF Kept, Payload
    <2>5. item'[w] = Fresh(w, k, t) /\ \A v \in Workers : v # w => item'[v] = item[v]
      BY <2>1 DEF PutWriteEffect, TypeOK
    <2>6. Fresh(w, k, t) # None /\ item[w] = None /\ written' = written BY <2>1 DEF PutWriteEffect
    <2>7. \A r, j, n : Pending(r, j, n) => Pending(r, j, n)' BY <2>5, <2>6 DEF Pending
    <2>8. \A x : x = Fresh(w, k, t) => Pending(x.run, x.key, x.table)' BY <2>5, <2>6 DEF Pending
    <2> QED BY <2>2, <2>3, <2>4, <2>6, <2>7, <2>8 DEF KeptIsWritten
  <1>4. ASSUME NEW w \in Workers, PutRecord(w) PROVE KeptIsWritten'
    <2> DEFINE i == item[w]
    <2>1. i \in Payload /\ i # None /\ pc[w] = "written" BY <1>4 DEF PutRecord, TypeOK
    <2>2. i.run \in Runs /\ i.key \in Keys BY <2>1 DEF Payload
    <2>3. i.table \in written'[i.run][i.key] BY <1>4, <2>2 DEF PutRecord, WrittenTyped
    <2>4. \A r \in Runs, k \in Keys : written[r][k] \subseteq written'[r][k]
      BY <1>4, <2>2 DEF PutRecord, WrittenTyped
    <2>5. \A v \in Workers \union Evictors : v # w => item'[v] = item[v] BY <1>4 DEF PutRecord, TypeOK
    <2>6. Kept' = Kept BY <1>4, <2>5 DEF PutRecord, Kept
    <2>7. \A s \in Runs, v \in Workers : Executes(v, s)' => Executes(v, s)
      BY <1>4 DEF PutRecord, Goto, TypeOK, Executes
    <2>8. \A x \in Kept : x.run \in Runs /\ x.key \in Keys BY DEF Kept, Payload
    <2>9. \A r, k, n : Pending(r, k, n) => Pending(r, k, n)' \/ (r = i.run /\ k = i.key /\ n = i.table)
      BY <2>5 DEF Pending
    <2> HIDE DEF i
    <2> QED BY <2>3, <2>4, <2>6, <2>7, <2>8, <2>9 DEF KeptIsWritten
  <1>5. ASSUME NEW w \in Workers, RunEnds(w) PROVE KeptIsWritten'
    <2>1. Kept' = Kept BY <1>5 DEF RunEnds, busVars, Kept
    <2>2. \A s \in Runs, v \in Workers : Executes(v, s)' => Executes(v, s)
      BY <1>5 DEF RunEnds, Goto, TypeOK, Executes
    <2>3. \A x \in Kept : x.run \in Runs BY DEF Kept, Payload
    <2> QED BY <1>5, <2>1, <2>2, <2>3 DEF RunEnds, KeptIsWritten, Pending
  <1>6. ASSUME NEW w \in Workers, Crash(w) PROVE KeptIsWritten'
    <2>1. \A v \in Workers \union Evictors : v # w => item'[v] = item[v] BY <1>6 DEF Crash, Done, TypeOK
    <2>2. Kept' = Kept BY <1>6, <2>1 DEF Crash, Kept
    <2>3. \A s \in Runs, v \in Workers : Executes(v, s)' => Executes(v, s) /\ v # w
      BY <1>6 DEF Crash, Done, Goto, TypeOK, Executes
    <2>4. \A x \in Kept : x.run \in Runs BY DEF Kept, Payload
    <2>5. \A s \in Runs, v \in Workers : Executes(v, s) /\ v # w /\ item[w] # None => item[w].run # s
      BY ItemsTyped DEF OneHolder, Holds, Executes, KnowsOwn
    <2>6. \A r, k, n : Pending(r, k, n) => Pending(r, k, n)' \/ (item[w] # None /\ r = item[w].run)
      BY <2>1 DEF Pending
    <2> QED BY <1>6, <2>2, <2>3, <2>4, <2>5, <2>6 DEF Crash, KeptIsWritten
  <1>7. ASSUME NEW w \in Workers, Cleanup(w) PROVE KeptIsWritten'
    <2>1. CleanupEffect(w) BY <1>7, CleanupDoes
    <2>2. item' = item BY <2>1 DEF CleanupEffect, TypeOK
    <2>3. Kept' \subseteq Kept BY <2>1, <2>2 DEF CleanupEffect, Kept
    <2>4. \A s \in Runs, v \in Workers : Executes(v, s)' => Executes(v, s)
      BY <2>1 DEF CleanupEffect, TypeOK, Executes
    <2>5. \A x \in Kept : x.run \in Runs BY DEF Kept, Payload
    <2> QED BY <2>1, <2>2, <2>3, <2>4, <2>5 DEF CleanupEffect, KeptIsWritten, Pending
  <1>8. ASSUME NEW e \in Evictors, EvictRead(e) PROVE KeptIsWritten'
    <2>1. \A v \in Workers : item'[v] = item[v] /\ pc'[v] = pc[v] BY <1>8 DEF EvictRead, Goto, TypeOK
    <2>2. Kept' = Kept BY <1>8 DEF EvictRead, Kept, busVars, TypeOK
    <2> QED BY <1>8, <2>1, <2>2 DEF EvictRead, KeptIsWritten, Pending, Executes
  <1>9. ASSUME NEW e \in Evictors, EvictWrite(e) PROVE KeptIsWritten'
    <2>1. item[e] \in Payload /\ item[e] \in Kept BY <1>9 DEF EvictWrite, TypeOK, Kept
    <2> DEFINE y == [item[e] EXCEPT !.tier = "shm"]
    <2>2. y.run = item[e].run /\ y.key = item[e].key /\ y.table = item[e].table BY <2>1 DEF Payload
    <2>3. \A x \in Kept' : x \in Kept \/ x = y BY <1>9 DEF EvictWrite, Stored, Removed, Kept
    <2>4. \A v \in Workers : pc'[v] = pc[v] BY <1>9 DEF EvictWrite, Goto, TypeOK
    <2> HIDE DEF y
    <2> QED BY <1>9, <2>1, <2>2, <2>3, <2>4 DEF EvictWrite, KeptIsWritten, Pending, Executes
  <1>10. ASSUME NEW e \in Evictors, EvictRecord(e) PROVE KeptIsWritten'
    <2>1. \A v \in Workers : item'[v] = item[v] /\ pc'[v] = pc[v] BY <1>10 DEF EvictRecord, Done, Goto, TypeOK
    <2>2. \A d \in Evictors : item'[d] = item[d] \/ item'[d] = None BY <1>10 DEF EvictRecord, Done, TypeOK
    <2>3. Kept' \subseteq Kept BY <1>10, <2>2 DEF EvictRecord, Removed, Kept
    <2> QED BY <1>10, <2>1, <2>3 DEF EvictRecord, KeptIsWritten, Pending, Executes
  <1>11. CASE Expire
    <2>1. Kept' \subseteq Kept BY <1>11 DEF Expire, Kept
    <2> QED BY <1>11, <2>1 DEF Expire, KeptIsWritten, Pending, Executes
  <1>12. CASE UNCHANGED vars
    <2>1. Kept' = Kept BY <1>12 DEF vars, busVars, Kept
    <2> QED BY <1>12, <2>1 DEF vars, busVars, KeptIsWritten, Pending, Executes
  <1> QED BY <1>1, <1>2, <1>3, <1>4, <1>5, <1>6, <1>7, <1>8, <1>9, <1>10, <1>11, <1>12 DEF Next

LEMMA ReadInvInit == Init => ReadInv
  BY BusInvInit, WrittenInit DEF ReadInv

LEMMA ReadInvStep == ReadInv /\ [Next]_vars => ReadInv'
  BY BusInvStep, WrittenTypedStep, PutsAreNewStep, KeptIsWrittenStep DEF ReadInv, BusInv

\* The worker that reads for a run is the one that executes it.
LEMMA ReaderIs ==
    ASSUME OneHolder, NEW w \in Workers, NEW r \in Runs, Executes(w, r)
    PROVE  (CHOOSE v \in Workers : cur[v] = r /\ pc[v] \in {"run", "written"}) = w
  <1>1. \A v \in Workers : cur[v] = r /\ pc[v] \in {"run", "written"} => v = w
    BY DEF Executes, OneHolder, Holds
  <1> QED BY <1>1 DEF Executes

\* What a run reads, by cases.
LEMMA ReadsAre ==
    ASSUME OneHolder, NEW r \in Runs, NEW k \in Keys
    PROVE  /\ Reads[r][k] # 0 => written[r][k] # {} /\ \E w \in Workers : Executes(w, r)
           /\ \A w \in Workers : Executes(w, r) /\ written[r][k] # {} => Reads[r][k] = Get(w, k)
  <1> DEFINE reader == CHOOSE v \in Workers : cur[v] = r /\ pc[v] \in {"run", "written"}
             some == \E v \in Workers : cur[v] = r /\ pc[v] \in {"run", "written"}
  <1>1. Reads[r][k] = IF written[r][k] # {} /\ some THEN Get(reader, k) ELSE 0 BY DEF Reads
  <1>2. \A w \in Workers : Executes(w, r) => reader = w BY ReaderIs
  <1>3. some <=> \E w \in Workers : Executes(w, r) BY DEF Executes
  <1> HIDE DEF reader, some
  <1> QED BY <1>1, <1>2, <1>3

\* A run reads what it put under the key.
LEMMA ReadsWritten ==
    ASSUME ReadInv, NEW r \in Runs, NEW k \in Keys
    PROVE  Reads[r][k] \in written[r][k] \union {0}
  <1> SUFFICES ASSUME Reads[r][k] # 0 PROVE Reads[r][k] \in written[r][k] OBVIOUS
  <1>1. TypeOK /\ KnowsOwn /\ OneHolder /\ KeptIsWritten BY DEF ReadInv, BusInv
  <1>2. PICK w \in Workers : Executes(w, r) BY <1>1, ReadsAre
  <1>3. Reads[r][k] = Get(w, k) BY <1>1, <1>2, ReadsAre
  <1> DEFINE found == {y \in store : SamePointer(At(loc[w][k], k), y)}
  <1>4. loc[w][k] # None /\ found # {} /\ Get(w, k) = (CHOOSE y \in found : TRUE).table
    BY <1>3 DEF Get
  <1>5. PICK y \in found : Get(w, k) = y.table BY <1>4
  <1>6. y \in store /\ y.run = loc[w][k].run /\ y.key = k BY <1>5 DEF SamePointer, At
  <1>7. y.run = r BY <1>1, <1>2, <1>4, <1>6 DEF KnowsOwn, Executes
  <1>8. y \in Kept BY <1>1, <1>6 DEF Kept, TypeOK
  <1>9. y.table \in written[r][k] \/ Pending(r, k, y.table) BY <1>1, <1>2, <1>6, <1>7, <1>8 DEF KeptIsWritten
  <1>10. ASSUME Pending(r, k, y.table) PROVE FALSE
    <2>1. PICK v \in Workers : item[v] # None /\ item[v].run = r /\ item[v].key = k BY <1>10 DEF Pending
    <2>2. cur[v] = r /\ pc[v] = "written" /\ loc[v][k] = None BY <2>1, <1>1, ItemsTyped DEF KnowsOwn
    <2>3. v = w BY <2>2, <1>1, <1>2 DEF OneHolder, Holds, Executes
    <2> QED BY <2>2, <2>3, <1>4
  <1> QED BY <1>3, <1>5, <1>9, <1>10

\* Reading is a function, and its values are tables.
LEMMA ReadsTyped ==
    ASSUME ReadInv
    PROVE  Reads \in [Runs -> [Keys -> (1..MaxPuts) \union {0}]]
  <1> DEFINE reads(r, k) ==
        IF written[r][k] # {} /\ \E w \in Workers : cur[w] = r /\ pc[w] \in {"run", "written"}
        THEN Get(CHOOSE w \in Workers : cur[w] = r /\ pc[w] \in {"run", "written"}, k) ELSE 0
  <1>1. \A r \in Runs, k \in Keys : Reads[r][k] \in (1..MaxPuts) \union {0}
    BY ReadsWritten DEF ReadInv, WrittenTyped
  <1>2. Reads = [r \in Runs |-> [k \in Keys |-> reads(r, k)]] BY DEF Reads
  <1> HIDE DEF reads
  <1> QED BY <1>1, <1>2

\* The facts above, of this state and of the next one.
ReadFacts ==
    /\ Reads \in [Runs -> [Keys -> (1..MaxPuts) \union {0}]]
    /\ \A r \in Runs, k \in Keys :
         /\ Reads[r][k] \in written[r][k] \union {0}
         /\ Reads[r][k] # 0 => written[r][k] # {} /\ \E w \in Workers : Executes(w, r)
         /\ \A w \in Workers : Executes(w, r) /\ written[r][k] # {} => Reads[r][k] = Get(w, k)

LEMMA ReadFactsHold == ReadInv => ReadFacts
  <1>1. ReadInv => OneHolder BY DEF ReadInv, BusInv
  <1> QED BY <1>1, ReadsTyped, ReadsWritten, ReadsAre DEF ReadFacts

LEMMA ReadFactsHoldNext == ReadInv' => ReadFacts'
  BY ReadFactsHold, PTL

\* Tables that differ in one place only.
LEMMA OnePlace ==
    ASSUME NEW R, NEW K, NEW S, NEW f \in [R -> [K -> S]], NEW g \in [R -> [K -> S]],
           NEW r \in R, NEW k \in K,
           \A s \in R, j \in K : ~(s = r /\ j = k) => g[s][j] = f[s][j]
    PROVE  g = [f EXCEPT ![r][k] = g[r][k]]
  <1> DEFINE h == [f EXCEPT ![r][k] = g[r][k]]
  <1>1. h \in [R -> [K -> S]] OBVIOUS
  <1>2. \A s \in R, j \in K : g[s][j] = h[s][j] OBVIOUS
  <1>3. \A s \in R : g[s] \in [K -> S] /\ h[s] \in [K -> S] BY <1>1
  <1> HIDE DEF h
  <1>4. \A s \in R : g[s] = h[s] BY <1>2, <1>3
  <1>5. g = h BY <1>1, <1>4
  <1> QED BY <1>5 DEF h

LEMMA InitReads == Init => Abstract!Init
  <1> SUFFICES ASSUME Init PROVE Abstract!Init OBVIOUS
  <1>1. \A r \in Runs, k \in Keys : written[r][k] = {} BY DEF Init
  <1>2. Reads = [r \in Runs |-> [k \in Keys |-> 0]] BY <1>1 DEF Reads
  <1> QED BY <1>2 DEF Init, Abstract!Init

\* What a put changes of what is read.
LEMMA PutReads ==
    ASSUME ReadInv, ReadInv', NEW w \in Workers, PutRecord(w)
    PROVE  Abstract!Put(item[w].run, item[w].key, item[w].table)
  <1> DEFINE i == item[w]
  <1>1. TypeOK /\ KnowsOwn /\ PutsAreNew /\ ReadFacts /\ ReadFacts'
    BY ReadFactsHold, ReadFactsHoldNext DEF ReadInv, BusInv
  <1>2. i \in Payload /\ i # None BY <1>1 DEF PutRecord, TypeOK
  <1>3. i.run \in Runs /\ i.key \in Keys BY <1>2 DEF Payload
  <1>4. \A s \in Runs, j \in Keys : i.table \notin written[s][j] BY <1>1, <1>2 DEF PutsAreNew
  <1>5. written' = [written EXCEPT ![i.run][i.key] = @ \union {i.table}] BY DEF PutRecord
  <1>6. Reads'[i.run][i.key] \in written'[i.run][i.key] \union {0} BY <1>1, <1>3 DEF ReadFacts
  <1>7. \A v \in Workers : \A s : Executes(v, s)' <=> Executes(v, s)
    BY <1>1 DEF PutRecord, Goto, TypeOK, Executes
  <1>8. ASSUME NEW s \in Runs, NEW j \in Keys, ~(s = i.run /\ j = i.key)
        PROVE  Reads'[s][j] = Reads[s][j]
    <2>1. written'[s][j] = written[s][j] BY <1>3, <1>5, <1>8 DEF ReadInv, WrittenTyped
    <2>2. CASE written[s][j] = {} \/ ~\E v \in Workers : Executes(v, s)
      BY <2>1, <2>2, <1>1, <1>7 DEF ReadFacts
    <2>3. CASE written[s][j] # {} /\ \E v \in Workers : Executes(v, s)
      <3>1. PICK v \in Workers : Executes(v, s) BY <2>3
      <3>2. Reads[s][j] = Get(v, j) BY <3>1, <2>3, <1>1 DEF ReadFacts
      <3>3. Reads'[s][j] = Get(v, j)' BY <3>1, <2>1, <2>3, <1>1, <1>7 DEF ReadFacts
      <3>4. ~(v = w /\ j = i.key) BY <3>1, <1>1, <1>2, <1>8 DEF Executes, KnowsOwn
      <3>5. loc'[v][j] = loc[v][j] BY <3>4, <1>1, <1>3 DEF PutRecord, TypeOK
      <3>6. store' = store BY DEF PutRecord
      <3>7. Get(v, j)' = Get(v, j) BY <3>5, <3>6 DEF Get
      <3> QED BY <3>2, <3>3, <3>7
    <2> QED BY <2>2, <2>3
  <1>9. Reads \in [Runs -> [Keys -> (1..MaxPuts) \union {0}]] /\ Reads' \in [Runs -> [Keys -> (1..MaxPuts) \union {0}]]
    BY <1>1 DEF ReadFacts
  <1> HIDE DEF i
  <1>10. Reads' = [Reads EXCEPT ![i.run][i.key] = Reads'[i.run][i.key]]
    BY <1>3, <1>8, <1>9, OnePlace
  <1> QED BY <1>4, <1>5, <1>6, <1>10 DEF Abstract!Put, i

LEMMA OtherReads ==
    ASSUME ReadInv, ReadInv', UNCHANGED written
    PROVE  Abstract!Shift
  BY ReadFactsHoldNext DEF ReadFacts, Abstract!Shift

LEMMA NextReads == ReadInv /\ ReadInv' /\ [Next]_vars => [Abstract!Next]_(Abstract!vars)
  <1> SUFFICES ASSUME ReadInv, ReadInv', [Next]_vars PROVE Abstract!Next OBVIOUS
  <1>1. ASSUME NEW w \in Workers, PutRecord(w) PROVE Abstract!Next
    <2>1. item[w] \in Payload BY <1>1 DEF PutRecord, ReadInv, BusInv, TypeOK
    <2>2. item[w].run \in Runs /\ item[w].key \in Keys /\ item[w].table \in 1..MaxPuts BY <2>1 DEF Payload
    <2> QED BY <1>1, <2>2, PutReads DEF Abstract!Next
  <1>2. (\A w \in Workers : ~PutRecord(w)) => UNCHANGED written
    BY DEF Next, Begin, Redelivered, PutWrite, RunEnds, Crash, Cleanup, EvictRead, EvictWrite,
           EvictRecord, Expire, vars
  <1> QED BY <1>1, <1>2, OtherReads DEF Abstract!Next

\* The bus implements TableStore: while a run is executed, a get under a key
\* it has put returns a table that the run itself put there, or none (put and
\* get against eviction, expiry, clean-ups and the loss of processes).
THEOREM BusImplementsTableStore == Spec => ReadsOwnTables
  BY InitReads, NextReads, ReadInvInit, ReadInvStep, PTL DEF Spec, ReadsOwnTables, Abstract!Spec
=============================================================================
