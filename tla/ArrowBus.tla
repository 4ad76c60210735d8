------------------------------ MODULE ArrowBus ------------------------------
(***************************************************************************)
(* The Arrow data bus: tables between the steps of a run, kept in one of   *)
(* three tiers, "redis" (hot), "shm" (warm) or "spill" (cold).             *)
(*                                                                         *)
(* Every process has a bus of its own, with the locations it knows, and    *)
(* writes them to a manifest in Redis as well.  Worker processes execute   *)
(* runs: they put tables and clean up at the end.  Other processes (those  *)
(* of maintain_storage, and the API at /evict) demote tables from Redis to *)
(* shared memory when Redis is nearly full; nothing reads the locations    *)
(* they keep.  A Redis key and a file in shared memory are named after run *)
(* and key, a spilled object has a name of its own.  Tables are numbered   *)
(* as they are put.  Redis is reachable except where a put falls through   *)
(* to the next tier.                                                       *)
(***************************************************************************)
EXTENDS Naturals, FiniteSets

CONSTANTS
    Runs, Keys,
    Workers,    \* processes of the queue of pipeline runs
    Evictors,   \* processes that may evict
    MaxPuts,    \* bound on the tables put
    MaxFaults,  \* bound on processes lost and tasks delivered again without need
    None        \* no location, run or payload

VARIABLES
    store,     \* the payloads: tables with their tier, run and key
    loc,       \* per worker and key: _locations
    manifest,  \* per run and key: the location in the run's manifest
    pc,        \* per process: what it does next
    cur,       \* per worker: the run it executes or cleans up
    item,      \* per process: the payload being put or evicted
    puts,      \* tables put so far
    written,   \* history, per run and key: the tables put there
    life,      \* history, per run: new, begun, or cleaned (with nobody else at work on it)
    torn,      \* history: tables that were at some time known to no process and no manifest
    demoted,   \* history: tables written to shared memory by an eviction
    faults

busVars == <<store, loc, manifest>>
vars == <<busVars, pc, cur, item, puts, written, life, torn, demoted, faults>>

Tiers    == {"redis", "shm", "spill"}
Payload  == [tier : Tiers, run : Runs, key : Keys, table : 1..MaxPuts]
Location == [tier : Tiers, run : Runs, table : 1..MaxPuts]

ASSUME ArrowBusAssumption ==
    /\ MaxPuts \in Nat /\ MaxFaults \in Nat
    /\ Workers \intersect Evictors = {}
    /\ None \notin Runs \union Payload \union Location

\* The types of the state.
TypeOK ==
    /\ store \subseteq Payload
    /\ loc \in [Workers -> [Keys -> Location \union {None}]]
    /\ manifest \in [Runs -> [Keys -> Location \union {None}]]
    /\ pc \in [Workers \union Evictors -> {"idle", "run", "written", "clean", "read", "copied"}]
    /\ cur \in [Workers -> Runs \union {None}]
    /\ item \in [Workers \union Evictors -> Payload \union {None}]
    /\ \A w \in Workers : pc[w] = "idle" <=> cur[w] = None
    /\ \A p \in Workers \union Evictors : pc[p] \in {"written", "read", "copied"} <=> item[p] # None
    /\ life \in [Runs -> {"new", "begun", "cleaned"}]
    /\ puts \in 0..MaxPuts /\ faults \in 0..MaxFaults

Init ==
    /\ store = {}
    /\ loc = [w \in Workers |-> [k \in Keys |-> None]]
    /\ manifest = [r \in Runs |-> [k \in Keys |-> None]]
    /\ pc = [p \in Workers \union Evictors |-> "idle"]
    /\ cur = [w \in Workers |-> None]
    /\ item = [p \in Workers \union Evictors |-> None]
    /\ written = [r \in Runs |-> [k \in Keys |-> {}]]
    /\ life = [r \in Runs |-> "new"]
    /\ puts = 0 /\ torn = {} /\ demoted = {} /\ faults = 0

SamePathForAllRuns(x, y) == x.tier = y.tier /\ x.key = y.key /\ (x.tier = "spill" => x.table = y.table)
\* Two payloads with the same Redis key, file or object name.
SamePointer(x, y) ==
    /\ x.tier = y.tier /\ x.run = y.run /\ x.key = y.key
    /\ x.tier = "spill" => x.table = y.table

At(l, k) == [tier |-> l.tier, run |-> l.run, key |-> k, table |-> l.table]
LocOf(x) == [tier |-> x.tier, run |-> x.run, table |-> x.table]

\* Writing to a pointer replaces what it names; _delete_location_payload
\* removes it.
Removed(s, x) == {y \in s : ~SamePointer(x, y)}
Stored(s, x)  == Removed(s, x) \union {x}

\* What get returns: the table the known location leads to, 0 for a KeyError.
Get(p, k) ==
    LET found == {y \in store : SamePointer(At(loc[p][k], k), y)}
    IN IF loc[p][k] = None \/ found = {} THEN 0 ELSE (CHOOSE y \in found : TRUE).table

-----------------------------------------------------------------------------
Goto(p, l) == pc' = [pc EXCEPT ![p] = l]
Done(p) == Goto(p, "idle") /\ item' = [item EXCEPT ![p] = None]

\* A worker process starts to execute a run.
Begin(w, r) ==
    /\ pc[w] = "idle" /\ life[r] = "new"
    /\ life' = [life EXCEPT ![r] = "begun"]
    /\ Goto(w, "run") /\ cur' = [cur EXCEPT ![w] = r]
    /\ UNCHANGED <<busVars, item, puts, written, torn, demoted, faults>>

\* A second delivery of a run's task, after its process was lost or before:
\* _should_execute says no, and the clean-up in the finally block is done all
\* the same.
Redelivered(w, r) ==
    /\ pc[w] = "idle"
    /\ \/ life[r] = "begun" /\ (\A x \in Workers : cur[x] # r) /\ UNCHANGED faults
       \/ life[r] # "new" /\ faults < MaxFaults /\ faults' = faults + 1
    /\ Goto(w, "clean") /\ cur' = [cur EXCEPT ![w] = r]
    /\ UNCHANGED <<busVars, item, puts, written, life, torn, demoted>>

\* delete(key): the location is forgotten, its payload and its manifest entry
\* removed.  Yields the store and the manifest that are left.
Deleted(w, ks) ==
    LET known == {k \in ks : loc[w][k] # None}
    IN [store |-> {y \in store : \A k \in known : ~SamePointer(At(loc[w][k], k), y)},
        manifest |-> [r \in Runs |-> [k \in Keys |->
                        IF k \in known /\ loc[w][k].run = r THEN None ELSE manifest[r][k]]]]

\* put: delete, then the payload is written.  The tier follows the size and
\* falls through when Redis or shared memory fails; then the location is
\* recorded, in the process and in the manifest.
PutWrite(w, k, t) ==
    /\ pc[w] = "run" /\ puts < MaxPuts /\ puts' = puts + 1
    /\ LET x == [tier |-> t, run |-> cur[w], key |-> k, table |-> puts']
       IN /\ store' = Stored(Deleted(w, {k}).store, x)
          /\ item' = [item EXCEPT ![w] = x]
    /\ manifest' = Deleted(w, {k}).manifest
    /\ loc' = [loc EXCEPT ![w][k] = None]
    /\ Goto(w, "written")
    /\ UNCHANGED <<cur, written, life, torn, demoted, faults>>

PutRecord(w) ==
    /\ pc[w] = "written"
    /\ LET x == item[w]
       IN /\ loc' = [loc EXCEPT ![w][x.key] = LocOf(x)]
          /\ manifest' = [manifest EXCEPT ![x.run][x.key] = LocOf(x)]
          /\ written' = [written EXCEPT ![x.run][x.key] = @ \union {x.table}]
    /\ Goto(w, "run") /\ item' = [item EXCEPT ![w] = None]
    /\ UNCHANGED <<store, cur, puts, life, torn, demoted, faults>>

\* The run ends.
RunEnds(w) ==
    /\ pc[w] = "run" /\ Goto(w, "clean")
    /\ UNCHANGED <<busVars, cur, item, puts, written, life, torn, demoted, faults>>

\* Tables no process and no manifest leads to.
Unknown ==
    {x.table : x \in {y \in store :
        /\ \A w \in Workers : item[w] # y /\ loc[w][y.key] # LocOf(y)
        /\ manifest[y.run][y.key] # LocOf(y)}}

\* The process is lost, and with it what it knew.
Crash(w) ==
    /\ pc[w] # "idle" /\ faults < MaxFaults /\ faults' = faults + 1
    /\ loc' = [loc EXCEPT ![w] = [k \in Keys |-> None]]
    /\ cur' = [cur EXCEPT ![w] = None]
    /\ Done(w)
    /\ UNCHANGED <<store, manifest, puts, written, life, demoted>>
    /\ torn' = torn \union Unknown'

ForgetManifest(w, r) == {}
\* The part of cleanup_run that follows the run's manifest, for tables put by
\* other processes or by this one before it was lost.
ManifestKeys(w, r) ==
    {k \in Keys : manifest[r][k] # None /\ (loc[w][k] = None \/ loc[w][k].run # r)}

\* cleanup_run: the tables this process knows, those in the manifest, and the
\* run's files in shared memory; then the manifest is cleared.  (The glob for
\* spilled files looks in the directory above the one they are in.)
Cleanup(w) ==
    /\ pc[w] = "clean"
    /\ LET r == cur[w]
           mine == {k \in Keys : loc[w][k] # None /\ loc[w][k].run = r}
       IN /\ store' = {y \in Deleted(w, mine).store :
                         /\ \A k \in ManifestKeys(w, r) : ~SamePointer(At(manifest[r][k], k), y)
                         /\ ~(y.tier = "shm" /\ y.run = r)}
          /\ manifest' = [manifest EXCEPT ![r] = [k \in Keys |-> None]]
          /\ loc' = [loc EXCEPT ![w] = [k \in Keys |-> IF k \in mine THEN None ELSE loc[w][k]]]
          /\ life' = IF \E x \in Workers \ {w} : cur[x] = r THEN life
                     ELSE [life EXCEPT ![r] = "cleaned"]
    /\ cur' = [cur EXCEPT ![w] = None]
    /\ Done(w)
    /\ UNCHANGED <<puts, written, torn, demoted, faults>>

-----------------------------------------------------------------------------
\* maybe_evict_hot_to_warm, for one table: it is read from Redis, written to
\* shared memory, recorded there, and the Redis key is deleted.
EvictRead(e) ==
    /\ pc[e] = "idle"
    /\ \E x \in store : x.tier = "redis" /\ item' = [item EXCEPT ![e] = x]
    /\ Goto(e, "read")
    /\ UNCHANGED <<busVars, cur, puts, written, life, torn, demoted, faults>>

EvictWrite(e) ==
    /\ pc[e] = "read"
    /\ store' = Stored(store, [item[e] EXCEPT !.tier = "shm"])
    /\ demoted' = demoted \union {item[e].table}
    /\ Goto(e, "copied")
    /\ UNCHANGED <<loc, manifest, cur, item, puts, written, life, torn, faults>>

EvictRecord(e) ==
    /\ pc[e] = "copied"
    /\ LET x == item[e]
       IN /\ manifest' = [manifest EXCEPT ![x.run][x.key] = LocOf([x EXCEPT !.tier = "shm"])]
          /\ store' = Removed(store, x)
    /\ Done(e)
    /\ UNCHANGED <<loc, cur, puts, written, life, demoted, faults>>
    /\ torn' = torn \union Unknown'

\* A Redis key reaches its TTL, or cleanup_stale (hourly at a worker's end,
\* daily otherwise) finds a file old enough.
Expire ==
    /\ \E x \in store : x.tier \in {"redis", "shm"} /\ store' = store \ {x}
    /\ UNCHANGED <<loc, manifest, pc, cur, item, puts, written, life, torn, demoted, faults>>

Next ==
    \/ \E w \in Workers :
          \/ PutRecord(w) \/ RunEnds(w) \/ Crash(w) \/ Cleanup(w)
          \/ \E r \in Runs : Begin(w, r) \/ Redelivered(w, r)
          \/ \E k \in Keys, t \in Tiers : PutWrite(w, k, t)
    \/ \E e \in Evictors : EvictRead(e) \/ EvictWrite(e) \/ EvictRecord(e)
    \/ Expire

Spec == Init /\ [][Next]_vars

-----------------------------------------------------------------------------
(* Properties. *)

\* The bus implements TableStore.  What a run reads is asked of the worker
\* that executes it, under keys it has put.
Reads == [r \in Runs |-> [k \in Keys |->
            IF written[r][k] # {} /\ \E w \in Workers : cur[w] = r /\ pc[w] \in {"run", "written"}
            THEN Get(CHOOSE w \in Workers : cur[w] = r /\ pc[w] \in {"run", "written"}, k) ELSE 0]]
Abstract == INSTANCE TableStore WITH val <- Reads, Tables <- 1..MaxPuts
ReadsOwnTables == Abstract!Spec

\* Once a run has been cleaned up, nothing of it is left but what no process
\* and no manifest led to any more (its process was lost before it recorded
\* the table, or an eviction had replaced the entry), and what an eviction
\* overtaken by the clean-up wrote to shared memory.
NothingLeft ==
    \A x \in store :
        life[x.run] = "cleaned" => x.table \in torn \/ (x.tier = "shm" /\ x.table \in demoted)

\* "All three tiers are purged on run completion."
PurgedOnCompletion ==
    \A x \in store : life[x.run] = "cleaned" => \E w \in Workers : cur[w] = x.run
=============================================================================
