--------------------------- MODULE ColumnPolicies ---------------------------
(***************************************************************************)
(* The column policies of one file (routers/column_policies.py) and their  *)
(* Redis cache (security/column_security.py).  Readers, the file preview   *)
(* and the load step, look in the cache, then in the database, then fill   *)
(* the cache for 60 seconds; writers commit and then invalidate.           *)
(***************************************************************************)
EXTENDS Naturals, FiniteSets

CONSTANTS
  Readers, Writers,
  Columns,       \* column names
  Kinds,         \* the policies: redacted, masked
  MaxChanges,    \* bound: policies created, updated or deleted
  None

VARIABLES
  policies,   \* the rows: column to kind, None for no row
  cache,      \* the cached rows, or None
  reader,     \* [pc, seen]: what each reader has read
  writer,     \* is the writer about to invalidate?
  changes

vars == <<policies, cache, reader, writer, changes>>

Rows == [Columns -> Kinds \cup {None}]
Idle == [pc |-> "idle", seen |-> None]

Init ==
  /\ policies = [c \in Columns |-> None] /\ cache = None
  /\ reader = [r \in Readers |-> Idle] /\ writer = [w \in Writers |-> "idle"] /\ changes = 0

\* A commit of a writer; the unique constraint keeps one row per column.
Commits(w, rows) ==
  /\ writer[w] = "idle" /\ changes < MaxChanges
  /\ policies' = rows /\ changes' = changes + 1
  /\ writer' = [writer EXCEPT ![w] = "committed"]
  /\ UNCHANGED <<cache, reader>>

CreateColumnPolicy(w, c, kind) == Commits(w, [policies EXCEPT ![c] = kind])

DeleteColumnPolicy(w, c) == policies[c] # None /\ Commits(w, [policies EXCEPT ![c] = None])

\* An error of Redis is ignored.
InvalidatePolicyCache(w) ==
  /\ writer[w] = "committed" /\ writer' = [writer EXCEPT ![w] = "idle"]
  /\ cache' \in {None, cache}
  /\ UNCHANGED <<policies, reader, changes>>

\* The policies as a list endpoint shows them: always from the database.
list_file_policies == {c \in Columns : policies[c] # None}

\* get_column_policies_for_file: a hit ends the read, an error of Redis is a
\* miss, and a miss reads the rows ...
CacheHit(r) ==
  /\ reader[r].pc = "idle" /\ cache # None
  /\ reader' = [reader EXCEPT ![r] = [pc |-> "read", seen |-> cache]]
  /\ UNCHANGED <<policies, cache, writer, changes>>

CacheMiss(r) ==
  /\ reader[r].pc = "idle"
  /\ reader' = [reader EXCEPT ![r] = [pc |-> "fill", seen |-> policies]]
  /\ UNCHANGED <<policies, cache, writer, changes>>

\* ... and fills the cache, over an invalidation that came in between.
CacheFill(r) ==
  /\ reader[r].pc = "fill"
  /\ cache' \in {reader[r].seen, cache}
  /\ reader' = [reader EXCEPT ![r].pc = "read"]
  /\ UNCHANGED <<policies, writer, changes>>

ReaderEnds(r) ==
  /\ reader[r].pc = "read" /\ reader' = [reader EXCEPT ![r] = Idle]
  /\ UNCHANGED <<policies, cache, writer, changes>>

\* Mutant: set instead of setex.
NeverExpires == FALSE /\ UNCHANGED vars

CacheExpires ==
  /\ cache # None /\ cache' = None
  /\ UNCHANGED <<policies, reader, writer, changes>>

Next ==
  \/ \E w \in Writers : \/ InvalidatePolicyCache(w)
                        \/ \E c \in Columns : \/ DeleteColumnPolicy(w, c)
                                              \/ \E k \in Kinds : CreateColumnPolicy(w, c, k)
  \/ \E r \in Readers : CacheHit(r) \/ CacheMiss(r) \/ CacheFill(r) \/ ReaderEnds(r)
  \/ CacheExpires

\* Requests end, and Redis drops keys after their time to live.
Fairness ==
  /\ \A r \in Readers : WF_vars(CacheFill(r)) /\ WF_vars(ReaderEnds(r))
  /\ \A w \in Writers : WF_vars(InvalidatePolicyCache(w))
  /\ SF_vars(CacheExpires)

Spec == Init /\ [][Next]_vars /\ Fairness

-----------------------------------------------------------------------------
\* Once policies are no longer changed, every reader is eventually served the
\* rows of the database, although a reader that was overtaken by a change may
\* have filled the cache with the old rows after the invalidation.
PoliciesSettle ==
  <>[](/\ cache \in {None, policies}
       /\ \A r \in Readers : reader[r].pc = "read" => reader[r].seen = policies)
=============================================================================
