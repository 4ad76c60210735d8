-------------------------- MODULE WorkspaceProofs --------------------------
(***************************************************************************)
(* Proofs about Accounts, Versions and Sharing, for any number of users,   *)
(* requests, savers and clients, and any bounds.                           *)
(***************************************************************************)
EXTENDS Workspace, FiniteSetTheorems, TLAPS

\* The instances count as this module does.
LEMMA SameCardinality ==
    \A T : A!Cardinality(T) = Cardinality(T) /\ V!Cardinality(T) = Cardinality(T)
  BY DEF A!Cardinality, V!Cardinality, Cardinality

-----------------------------------------------------------------------------
(***************************************************************************)
(* Accounts.  The administrator is decided when the lock is taken and      *)
(* inserted when the hash is there.  FirstInv adds what the lock keeps     *)
(* true in between: one request at most is past its LOCK TABLE, its user   *)
(* is not registered, and it makes an administrator just when nobody is.   *)
(***************************************************************************)
AccountTypes ==
    /\ role \in [Users -> A!Roles \union {"absent"}]
    /\ born \in [Users -> A!Roles \union {"absent"}]
    /\ req \in [Requests -> [pc : {"idle", "locking", "hashing", "updating"} \union A!Ended,
                             user : Users \union {NoUser}, role : A!Roles \union {"absent"}]]

LockHeld ==
    \A c \in Requests : req[c].pc = "hashing" =>
        /\ lock = c
        /\ req[c].user \in Users /\ req[c].user \notin A!Registered
        /\ req[c].role = IF A!Registered = {} THEN "admin" ELSE "viewer"

Waits ==
    \A c \in Requests :
        /\ req[c].pc = "locking" => req[c].user \in Users
        /\ req[c].pc = "updating" => req[c].user \in A!Registered /\ req[c].role \in A!Roles

FirstIsAdmin ==
    /\ \A u \in Users : role[u] = "absent" <=> born[u] = "absent"
    /\ \A u, v \in Users : born[u] = "admin" /\ born[v] = "admin" => u = v
    /\ A!Registered # {} => \E u \in Users : born[u] = "admin"

FirstInv == AccountTypes /\ LockHeld /\ Waits /\ FirstIsAdmin

LEMMA FirstInvInit == A!Init => FirstInv
  <1> SUFFICES ASSUME A!Init PROVE FirstInv OBVIOUS
  <1>1. A!Registered = {} BY DEF A!Init, A!Registered
  <1>2. AccountTypes BY DEF A!Init, A!Idle, A!Ended, AccountTypes
  <1>3. \A c \in Requests : req[c].pc = "idle" BY DEF A!Init, A!Idle
  <1> QED BY <1>1, <1>2, <1>3 DEF A!Init, FirstInv, LockHeld, Waits, FirstIsAdmin

\* With the lock free nobody is hashing, so that Locked may begin to.
LEMMA LockedStep ==
    ASSUME FirstInv, NEW c \in Requests, NEW u \in Users, lock = NoRequest,
           A!Locked(c, u), UNCHANGED <<role, born>>
    PROVE  FirstInv'
  <1>1. A!Registered' = A!Registered BY DEF A!Registered
  <1>2. \A d \in Requests : req[d].pc # "hashing"
    BY WorkspaceAssumption DEF FirstInv, LockHeld
  <1>3. CASE u \in A!Registered
    <2>1. req' = [req EXCEPT ![c] = [@ EXCEPT !.pc = "refused", !.user = u]] BY <1>3 DEF A!Locked
    <2>2. AccountTypes' BY <2>1 DEF FirstInv, AccountTypes, A!Ended
    <2>3. req'[c].pc = "refused" /\ \A d \in Requests : d # c => req'[d] = req[d]
      BY <2>1 DEF FirstInv, AccountTypes
    <2> QED BY <1>1, <1>2, <2>2, <2>3 DEF FirstInv, LockHeld, Waits, FirstIsAdmin
  <1>4. CASE u \notin A!Registered
    <2> DEFINE x == [pc |-> "hashing", user |-> u, role |-> IF A!Registered = {} THEN "admin" ELSE "viewer"]
    <2>1. req' = [req EXCEPT ![c] = x] /\ lock' = c BY <1>4 DEF A!Locked
    <2>2. AccountTypes' BY <2>1 DEF FirstInv, AccountTypes, A!Roles
    <2>3. req'[c] = x /\ \A d \in Requests : d # c => req'[d] = req[d]
      BY <2>1 DEF FirstInv, AccountTypes
    <2> QED BY <1>1, <1>2, <1>4, <2>1, <2>2, <2>3 DEF FirstInv, LockHeld, Waits, FirstIsAdmin
  <1> QED BY <1>3, <1>4

\* A change of role leaves the set of registered users as it is.
LEMMA SetRoleStep ==
    ASSUME FirstInv, NEW c \in Requests, req[c].pc # "hashing", NEW u \in A!Registered, NEW r \in A!Roles,
           A!SetRole(c, u, r), UNCHANGED <<born, lock>>
    PROVE  FirstInv'
  <1>1. u \in Users /\ role[u] # "absent" /\ r # "absent" BY DEF A!Registered, A!Roles
  <1>2. role' \in [Users -> A!Roles \union {"absent"}]
        /\ \A v \in Users : role'[v] = "absent" <=> role[v] = "absent"
    BY <1>1 DEF A!SetRole, FirstInv, AccountTypes
  <1>3. A!Registered' = A!Registered BY <1>2 DEF A!Registered
  <1>4. PICK p \in {"done", "updating"} : req' = [req EXCEPT ![c] = [pc |-> p, user |-> u, role |-> r]]
    BY DEF A!SetRole
  <1>5. req'[c] = [pc |-> p, user |-> u, role |-> r] /\ \A d \in Requests : d # c => req'[d] = req[d]
    BY <1>4 DEF FirstInv, AccountTypes
  <1>6. AccountTypes' BY <1>1, <1>2, <1>4 DEF FirstInv, AccountTypes, A!Ended
  <1> QED BY <1>2, <1>3, <1>5, <1>6 DEF FirstInv, LockHeld, Waits, FirstIsAdmin

LEMMA HashStep ==
    ASSUME FirstInv, NEW c \in Requests, A!HashPassword(c)
    PROVE  FirstInv'
  <1>1. req[c].pc = "hashing" BY DEF A!HashPassword
  <1> DEFINE u == req[c].user
  <1>2. lock = c /\ u \in Users /\ u \notin A!Registered
        /\ req[c].role = IF A!Registered = {} THEN "admin" ELSE "viewer"
    BY <1>1 DEF FirstInv, LockHeld
  <1>3. \A d \in Requests : d # c => req[d].pc # "hashing" BY <1>2 DEF FirstInv, LockHeld
  <1>4. CASE /\ role' = [role EXCEPT ![u] = req[c].role]
             /\ born' = [born EXCEPT ![u] = req[c].role]
             /\ req' = [req EXCEPT ![c].pc = "done"]
    <2>1. AccountTypes' BY <1>2, <1>4 DEF FirstInv, AccountTypes, A!Ended, A!Roles
    <2>2. req'[c].pc = "done" /\ \A d \in Requests : d # c => req'[d] = req[d]
      BY <1>4 DEF FirstInv, AccountTypes
    <2>3. role'[u] = req[c].role /\ born'[u] = req[c].role
          /\ \A v \in Users : v # u => role'[v] = role[v] /\ born'[v] = born[v]
      BY <1>2, <1>4 DEF FirstInv, AccountTypes
    <2>4. A!Registered' = A!Registered \union {u} BY <1>2, <2>3 DEF A!Registered
    <2>5. LockHeld' /\ Waits' BY <1>3, <2>2, <2>4 DEF FirstInv, LockHeld, Waits
    <2>6. A!Registered = {} => \A v \in Users : born[v] = "absent"
      BY DEF A!Registered, FirstInv, FirstIsAdmin
    <2>7. FirstIsAdmin /\ A!Registered \subseteq Users BY DEF FirstInv, A!Registered
    <2>8. ASSUME A!Registered = {} PROVE FirstIsAdmin'
      <3>1. \A v \in Users : v # u => born'[v] = "absent" BY <2>3, <2>6, <2>8
      <3>2. born'[u] = "admin" /\ role'[u] = "admin" BY <1>2, <2>3, <2>8
      <3>3. \A v \in Users : v # u => (role'[v] = "absent" <=> born'[v] = "absent") BY <2>3, <2>7 DEF FirstIsAdmin
      <3> HIDE DEF u
      <3> QED BY <1>2, <3>1, <3>2, <3>3 DEF FirstIsAdmin
    <2>9. ASSUME A!Registered # {} PROVE FirstIsAdmin'
      <3>1. born'[u] = "viewer" /\ role'[u] = "viewer" BY <1>2, <2>3, <2>9
      <3>2. PICK v \in Users : born[v] = "admin" BY <2>7, <2>9 DEF FirstIsAdmin
      <3>3. v # u BY <1>2, <2>7, <3>2 DEF FirstIsAdmin, A!Registered
      <3> HIDE DEF u
      <3> QED BY <1>2, <2>3, <2>7, <3>1, <3>2, <3>3 DEF FirstIsAdmin
    <2>10. FirstIsAdmin' BY <2>8, <2>9
    <2> QED BY <2>1, <2>5, <2>10 DEF FirstInv
  <1>5. CASE req' = [req EXCEPT ![c].pc = "failed"] /\ UNCHANGED <<role, born>>
    <2>1. AccountTypes' BY <1>5 DEF FirstInv, AccountTypes, A!Ended
    <2>2. req'[c].pc = "failed" /\ \A d \in Requests : d # c => req'[d] = req[d]
      BY <1>5 DEF FirstInv, AccountTypes
    <2>3. A!Registered' = A!Registered BY <1>5 DEF A!Registered
    <2> QED BY <1>3, <1>5, <2>1, <2>2, <2>3 DEF FirstInv, LockHeld, Waits, FirstIsAdmin
  <1> QED BY <1>4, <1>5 DEF A!HashPassword

LEMMA FirstInvStep == FirstInv /\ [A!Next]_(A!vars) => FirstInv'
  <1> SUFFICES ASSUME FirstInv, [A!Next]_(A!vars) PROVE FirstInv' OBVIOUS
  <1>0. ASSUME UNCHANGED <<role, born, lock, req>> PROVE FirstInv'
    <2>1. A!Registered' = A!Registered BY <1>0 DEF A!Registered
    <2> QED BY <1>0, <2>1 DEF FirstInv, AccountTypes, LockHeld, Waits, FirstIsAdmin
  <1>1. ASSUME NEW c \in Requests, NEW u \in Users, A!Register(c, u) PROVE FirstInv'
    <2>1. CASE lock = NoRequest BY <1>1, <2>1, LockedStep DEF A!Register, A!LockTable
    <2>2. CASE lock # NoRequest
      <3>1. req' = [req EXCEPT ![c] = [@ EXCEPT !.pc = "locking", !.user = u]] /\ UNCHANGED <<lock, role, born>>
        BY <1>1, <2>2 DEF A!Register, A!LockTable
      <3>2. AccountTypes' BY <3>1 DEF FirstInv, AccountTypes
      <3>3. req'[c].pc = "locking" /\ req'[c].user = u /\ \A d \in Requests : d # c => req'[d] = req[d]
        BY <3>1 DEF FirstInv, AccountTypes
      <3>4. A!Registered' = A!Registered BY <3>1 DEF A!Registered
      <3> QED BY <3>1, <3>2, <3>3, <3>4 DEF FirstInv, LockHeld, Waits, FirstIsAdmin
    <2> QED BY <2>1, <2>2
  <1>2. ASSUME NEW c \in Requests, A!LockGranted(c) PROVE FirstInv'
    <2>1. req[c].user \in Users BY <1>2 DEF A!LockGranted, FirstInv, Waits
    <2> QED BY <1>2, <2>1, LockedStep DEF A!LockGranted
  <1>3. ASSUME NEW c \in Requests, A!HashPassword(c) PROVE FirstInv' BY <1>3, HashStep
  <1>4. ASSUME NEW c \in Requests, A!StatementTimesOut(c) PROVE FirstInv'
    <2>1. req' = [req EXCEPT ![c].pc = "failed"] /\ UNCHANGED <<lock, role, born>>
      BY <1>4 DEF A!StatementTimesOut
    <2>2. AccountTypes' BY <2>1 DEF FirstInv, AccountTypes, A!Ended
    <2>3. req'[c].pc = "failed" /\ \A d \in Requests : d # c => req'[d] = req[d]
      BY <2>1 DEF FirstInv, AccountTypes
    <2>4. A!Registered' = A!Registered BY <2>1 DEF A!Registered
    <2> QED BY <2>1, <2>2, <2>3, <2>4 DEF FirstInv, LockHeld, Waits, FirstIsAdmin
  <1>5. ASSUME NEW c \in Requests, NEW t \in Tokens, NEW u \in Users, NEW r \in A!Roles,
               A!UpdateUserRole(c, t, u, r)
        PROVE  FirstInv'
    BY <1>5, SetRoleStep DEF A!UpdateUserRole
  <1>6. ASSUME NEW c \in Requests, A!RoleUpdateGranted(c) PROVE FirstInv'
    <2>1. req[c].user \in A!Registered /\ req[c].role \in A!Roles
      BY <1>6 DEF A!RoleUpdateGranted, FirstInv, Waits
    <2> QED BY <1>6, <2>1, SetRoleStep DEF A!RoleUpdateGranted
  <1>7. ASSUME NEW w \in Workers, A!PoolBreaks(w) PROVE FirstInv' BY <1>0, <1>7 DEF A!PoolBreaks
  <1>8. ASSUME NEW w \in Workers, NEW t \in Tokens, NEW u \in Users, A!Login(w, t, u) PROVE FirstInv'
    BY <1>0, <1>8 DEF A!Login
  <1>9. ASSUME NEW t \in Tokens, A!Logout(t) \/ A!TokenExpires(t) PROVE FirstInv'
    BY <1>0, <1>9 DEF A!Logout, A!TokenExpires
  <1>10. CASE A!RedisToggles BY <1>0, <1>10 DEF A!RedisToggles
  <1>11. CASE UNCHANGED A!vars BY <1>0, <1>11 DEF A!vars
  <1> QED BY <1>1, <1>2, <1>3, <1>4, <1>5, <1>6, <1>7, <1>8, <1>9, <1>10, <1>11 DEF A!Next

\* Registration makes exactly one administrator, the first user, however
\* registrations, role changes and lost hashing processes interleave
\* (register's LOCK TABLE users).
THEOREM FirstUserIsAdmin == A!Spec => []OneFirstAdmin
  <1>1. FirstInv => OneFirstAdmin
    <2> SUFFICES ASSUME FirstInv PROVE OneFirstAdmin OBVIOUS
    <2> DEFINE B == {u \in Users : born[u] = "admin"}
    <2>1. CASE A!Registered = {}
      <3>1. B = {} BY <2>1 DEF FirstInv, FirstIsAdmin, A!Registered
      <3>2. Cardinality(B) = 0 BY <3>1, FS_EmptySet
      <3> QED BY <2>1, <3>2, SameCardinality DEF OneFirstAdmin, A!OneFirstAdmin
    <2>2. CASE A!Registered # {}
      <3>1. PICK u \in Users : born[u] = "admin" BY <2>2 DEF FirstInv, FirstIsAdmin
      <3>2. B = {u} BY <3>1 DEF FirstInv, FirstIsAdmin
      <3>3. Cardinality(B) = 1 BY <3>2, FS_Singleton
      <3> QED BY <2>2, <3>3, SameCardinality DEF OneFirstAdmin, A!OneFirstAdmin
    <2> QED BY <2>1, <2>2
  <1> QED BY <1>1, FirstInvInit, FirstInvStep, PTL DEF A!Spec
-----------------------------------------------------------------------------
(***************************************************************************)
(* Versions.  A summary is computed when the latest version is read and    *)
(* inserted when the number after it is still free.  VersionInv adds that  *)
(* a number belongs to one row, and that what a saver has read is still    *)
(* a version of the history, with the summary computed from it.            *)
(***************************************************************************)
Summaries == {V!InitialVersion} \union {<<V!diff_pipelines(a, b)>> : a \in Definitions, b \in Definitions}

SaverType == [pc : {"idle", "read", "commit"}, yaml : Definitions \union {NoDefinition},
              latest : Nat, summary : Summaries, tries : Nat]

VersionTypes ==
    /\ versions \subseteq [number : Nat \ {0}, yaml : Definitions, summary : Summaries]
    /\ saver \in [Savers -> SaverType]
    /\ \A s \in Savers : saver[s].pc # "idle" => saver[s].yaml \in Definitions

OneRow ==
    /\ IsFiniteSet(versions)
    /\ V!Numbers = 1..Cardinality(versions)
    /\ \A v, w \in versions : v.number = w.number => v = w

ReadIsKept ==
    \A s \in Savers : saver[s].pc = "commit" =>
        /\ saver[s].latest \in 0..Cardinality(versions)
        /\ saver[s].summary = V!Summary(saver[s].latest, saver[s].yaml)

SummariesMatch ==
    \A v \in versions :
       v.summary = IF v.number = 1 THEN V!InitialVersion
                   ELSE <<V!diff_pipelines(V!Row(v.number - 1).yaml, v.yaml)>>

VersionInv == VersionTypes /\ OneRow /\ ReadIsKept /\ SummariesMatch

LEMMA RestingSaver == V!Resting \in SaverType /\ V!Resting.pc = "idle"
  <1>1. V!InitialVersion \in Summaries BY DEF Summaries
  <1> QED BY <1>1 DEF V!Resting, SaverType

LEMMA VersionInvInit == V!Init => VersionInv
  <1> SUFFICES ASSUME V!Init PROVE VersionInv OBVIOUS
  <1>1. versions = {} /\ saver = [s \in Savers |-> V!Resting] BY DEF V!Init
  <1>2. VersionTypes BY <1>1, RestingSaver DEF VersionTypes
  <1>3. IsFiniteSet(versions) /\ Cardinality(versions) = 0 BY <1>1, FS_EmptySet
  <1>4. V!Numbers = {} BY <1>1 DEF V!Numbers
  <1>5. \A s \in Savers : saver[s].pc = "idle" BY <1>1 DEF V!Resting
  <1> QED BY <1>1, <1>2, <1>3, <1>4, <1>5 DEF VersionInv, OneRow, ReadIsKept, SummariesMatch

\* The numbers run up to the latest one, and every one of them has its row.
LEMMA Latest ==
    ASSUME VersionTypes, OneRow
    PROVE  /\ Cardinality(versions) \in Nat
           /\ V!LatestNumber = Cardinality(versions)
           /\ \A n \in 1..Cardinality(versions) : V!Row(n) \in versions /\ V!Row(n).number = n
           /\ \A v \in versions : V!Row(v.number) = v /\ v.number \in 1..Cardinality(versions)
  <1> DEFINE n == Cardinality(versions)
  <1>1. n \in Nat BY FS_CardinalityType DEF OneRow
  <1>2. V!Numbers = 1..n BY DEF OneRow
  <1> HIDE DEF n
  <1>3. V!LatestNumber = n
    <2>1. CASE n = 0 BY <1>2, <2>1 DEF V!LatestNumber
    <2>2. CASE n # 0
      <3>1. n \in V!Numbers /\ \A k \in V!Numbers : n >= k BY <1>1, <1>2, <2>2
      <3>2. \A m \in V!Numbers : (\A k \in V!Numbers : m >= k) => m = n BY <1>1, <1>2, <3>1
      <3>3. (CHOOSE m \in V!Numbers : \A k \in V!Numbers : m >= k) = n BY <3>1, <3>2
      <3> QED BY <3>1, <3>3 DEF V!LatestNumber
    <2> QED BY <2>1, <2>2
  <1>4. \A m \in 1..n : V!Row(m) \in versions /\ V!Row(m).number = m
    <2> TAKE m \in 1..n
    <2>1. \E v \in versions : v.number = m BY <1>2 DEF V!Numbers
    <2> QED BY <2>1 DEF V!Row
  <1>5. \A v \in versions : v.number \in 1..n BY <1>2 DEF V!Numbers
  <1>6. \A v \in versions : V!Row(v.number) = v BY <1>4, <1>5 DEF OneRow
  <1> QED BY <1>1, <1>3, <1>4, <1>5, <1>6 DEF n

\* A commit appends a row with the next number.
LEMMA CommitStep ==
    ASSUME VersionInv, NEW s \in Savers, V!SaveCommit(s), saver[s].latest + 1 \notin V!Numbers
    PROVE  VersionInv'
  <1>0. PICK n : n = Cardinality(versions) OBVIOUS
  <1> DEFINE x == [number |-> n + 1, yaml |-> saver[s].yaml, summary |-> saver[s].summary]
  <1>1. /\ n \in Nat /\ \A m \in 1..n : V!Row(m) \in versions /\ V!Row(m).number = m
        /\ \A v \in versions : V!Row(v.number) = v /\ v.number \in 1..n
    BY <1>0, Latest DEF VersionInv
  <1>2. saver[s].pc = "commit" /\ saver[s].latest \in 0..n BY <1>0 DEF V!SaveCommit, VersionInv, ReadIsKept
  <1>3. saver[s].latest = n BY <1>0, <1>1, <1>2 DEF VersionInv, OneRow
  <1>4. versions' = versions \union {x} /\ saver' = [saver EXCEPT ![s] = V!Resting]
    BY <1>3 DEF V!SaveCommit
  <1>5. x \in [number : Nat \ {0}, yaml : Definitions, summary : Summaries]
    <2>1. saver[s] \in SaverType /\ saver[s].yaml \in Definitions BY <1>2 DEF VersionInv, VersionTypes
    <2>2. saver[s].summary \in Summaries BY <2>1 DEF SaverType
    <2> QED BY <1>1, <2>1, <2>2
  <1>6. V!Resting \in SaverType /\ V!Resting.pc = "idle" BY RestingSaver
  <1>7. VersionTypes' BY <1>4, <1>5, <1>6 DEF VersionInv, VersionTypes
  <1>8. x \notin versions BY <1>1
  <1>9. IsFiniteSet(versions') /\ Cardinality(versions') = n + 1
    BY <1>0, <1>4, <1>8, FS_AddElement DEF VersionInv, OneRow
  <1>10. V!Numbers' = 1..(n + 1)
    <2>1. x.number = n + 1 OBVIOUS
    <2> HIDE DEF x
    <2>2. V!Numbers' = V!Numbers \union {n + 1} BY <1>4, <2>1 DEF V!Numbers
    <2> QED BY <1>0, <1>1, <2>2 DEF VersionInv, OneRow
  <1>11. OneRow'
    <2>1. \A v, w \in versions' : v.number = w.number => v = w
      BY <1>1, <1>4 DEF VersionInv, OneRow
    <2> QED BY <2>1, <1>9, <1>10 DEF OneRow
  <1>12. \A m \in 1..n : V!Row(m)' = V!Row(m)
    <2> TAKE m \in 1..n
    <2>1. V!Row(m) \in versions' /\ V!Row(m).number = m BY <1>1, <1>4
    <2>2. \A v \in versions' : v.number = m => v = V!Row(m) BY <2>1, <1>11 DEF OneRow
    <2> QED BY <2>1, <2>2 DEF V!Row
  <1>13. ReadIsKept'
    <2>1. \A d \in Savers : saver'[d].pc = "commit" => saver'[d] = saver[d]
      BY <1>4, <1>6 DEF VersionInv, VersionTypes
    <2>2. \A l \in 0..n : \A y : V!Summary(l, y)' = V!Summary(l, y)
      <3> TAKE l \in 0..n
      <3> TAKE y
      <3>1. CASE l = 0 BY <3>1 DEF V!Summary, V!InitialVersion
      <3>2. CASE l # 0
        <4>1. V!Row(l)' = V!Row(l) BY <1>1, <1>12, <3>2
        <4> QED BY <3>2, <4>1 DEF V!Summary
      <3> QED BY <3>1, <3>2
    <2>3. \A d \in Savers : saver'[d].pc = "commit" =>
            /\ saver'[d].latest \in 0..(n + 1)
            /\ saver'[d].summary = V!Summary(saver'[d].latest, saver'[d].yaml)
      BY <2>1, <1>0, <1>1 DEF VersionInv, ReadIsKept
    <2>4. \A d \in Savers : saver'[d].pc = "commit" =>
            saver'[d].latest \in 0..n
      BY <2>1, <1>0, <1>1 DEF VersionInv, ReadIsKept
    <2> QED BY <1>9, <2>2, <2>3, <2>4 DEF ReadIsKept
  <1>14. SummariesMatch'
    <2> SUFFICES ASSUME NEW v \in versions'
                 PROVE  v.summary = IF v.number = 1 THEN V!InitialVersion
                                    ELSE <<V!diff_pipelines(V!Row(v.number - 1)'.yaml, v.yaml)>>
      BY DEF SummariesMatch, V!InitialVersion, V!diff_pipelines
    <2>1. CASE v \in versions
      <3>1. v.number \in 1..n BY <1>1, <2>1
      <3>2. v.number # 1 => V!Row(v.number - 1)' = V!Row(v.number - 1) BY <1>1, <1>12, <3>1
      <3> QED BY <2>1, <3>2 DEF VersionInv, SummariesMatch
    <2>2. CASE v = x
      <3>1. v.number = n + 1 /\ v.yaml = saver[s].yaml /\ v.summary = V!Summary(n, saver[s].yaml)
        BY <1>2, <1>3, <2>2 DEF VersionInv, ReadIsKept
      <3>2. n # 0 => V!Row(n)' = V!Row(n) BY <1>1, <1>12
      <3> QED BY <1>1, <3>1, <3>2 DEF V!Summary
    <2> QED BY <1>4, <2>1, <2>2
  <1> QED BY <1>7, <1>11, <1>13, <1>14 DEF VersionInv
\* A step that leaves the rows alone, and after which a saver about to commit
\* has read the latest version or was about to commit before.
LEMMA SaverStep ==
    ASSUME VersionInv, UNCHANGED versions, VersionTypes',
           \A s \in Savers : saver'[s].pc = "commit" =>
               \/ saver'[s] = saver[s]
               \/ saver'[s].latest = V!LatestNumber
                  /\ saver'[s].summary = V!Summary(V!LatestNumber, saver'[s].yaml)
    PROVE  VersionInv'
  <1>1. OneRow' BY DEF VersionInv, OneRow, V!Numbers
  <1>2. \A n : V!Row(n)' = V!Row(n) BY DEF V!Row
  <1>3. \A l, y : V!Summary(l, y)' = V!Summary(l, y) BY <1>2 DEF V!Summary, V!InitialVersion
  <1>4. V!LatestNumber \in 0..Cardinality(versions) BY Latest DEF VersionInv
  <1>5. ReadIsKept' BY <1>3, <1>4 DEF VersionInv, ReadIsKept
  <1>6. SummariesMatch' BY <1>2 DEF VersionInv, SummariesMatch, V!InitialVersion
  <1> QED BY <1>1, <1>5, <1>6 DEF VersionInv

LEMMA StartStep ==
    ASSUME VersionInv, NEW s \in Savers, NEW y \in Definitions, V!Start(s, y), UNCHANGED versions
    PROVE  VersionInv'
  <1> DEFINE x == [V!Resting EXCEPT !.pc = "read", !.yaml = y]
  <1>1. x \in SaverType /\ x.pc = "read" /\ x.yaml = y
    BY RestingSaver DEF SaverType
  <1>2. saver' = [saver EXCEPT ![s] = x] BY DEF V!Start
  <1> HIDE DEF x
  <1>3. VersionTypes' BY <1>1, <1>2 DEF VersionInv, VersionTypes
  <1>4. \A d \in Savers : saver'[d].pc = "commit" => saver'[d] = saver[d]
    BY <1>1, <1>2 DEF VersionInv, VersionTypes
  <1> QED BY <1>3, <1>4, SaverStep

LEMMA ReadStep ==
    ASSUME VersionInv, NEW s \in Savers, V!SaveRead(s)
    PROVE  VersionInv'
  <1> DEFINE m == V!Summary(V!LatestNumber, saver[s].yaml)
  <1>1. saver[s].yaml \in Definitions BY DEF V!SaveRead, VersionInv, VersionTypes
  <1>2. V!LatestNumber \in Nat BY Latest DEF VersionInv
  <1>3. m \in Summaries
    <2>1. CASE V!LatestNumber = 0 BY <2>1 DEF V!Summary, Summaries
    <2>2. CASE V!LatestNumber # 0
      <3>1. V!Row(V!LatestNumber) \in versions BY <2>2, Latest DEF VersionInv
      <3>2. V!Row(V!LatestNumber).yaml \in Definitions BY <3>1 DEF VersionInv, VersionTypes
      <3> QED BY <1>1, <2>2, <3>2 DEF V!Summary, Summaries
    <2> QED BY <2>1, <2>2
  <1> DEFINE x == [saver[s] EXCEPT !.pc = "commit", !.latest = V!LatestNumber, !.summary = m]
  <1>4. saver' = [saver EXCEPT ![s] = x] BY DEF V!SaveRead, VersionInv, VersionTypes
  <1> HIDE DEF m
  <1>a. saver[s] \in SaverType BY DEF VersionInv, VersionTypes
  <1>b. x \in SaverType /\ x.pc = "commit" /\ x.latest = V!LatestNumber /\ x.summary = m
        /\ x.yaml = saver[s].yaml
    BY <1>a, <1>2, <1>3 DEF SaverType
  <1> HIDE DEF x
  <1>5. VersionTypes' BY <1>1, <1>4, <1>b DEF V!SaveRead, VersionInv, VersionTypes
  <1>6. saver'[s].latest = V!LatestNumber /\ saver'[s].summary = m /\ saver'[s].yaml = saver[s].yaml
        /\ \A d \in Savers : d # s => saver'[d] = saver[d]
    BY <1>4, <1>b DEF VersionInv, VersionTypes
  <1>7. UNCHANGED versions BY DEF V!SaveRead
  <1>8. \A d \in Savers : saver'[d].pc = "commit" =>
               \/ saver'[d] = saver[d]
               \/ saver'[d].latest = V!LatestNumber
                  /\ saver'[d].summary = V!Summary(V!LatestNumber, saver'[d].yaml)
    BY <1>6 DEF m
  <1> QED BY <1>5, <1>7, <1>8, SaverStep

LEMMA ConflictStep ==
    ASSUME VersionInv, NEW s \in Savers, V!SaveCommit(s), saver[s].latest + 1 \in V!Numbers
    PROVE  VersionInv'
  <1>1. UNCHANGED versions BY DEF V!SaveCommit
  <1>2. PICK x : saver' = [saver EXCEPT ![s] = x]
                 /\ (x = V!Resting \/ x = [saver[s] EXCEPT !.pc = "read", !.tries = saver[s].tries + 1])
    <2> DEFINE y == IF saver[s].tries + 1 = MaxRetries THEN V!Resting
                    ELSE [saver[s] EXCEPT !.pc = "read", !.tries = saver[s].tries + 1]
    <2>1. saver' = [saver EXCEPT ![s] = y] BY DEF V!SaveCommit
    <2>2. y = V!Resting \/ y = [saver[s] EXCEPT !.pc = "read", !.tries = saver[s].tries + 1] OBVIOUS
    <2> HIDE DEF y
    <2> QED BY <2>1, <2>2
  <1>3. x \in SaverType
        /\ x.pc # "commit" /\ (x.pc # "idle" => x.yaml \in Definitions)
    <2>1. CASE x = V!Resting BY <2>1, RestingSaver
    <2>2. CASE x = [saver[s] EXCEPT !.pc = "read", !.tries = saver[s].tries + 1]
      <3>1. saver[s].yaml \in Definitions BY DEF V!SaveCommit, VersionInv, VersionTypes
      <3>2. saver[s] \in SaverType BY DEF VersionInv, VersionTypes
      <3>3. saver[s].tries + 1 \in Nat BY <3>2 DEF SaverType
      <3>4. x \in SaverType BY <2>2, <3>2, <3>3 DEF SaverType
      <3>5. x.pc = "read" /\ x.yaml = saver[s].yaml BY <2>2, <3>2 DEF SaverType
      <3> QED BY <3>1, <3>4, <3>5
    <2> QED BY <1>2, <2>1, <2>2
  <1>4. VersionTypes' BY <1>1, <1>2, <1>3 DEF VersionInv, VersionTypes
  <1>5. \A d \in Savers : saver'[d].pc = "commit" => saver'[d] = saver[d]
    BY <1>2, <1>3 DEF VersionInv, VersionTypes
  <1> QED BY <1>1, <1>4, <1>5, SaverStep

LEMMA VersionInvStep == VersionInv /\ [V!Next]_(V!vars) => VersionInv'
  <1> SUFFICES ASSUME VersionInv, [V!Next]_(V!vars) PROVE VersionInv' OBVIOUS
  <1>1. ASSUME NEW s \in Savers, V!SaveRead(s) PROVE VersionInv' BY <1>1, ReadStep
  <1>2. ASSUME NEW s \in Savers, V!SaveCommit(s) PROVE VersionInv' BY <1>2, CommitStep, ConflictStep
  <1>3. ASSUME NEW s \in Savers, NEW y \in Definitions, V!SaveVersionIfNeeded(s, y) PROVE VersionInv'
    BY <1>3, StartStep DEF V!SaveVersionIfNeeded
  <1>4. ASSUME NEW s \in Savers, NEW u \in Users, NEW n \in V!Numbers, V!RestoreVersion(s, u, n)
        PROVE  VersionInv'
    <2>1. V!Row(n) \in versions BY Latest DEF VersionInv, OneRow
    <2>2. V!Row(n).yaml \in Definitions BY <2>1 DEF VersionInv, VersionTypes
    <2> QED BY <1>4, <2>2, StartStep DEF V!RestoreVersion
  <1>5. CASE UNCHANGED V!vars
    <2>1. versions' = versions /\ saver' = saver BY <1>5 DEF V!vars
    <2> QED BY <2>1, SaverStep DEF VersionInv, VersionTypes
  <1> QED BY <1>1, <1>2, <1>3, <1>4, <1>5 DEF V!Next

\* The history is 1..n without gaps and each summary is the difference from
\* the version before, however saves of runs and restores interleave
\* (save_version's unique constraint and its retry from the top).
THEOREM HistoryHolds == V!Spec => []HistoryIsExact
  <1>1. VersionInv => HistoryIsExact
    <2> SUFFICES ASSUME VersionInv PROVE HistoryIsExact OBVIOUS
    <2>1. V!Numbers = 1..V!Cardinality(versions) BY SameCardinality DEF VersionInv, OneRow
    <2>2. ASSUME NEW u \in Users, NEW v \in versions, v.number > 1, V!MayRead(u)
          PROVE  V!diff_versions(u, v.number - 1, v.number) = {v.summary[1]}
      <3> DEFINE p == V!Row(v.number - 1)
      <3>1. v.number \in 1..Cardinality(versions) /\ Cardinality(versions) \in Nat BY Latest DEF VersionInv
      <3>2. p \in versions /\ p.number = v.number - 1 BY <2>2, <3>1, Latest DEF VersionInv
      <3>3. V!list_versions(u) = versions BY <2>2 DEF V!list_versions
      <3> HIDE DEF p
      <3>4. V!get_version(u, v.number) = {v} /\ V!get_version(u, v.number - 1) = {p}
        BY <3>2, <3>3 DEF V!get_version, VersionInv, OneRow
      <3>5. V!diff_versions(u, v.number - 1, v.number) = {V!diff_pipelines(p.yaml, v.yaml)}
        BY <3>4 DEF V!diff_versions
      <3>6. v.summary = <<V!diff_pipelines(p.yaml, v.yaml)>>
        <4>1. v.number # 1 BY <2>2, <3>1
        <4> QED BY <4>1 DEF VersionInv, SummariesMatch, p
      <3> QED BY <3>5, <3>6
    <2> QED BY <2>1, <2>2 DEF HistoryIsExact, V!HistoryIsExact, VersionInv, SummariesMatch
  <1> QED BY <1>1, VersionInvInit, VersionInvStep, PTL DEF V!Spec

-----------------------------------------------------------------------------
(***************************************************************************)
(* Sharing.  A check and the commit that follows it are two steps.         *)
(* AccessInv adds what is true in between: whoever has a request past its  *)
(* check is entitled already.                                              *)
(***************************************************************************)
Entitled == entitled \union Admins

CallType == [pc : {"idle", "grant", "validate", "permit", "contract"},
             user : Users \union {NoUser}, level : S!Levels]

SharingTypes ==
    /\ call \in [Clients -> CallType]
    /\ perms \subseteq [user : Users, level : S!Levels]
    /\ contracts \subseteq [user : Users, active : BOOLEAN]
    /\ runs \subseteq [user : Users]

RowsHaveSource == \A r \in perms \union contracts \union runs : r.user \in Entitled

CallsHaveSource ==
    \A c \in Clients : call[c].pc # "idle" => call[c].user \in Users /\ call[c].user \in Entitled

AccessInv == SharingTypes /\ RowsHaveSource /\ CallsHaveSource

\* The rows through which a user has access make the user entitled.
LEMMA SourceOfRows ==
    ASSUME AccessInv, NEW u
    PROVE  /\ S!Of(perms, u) # {} => u \in Entitled
           /\ S!LevelsOf(u) # {} => u \in Entitled
           /\ S!Of(contracts, u) # {} => u \in Entitled
           /\ S!Of(runs, u) # {} => u \in Entitled
  BY DEF AccessInv, RowsHaveSource, S!Of, S!LevelsOf

\* A request ends, or goes on for a user who is entitled by now.
LEMMA CallStep ==
    ASSUME AccessInv, NEW c \in Clients,
           NEW x \in CallType,
           call' = [call EXCEPT ![c] = x], entitled \subseteq entitled',
           x.pc # "idle" => x.user \in Users /\ x.user \in Entitled'
    PROVE  /\ call' \in [Clients -> CallType]
           /\ CallsHaveSource'
           /\ Entitled \subseteq Entitled'
  BY DEF AccessInv, SharingTypes, CallsHaveSource, Entitled

LEMMA IdleCall ==
    /\ S!Idle \in CallType
    /\ S!Idle.pc = "idle" /\ S!Idle.level = "viewer"
  BY DEF S!Idle, S!Levels, CallType

LEMMA AccessInvInit == S!Init => AccessInv
  BY IdleCall DEF S!Init, AccessInv, SharingTypes, RowsHaveSource, CallsHaveSource

LEMMA AccessInvStep == AccessInv /\ [S!Next]_(S!vars) => AccessInv'
  <1> SUFFICES ASSUME AccessInv, [S!Next]_(S!vars) PROVE AccessInv' OBVIOUS
  <1> USE DEF SharingTypes
  <1>1. ASSUME NEW c \in Clients, S!GrantOwner(c) PROVE AccessInv'
    <2>1. call[c].user \in Users /\ call[c].user \in Entitled
      BY <1>1 DEF S!GrantOwner, AccessInv, CallsHaveSource
    <2>2. PICK x : call' = [call EXCEPT ![c] = x] /\ x = [call[c] EXCEPT !.pc = "validate"]
      BY <1>1 DEF S!GrantOwner, S!Set
    <2>3. x \in CallType /\ x.user = call[c].user
      <3>1. call[c] \in CallType BY DEF AccessInv
      <3> QED BY <2>2, <3>1 DEF CallType
    <2>4. entitled' = entitled /\ Entitled' = Entitled BY <1>1 DEF S!GrantOwner, Entitled
    <2>5. call' \in [Clients -> CallType] /\ CallsHaveSource'
      <3>1. entitled \subseteq entitled' /\ x.user \in Users /\ x.user \in Entitled' BY <2>1, <2>3, <2>4
      <3> QED BY <2>2, <2>3, <3>1, CallStep
    <2>6. [user |-> call[c].user, level |-> "owner"] \in [user : Users, level : S!Levels]
      BY <2>1 DEF S!Levels
    <2>7. SharingTypes' BY <1>1, <2>5, <2>6 DEF S!GrantOwner, AccessInv
    <2>8. RowsHaveSource' BY <1>1, <2>1, <2>4 DEF S!GrantOwner, AccessInv, RowsHaveSource
    <2> QED BY <2>5, <2>7, <2>8 DEF AccessInv
  <1>2. ASSUME NEW c \in Clients, S!RunPipelineRefused(c) PROVE AccessInv'
    <2>1. call' = [call EXCEPT ![c] = S!Idle] /\ UNCHANGED <<perms, contracts, runs, entitled>>
      BY <1>2 DEF S!RunPipelineRefused, S!Set
    <2>2. call' \in [Clients -> CallType] /\ CallsHaveSource'
      BY <2>1, IdleCall, CallStep
    <2> QED BY <2>1, <2>2 DEF AccessInv, RowsHaveSource, Entitled
  <1>3. ASSUME NEW c \in Clients, S!RunPipeline(c) PROVE AccessInv'
    <2>1. call[c].user \in Users /\ call[c].user \in Entitled
      BY <1>3 DEF S!RunPipeline, AccessInv, CallsHaveSource
    <2>2. call' = [call EXCEPT ![c] = S!Idle] /\ runs' = runs \union {[user |-> call[c].user]}
          /\ UNCHANGED <<perms, contracts, entitled>>
      BY <1>3 DEF S!RunPipeline, S!Set
    <2>3. call' \in [Clients -> CallType] /\ CallsHaveSource'
      BY <2>2, IdleCall, CallStep
    <2> QED BY <2>1, <2>2, <2>3 DEF AccessInv, RowsHaveSource, Entitled
  <1>4. ASSUME NEW c \in Clients, S!InsertPermission(c) PROVE AccessInv'
    <2>1. call[c].user \in Users /\ call[c].user \in Entitled /\ call[c].level \in S!Levels
      <3>1. call[c] \in CallType BY DEF AccessInv
      <3>2. call[c].level \in S!Levels BY <3>1 DEF CallType
      <3> QED BY <1>4, <3>2 DEF S!InsertPermission, AccessInv, CallsHaveSource
    <2>2. call' = [call EXCEPT ![c] = S!Idle] /\ UNCHANGED <<contracts, runs, entitled>>
          /\ perms' = perms \union {[user |-> call[c].user, level |-> call[c].level]}
      BY <1>4 DEF S!InsertPermission, S!Set
    <2>3. call' \in [Clients -> CallType] /\ CallsHaveSource'
      BY <2>2, IdleCall, CallStep
    <2> QED BY <2>1, <2>2, <2>3 DEF AccessInv, RowsHaveSource, Entitled
  <1>5. ASSUME NEW c \in Clients, S!InsertContract(c) PROVE AccessInv'
    <2>1. call[c].user \in Users /\ call[c].user \in Entitled
      BY <1>5 DEF S!InsertContract, AccessInv, CallsHaveSource
    <2>2. call' = [call EXCEPT ![c] = S!Idle] /\ UNCHANGED <<perms, runs, entitled>>
          /\ contracts' = contracts \union {[user |-> call[c].user, active |-> TRUE]}
      BY <1>5 DEF S!InsertContract, S!Set
    <2>3. call' \in [Clients -> CallType] /\ CallsHaveSource'
      BY <2>2, IdleCall, CallStep
    <2>4. [user |-> call[c].user, active |-> TRUE] \in [user : Users, active : BOOLEAN] BY <2>1
    <2>5. SharingTypes' BY <2>2, <2>3, <2>4 DEF AccessInv
    <2>6. RowsHaveSource' BY <2>1, <2>2 DEF AccessInv, RowsHaveSource, Entitled
    <2> QED BY <2>3, <2>5, <2>6 DEF AccessInv
  <1>6. ASSUME NEW u \in Users, S!Arrives(u), UNCHANGED <<perms, contracts, runs>>
        PROVE  /\ entitled \subseteq entitled' /\ RowsHaveSource'
               /\ ~S!NameInUse => u \in Entitled'
    <2>1. entitled \subseteq entitled' BY <1>6 DEF S!Arrives
    <2>2. ~S!NameInUse => u \in Entitled' BY <1>6 DEF S!Arrives, S!NameInUse, Entitled
    <2> QED BY <1>6, <2>1, <2>2 DEF AccessInv, RowsHaveSource, Entitled
  <1>7. ASSUME NEW c \in Clients, NEW u \in Users, S!SubmitCheck(c, u) PROVE AccessInv'
    <2>1. PICK o \in S!CheckPipelinePermission(u, {"owner", "runner"}, TRUE) :
            call' = [call EXCEPT ![c] = IF o = "refused" THEN S!Idle
              ELSE [S!Idle EXCEPT !.pc = IF o = "new" THEN "grant" ELSE "validate", !.user = u]]
      BY <1>7 DEF S!SubmitCheck, S!Set
    <2>2. entitled \subseteq entitled' /\ RowsHaveSource' /\ (~S!NameInUse => u \in Entitled')
      BY <1>6, <1>7 DEF S!SubmitCheck
    <2>3. o # "refused" => u \in Entitled'
      <3>1. o # "refused" => u \in Entitled \/ ~S!NameInUse
        BY SourceOfRows DEF S!CheckPipelinePermission, Entitled
      <3> QED BY <3>1, <2>2 DEF Entitled
    <2>4. PICK x : call' = [call EXCEPT ![c] = x] /\ x = IF o = "refused" THEN S!Idle
              ELSE [S!Idle EXCEPT !.pc = IF o = "new" THEN "grant" ELSE "validate", !.user = u]
      BY <2>1
    <2>5. x \in CallType /\ (x.pc # "idle" => o # "refused" /\ x.user = u)
      <3>1. CASE o = "refused" BY <2>4, <3>1, IdleCall
      <3>2. CASE o = "new"
        <4>1. x = [S!Idle EXCEPT !.pc = "grant", !.user = u] BY <2>4, <3>2
        <4> QED BY <4>1, <3>2, IdleCall DEF CallType
      <3>3. CASE o \notin {"refused", "new"}
        <4>1. x = [S!Idle EXCEPT !.pc = "validate", !.user = u] BY <2>4, <3>3
        <4> QED BY <4>1, <3>3, IdleCall DEF CallType
      <3> QED BY <3>1, <3>2, <3>3
    <2>6. call' \in [Clients -> CallType] /\ CallsHaveSource'
      BY <2>2, <2>3, <2>4, <2>5, CallStep
    <2> QED BY <1>7, <2>2, <2>6 DEF S!SubmitCheck, AccessInv
  <1>8. ASSUME NEW c \in Clients, NEW u \in Users, S!CreateContract(c, u) PROVE AccessInv'
    <2>1. call' = [call EXCEPT ![c] = [S!Idle EXCEPT !.pc = "contract", !.user = u]]
      BY <1>8 DEF S!CreateContract, S!Set
    <2>2. entitled \subseteq entitled' /\ RowsHaveSource' /\ (~S!NameInUse => u \in Entitled')
      BY <1>6, <1>8 DEF S!CreateContract
    <2>3. u \in Entitled'
      <3>1. u \in Entitled \/ ~S!NameInUse
        BY <1>8, SourceOfRows DEF S!CreateContract, S!EnsurePipelineContractAccess, Entitled
      <3> QED BY <3>1, <2>2 DEF Entitled
    <2>4. [S!Idle EXCEPT !.pc = "contract", !.user = u] \in
            CallType
          /\ [S!Idle EXCEPT !.pc = "contract", !.user = u].user = u
      BY IdleCall DEF S!Idle, CallType
    <2>5. call' \in [Clients -> CallType] /\ CallsHaveSource'
      BY <2>1, <2>2, <2>3, <2>4, CallStep
    <2> QED BY <1>8, <2>2, <2>5 DEF S!CreateContract, AccessInv
  <1>9. ASSUME NEW c \in Clients, NEW u \in Users, NEW v \in Users, NEW l \in GrantLevels,
               S!GrantPermission(c, u, v, l)
        PROVE  AccessInv'
    <2>1. l \in S!Levels BY WorkspaceAssumption DEF S!Levels
    <2>2. entitled \subseteq entitled' /\ Entitled \subseteq Entitled' /\ v \in Entitled'
          /\ contracts' = contracts /\ runs' = runs
      BY <1>9 DEF S!GrantPermission, Entitled
    <2>3. CASE S!Of(perms, v) = {}
      <3>1. call' = [call EXCEPT ![c] = [pc |-> "permit", user |-> v, level |-> l]] /\ perms' = perms
        BY <1>9, <2>3 DEF S!GrantPermission, S!Set
      <3>2. call' \in [Clients -> CallType] /\ CallsHaveSource'
        <4>1. [pc |-> "permit", user |-> v, level |-> l] \in CallType BY <2>1 DEF CallType
        <4> QED BY <2>2, <3>1, <4>1, CallStep
      <3> QED BY <2>2, <3>1, <3>2 DEF AccessInv, RowsHaveSource
    <2>4. CASE S!Of(perms, v) # {}
      <3>1. PICK row \in S!Of(perms, v) :
              perms' = (perms \ {row}) \union {[row EXCEPT !.level = l]} /\ call' = call
        BY <1>9, <2>4 DEF S!GrantPermission
      <3>2. [row EXCEPT !.level = l] \in [user : Users, level : S!Levels] /\ [row EXCEPT !.level = l].user = v
        BY <2>1, <3>1 DEF AccessInv, S!Of
      <3>3. SharingTypes' BY <2>2, <3>1, <3>2 DEF AccessInv
      <3>4. RowsHaveSource' BY <2>2, <3>1, <3>2 DEF AccessInv, RowsHaveSource
      <3>5. CallsHaveSource' BY <2>2, <3>1 DEF AccessInv, CallsHaveSource
      <3> QED BY <3>3, <3>4, <3>5 DEF AccessInv
    <2> QED BY <2>3, <2>4
  <1>10. ASSUME NEW u \in Users, NEW row \in perms, S!RevokePermission(u, row) PROVE AccessInv'
    BY <1>10 DEF S!RevokePermission, AccessInv, RowsHaveSource, CallsHaveSource, Entitled
  <1>11. ASSUME NEW u \in Users, NEW k \in contracts, S!UpdateContract(u, k) PROVE AccessInv'
    <2>1. u \in Entitled
      BY <1>11, SourceOfRows DEF S!UpdateContract, S!EnsurePipelineContractAccess, Entitled
    <2>2. [k EXCEPT !.active = FALSE] \in [user : Users, active : BOOLEAN] /\ [k EXCEPT !.active = FALSE].user = k.user
      BY DEF AccessInv
    <2>3. contracts' = (contracts \ {k}) \union {[k EXCEPT !.active = FALSE], [user |-> u, active |-> TRUE]}
          /\ UNCHANGED <<perms, runs, call, entitled>>
      BY <1>11 DEF S!UpdateContract
    <2>4. SharingTypes'
      <3>1. [user |-> u, active |-> TRUE] \in [user : Users, active : BOOLEAN] OBVIOUS
      <3> QED BY <2>2, <2>3, <3>1 DEF AccessInv
    <2>5. RowsHaveSource' BY <2>1, <2>2, <2>3 DEF AccessInv, RowsHaveSource, Entitled
    <2> QED BY <2>3, <2>4, <2>5 DEF AccessInv, CallsHaveSource, Entitled
  <1>12. ASSUME NEW u \in Users, NEW k \in contracts, S!DeleteContract(u, k) PROVE AccessInv'
    BY <1>12 DEF S!DeleteContract, AccessInv, RowsHaveSource, CallsHaveSource, Entitled
  <1>13. CASE UNCHANGED S!vars
    BY <1>13 DEF S!vars, AccessInv, RowsHaveSource, CallsHaveSource, Entitled
  <1> QED BY <1>1, <1>2, <1>3, <1>4, <1>5, <1>7, <1>8, <1>9, <1>10, <1>11, <1>12, <1>13 DEF S!Next

\* A name in use stays off limits to others: whoever is neither an
\* administrator nor entitled has no row and is answered nothing, whatever is
\* committed between a check and what follows it.
THEOREM AccessIsSourced == S!Spec => []AccessHasSource
  <1>1. AccessInv => AccessHasSource
    <2> SUFFICES ASSUME AccessInv, NEW u \in Users, u \notin Admins, u \notin entitled
                 PROVE  S!Answered(u) = {} /\ S!Of(perms, u) \union S!Of(contracts, u) \union S!Of(runs, u) = {}
      BY DEF AccessHasSource, S!AccessHasSource
    <2>1. S!Of(perms, u) = {} /\ S!LevelsOf(u) = {} /\ S!Of(contracts, u) = {} /\ S!Of(runs, u) = {}
      BY SourceOfRows DEF Entitled
    <2>2. \A L : ~S!EnsurePipelineContractAccess(u, L, FALSE)
      BY <2>1 DEF S!EnsurePipelineContractAccess
    <2>3. \A r \in runs : \A L : ~S!CheckRunPermission(u, r, L)
      <3>1. \A r \in runs : r.user # u BY <2>1 DEF S!Of
      <3>2. \A L : S!CheckPipelinePermission(u, L, FALSE) = {"refused"}
        BY <2>1 DEF S!CheckPipelinePermission
      <3>3. "ok" # "refused" OBVIOUS
      <3> TAKE r \in runs
      <3> TAKE L
      <3>4. "ok" \notin S!CheckPipelinePermission(u, L, FALSE) BY <3>2, <3>3
      <3> QED BY <3>1, <3>4 DEF S!CheckRunPermission
    <2>4. ~S!RequireOwner(u) BY <2>1 DEF S!RequireOwner
    <2>5. S!list_permissions(u) = {} BY <2>4 DEF S!list_permissions
    <2>6. S!list_contracts(u) = {} /\ S!get_contract_status(u) = {} /\ S!list_pipeline_breaches(u) = {}
      BY <2>2 DEF S!list_contracts, S!get_contract_status, S!list_pipeline_breaches
    <2>7. S!list_run_violations(u) = {} /\ S!list_step_violations(u) = {} /\ S!list_pipeline_runs(u) = {}
      BY <2>1, <2>2 DEF S!list_run_violations, S!list_step_violations, S!list_pipeline_runs, S!Of
    <2>8. S!get_pipeline_run(u) = {} /\ S!list_healing_attempts(u) = {} /\ S!get_healing_attempt(u) = {}
          /\ S!get_run_timing(u) = {} /\ S!get_run_download_url(u) = {} /\ S!export_pipeline_output(u) = {}
      BY <2>3 DEF S!get_pipeline_run, S!list_healing_attempts, S!get_healing_attempt, S!get_run_timing,
                  S!get_run_download_url, S!export_pipeline_output
    <2>10. S!get_own_run_timing(u) = {} BY <2>1 DEF S!get_own_run_timing, S!OwnRuns
    <2>9. UNION {S!get_contract(u, k) : k \in contracts} = {} BY <2>6 DEF S!get_contract
    <2> QED BY <2>1, <2>5, <2>6, <2>7, <2>8, <2>9, <2>10 DEF S!Answered
  <1> QED BY <1>1, AccessInvInit, AccessInvStep, PTL DEF S!Spec

-----------------------------------------------------------------------------
\* A behaviour of Workspace is one of each of its parts, and has their
\* invariants.
THEOREM WorkspaceHolds == Spec => [](OneFirstAdmin /\ HistoryIsExact /\ AccessHasSource)
  <1>1. Init => A!Init /\ V!Init /\ S!Init BY DEF Init
  <1>2. [Next]_vars => [A!Next]_(A!vars) /\ [V!Next]_(V!vars) /\ [S!Next]_(S!vars)
    BY DEF Next, vars, accountVars, versionVars, sharingVars, A!vars, V!vars, S!vars
  <1>3. Spec => A!Spec /\ V!Spec /\ S!Spec BY <1>1, <1>2, PTL DEF Spec, A!Spec, V!Spec, S!Spec
  <1> QED BY <1>3, FirstUserIsAdmin, HistoryHolds, AccessIsSourced, PTL
=============================================================================
