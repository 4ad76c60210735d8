------------------------------ MODULE Versions ------------------------------
(***************************************************************************)
(* The version history of one pipeline (pipeline/versioning.py,            *)
(* api/versions.py, _save_version_if_needed of tasks/pipeline_tasks.py).   *)
(* A successful run or a restore reads the latest version, computes the    *)
(* next number and the summary of the changes, and inserts; the unique     *)
(* constraint on (pipeline_name, version_number) refuses a number another  *)
(* saver has taken meanwhile, and the saver starts over.                   *)
(***************************************************************************)
EXTENDS Naturals, FiniteSets

CONSTANTS
  Savers,       \* concurrent savers: worker tasks and restore requests
  Definitions,  \* pipeline definitions: functions from step names to configs
  Users, Level, \* the users and the level of their permission row, or "none"
  Admins,
  MaxRetries,   \* save_version's max_retries
  MaxVersions,  \* bound: versions saved in a behaviour
  NoDefinition

VARIABLES
  versions,  \* the rows: [number, yaml, summary]
  saver      \* what each saver is doing

vars == <<versions, saver>>

InitialVersion == <<>>
Resting == [pc |-> "idle", yaml |-> NoDefinition, latest |-> 0, summary |-> InitialVersion,
            tries |-> 0]

Init == versions = {} /\ saver = [s \in Savers |-> Resting]

Numbers == {v.number : v \in versions}
LatestNumber == IF Numbers = {} THEN 0 ELSE CHOOSE n \in Numbers : \A k \in Numbers : n >= k
Row(n) == CHOOSE v \in versions : v.number = n

(***************************************************************************)
(* The difference of two definitions and the counts of its summary.        *)
(***************************************************************************)
diff_pipelines(a, b) ==
  LET common == DOMAIN a \cap DOMAIN b IN
  [added    |-> Cardinality(DOMAIN b \ DOMAIN a),
   removed  |-> Cardinality(DOMAIN a \ DOMAIN b),
   modified |-> Cardinality({n \in common : a[n] # b[n]})]

Summary(latest, yaml) ==
  IF latest = 0 THEN InitialVersion ELSE <<diff_pipelines(Row(latest).yaml, yaml)>>

(***************************************************************************)
(* The endpoints.  A read answers with rows of the table; the permission   *)
(* check of this router knows administrators and permission rows only.     *)
(***************************************************************************)
CheckPipelinePermission(u, levels) == u \in Admins \/ Level[u] \in levels

MayRead(u) == CheckPipelinePermission(u, {"owner", "runner", "viewer"})

list_versions(u) == IF MayRead(u) THEN versions ELSE {}

get_version(u, n) == {v \in list_versions(u) : v.number = n}

diff_versions(u, m, n) ==
  {diff_pipelines(v.yaml, w.yaml) : v \in get_version(u, m), w \in get_version(u, n)}

Start(s, yaml) ==
  saver' = [saver EXCEPT ![s] = [Resting EXCEPT !.pc = "read", !.yaml = yaml]]

RestoreVersion(s, u, n) ==
  /\ saver[s].pc = "idle" /\ n \in Numbers
  /\ CheckPipelinePermission(u, {"owner", "runner"})
  /\ Start(s, Row(n).yaml)
  /\ UNCHANGED versions

\* After a successful run; the definition of the latest version is not saved
\* again.
SaveVersionIfNeeded(s, yaml) ==
  /\ saver[s].pc = "idle"
  /\ LatestNumber # 0 => Row(LatestNumber).yaml # yaml
  /\ Start(s, yaml)
  /\ UNCHANGED versions

(***************************************************************************)
(* save_version: one turn of its loop is a read and a commit.              *)
(***************************************************************************)
SaveRead(s) ==
  /\ saver[s].pc = "read"
  /\ saver' = [saver EXCEPT ![s] = [@ EXCEPT !.pc = "commit", !.latest = LatestNumber,
                                             !.summary = Summary(LatestNumber, saver[s].yaml)]]
  /\ UNCHANGED versions

\* Mutant: after a conflict the next free number is taken, summary unchanged.
SaveCommitBumps(s) ==
  /\ saver[s].pc = "commit" /\ Cardinality(versions) < MaxVersions
  /\ versions' = versions \cup {[number |-> LatestNumber + 1, yaml |-> saver[s].yaml,
                                 summary |-> saver[s].summary]}
  /\ saver' = [saver EXCEPT ![s] = Resting]

SaveCommit(s) ==
  LET next == saver[s].latest + 1 IN
  /\ saver[s].pc = "commit"
  /\ IF next \in Numbers
     THEN /\ saver' = [saver EXCEPT ![s] =
                 IF saver[s].tries + 1 = MaxRetries THEN Resting   \* IntegrityError to the caller
                 ELSE [saver[s] EXCEPT !.pc = "read", !.tries = saver[s].tries + 1]]
          /\ UNCHANGED versions
     ELSE /\ next <= MaxVersions
          /\ versions' = versions \cup {[number |-> next, yaml |-> saver[s].yaml,
                                         summary |-> saver[s].summary]}
          /\ saver' = [saver EXCEPT ![s] = Resting]

Next == \E s \in Savers :
          \/ SaveRead(s) \/ SaveCommit(s)
          \/ \E y \in Definitions : SaveVersionIfNeeded(s, y)
          \/ \E u \in Users, n \in Numbers : RestoreVersion(s, u, n)

Spec == Init /\ [][Next]_vars

-----------------------------------------------------------------------------
\* However saves of runs and of restores interleave, the history is 1..n
\* without gaps, and the summary of each version is the difference from the
\* version before it, the one a reader of the history (diff_versions) is
\* shown.
HistoryIsExact ==
  /\ Numbers = 1..Cardinality(versions)
  /\ \A v \in versions :
       v.summary = IF v.number = 1 THEN InitialVersion
                   ELSE <<diff_pipelines(Row(v.number - 1).yaml, v.yaml)>>
  /\ \A u \in Users, v \in versions :
       v.number > 1 /\ MayRead(u) => diff_versions(u, v.number - 1, v.number) = {v.summary[1]}
=============================================================================
