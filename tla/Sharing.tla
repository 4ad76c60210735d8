------------------------------- MODULE Sharing -------------------------------
(***************************************************************************)
(* Who may use a pipeline name: permission rows (api/permissions.py), data *)
(* contracts (api/contracts.py), run submission (api/pipelines.py) and the *)
(* read endpoints that follow from them, for one pipeline name.  A handler *)
(* checks and then commits; another request may commit in between.  There  *)
(* is no unique constraint on (pipeline_name, user_id), so a user may end  *)
(* up with several permission rows; first() then returns any of them.      *)
(***************************************************************************)
EXTENDS Naturals, FiniteSets

CONSTANTS
  Users, Admins,   \* the users and those with the role admin
  Clients,         \* requests in flight
  GrantLevels,     \* bound: the levels that are granted
  MaxRows,         \* bound: permission rows, contracts and runs, together
  NoUser

VARIABLES
  perms,      \* permission rows: [user, level]
  contracts,  \* contract rows: [user, active]; their versions are left out
  runs,       \* runs of the name: [user]; their progress is left out
  call,       \* the request of each client
  entitled    \* history: users who found the name unused or were granted access

vars == <<perms, contracts, runs, call, entitled>>

Levels == {"owner", "runner", "viewer"}
Idle == [pc |-> "idle", user |-> NoUser, level |-> "viewer"]

Init == perms = {} /\ contracts = {} /\ runs = {} /\ call = [c \in Clients |-> Idle] /\ entitled = {}

Room == Cardinality(perms) + Cardinality(contracts) + Cardinality(runs) < MaxRows
Of(rows, u) == {r \in rows : r.user = u}
Set(c, r) == call' = [call EXCEPT ![c] = r]

(***************************************************************************)
(* The checks.  With several rows for the user any of them may be found.   *)
(***************************************************************************)
LevelsOf(u) == {r.level : r \in Of(perms, u)}

\* Mutant: runs are not counted as a use of the name.
NameInUseByRows == contracts # {} \/ perms # {}

NameInUse == runs # {} \/ contracts # {} \/ perms # {}

CheckPipelinePermission(u, levels, grantOwner) ==
  IF u \in Admins \/ Of(contracts, u) # {} THEN {"ok"}
  ELSE IF LevelsOf(u) = {} THEN {IF grantOwner /\ ~NameInUse THEN "new" ELSE "refused"}
  ELSE {IF l \in levels THEN "ok" ELSE "refused" : l \in LevelsOf(u)}

CheckRunPermission(u, run, levels) ==
  u \in Admins \/ run.user = u \/ "ok" \in CheckPipelinePermission(u, levels, FALSE)

EnsurePipelineContractAccess(u, levels, allowNew) ==
  \/ u \in Admins
  \/ Of(contracts, u) # {}
  \/ LevelsOf(u) \cap levels # {}
  \/ allowNew /\ ~NameInUse

RequireOwner(u) == "owner" \in LevelsOf(u) \/ u \in Admins

ContractQuery(u) == IF u \in Admins THEN contracts ELSE Of(contracts, u)

\* What the history records when a request of u is checked.
Arrives(u) ==
  entitled' = IF runs \cup contracts \cup perms = {} THEN entitled \cup ({u} \ Admins) ELSE entitled

(***************************************************************************)
(* Submitting a run.                                                       *)
(***************************************************************************)
SubmitCheck(c, u) ==
  /\ call[c].pc = "idle"
  /\ \E o \in CheckPipelinePermission(u, {"owner", "runner"}, TRUE) :
       Set(c, IF o = "refused" THEN Idle
              ELSE [Idle EXCEPT !.pc = IF o = "new" THEN "grant" ELSE "validate", !.user = u])
  /\ Arrives(u)
  /\ UNCHANGED <<perms, contracts, runs>>

\* The owner row is committed before the definition is validated.
GrantOwner(c) ==
  /\ call[c].pc = "grant" /\ Room
  /\ perms' = perms \cup {[user |-> call[c].user, level |-> "owner"]}
  /\ Set(c, [call[c] EXCEPT !.pc = "validate"])
  /\ UNCHANGED <<contracts, runs, entitled>>

\* The definition or the schema flow is invalid, or a file is not found.
RunPipelineRefused(c) ==
  /\ call[c].pc = "validate"
  /\ Set(c, Idle)
  /\ UNCHANGED <<perms, contracts, runs, entitled>>

RunPipeline(c) ==
  /\ call[c].pc = "validate" /\ Room
  /\ runs' = runs \cup {[user |-> call[c].user]}
  /\ Set(c, Idle)
  /\ UNCHANGED <<perms, contracts, entitled>>

(***************************************************************************)
(* Permissions.  A check that finds a row updates it, in one step: a row   *)
(* deleted in between only fails the request.                              *)
(***************************************************************************)
GrantPermission(c, u, target, level) ==
  /\ call[c].pc = "idle" /\ RequireOwner(u)
  /\ IF Of(perms, target) = {}
     THEN /\ Set(c, [pc |-> "permit", user |-> target, level |-> level])
          /\ UNCHANGED perms
     ELSE \E row \in Of(perms, target) :
            perms' = (perms \ {row}) \cup {[row EXCEPT !.level = level]} /\ UNCHANGED call
  /\ entitled' = entitled \cup ({target} \ Admins)
  /\ UNCHANGED <<contracts, runs>>

InsertPermission(c) ==
  /\ call[c].pc = "permit" /\ Room
  /\ perms' = perms \cup {[user |-> call[c].user, level |-> call[c].level]}
  /\ Set(c, Idle)
  /\ UNCHANGED <<contracts, runs, entitled>>

RevokePermission(u, row) ==
  /\ RequireOwner(u)
  /\ perms' = perms \ {row}
  /\ UNCHANGED <<contracts, runs, call, entitled>>

(***************************************************************************)
(* Contracts.                                                              *)
(***************************************************************************)
CreateContract(c, u) ==
  /\ call[c].pc = "idle" /\ EnsurePipelineContractAccess(u, {"owner"}, TRUE)
  /\ Set(c, [Idle EXCEPT !.pc = "contract", !.user = u])
  /\ Arrives(u)
  /\ UNCHANGED <<perms, contracts, runs>>

InsertContract(c) ==
  /\ call[c].pc = "contract" /\ Room
  /\ contracts' = contracts \cup {[user |-> call[c].user, active |-> TRUE]}
  /\ Set(c, Idle)
  /\ UNCHANGED <<perms, runs, entitled>>

\* The old row is deactivated; the new one belongs to whoever updates.
UpdateContract(u, k) ==
  /\ EnsurePipelineContractAccess(u, {"owner"}, FALSE) /\ k \in ContractQuery(u)
  /\ contracts' = (contracts \ {k}) \cup {[k EXCEPT !.active = FALSE], [user |-> u, active |-> TRUE]}
  /\ Cardinality(contracts') <= MaxRows
  /\ UNCHANGED <<perms, runs, call, entitled>>

DeleteContract(u, k) ==
  /\ EnsurePipelineContractAccess(u, {"owner"}, FALSE) /\ k \in ContractQuery(u)
  /\ contracts' = contracts \ {k}
  /\ UNCHANGED <<perms, runs, call, entitled>>

Next ==
  \/ \E c \in Clients :
       \/ GrantOwner(c) \/ RunPipelineRefused(c) \/ RunPipeline(c) \/ InsertPermission(c) \/ InsertContract(c)
       \/ \E u \in Users : \/ SubmitCheck(c, u) \/ CreateContract(c, u)
                           \/ \E v \in Users, l \in GrantLevels : GrantPermission(c, u, v, l)
  \/ \E u \in Users : \/ \E row \in perms : RevokePermission(u, row)
                      \/ \E k \in contracts : UpdateContract(u, k) \/ DeleteContract(u, k)

Spec == Init /\ [][Next]_vars

-----------------------------------------------------------------------------
(***************************************************************************)
(* What each read endpoint answers to u: a set of rows, empty for a 403 or *)
(* 404.                                                                    *)
(***************************************************************************)
list_permissions(u) == IF RequireOwner(u) THEN perms ELSE {}

list_contracts(u) == IF EnsurePipelineContractAccess(u, Levels, FALSE) THEN ContractQuery(u) ELSE {}

get_contract(u, k) == {k} \cap list_contracts(u)

ActiveContract(u) == {k \in ContractQuery(u) : k.active}

OwnRuns(u) == IF u \in Admins THEN runs ELSE Of(runs, u)

get_contract_status(u) ==
  IF EnsurePipelineContractAccess(u, Levels, FALSE) THEN ActiveContract(u) \cup OwnRuns(u) ELSE {}

list_pipeline_breaches(u) == IF EnsurePipelineContractAccess(u, Levels, FALSE) THEN OwnRuns(u) ELSE {}

list_run_violations(u) == {r \in runs : r.user = u \/ EnsurePipelineContractAccess(u, Levels, FALSE)}

list_step_violations(u) == list_run_violations(u)

list_pipeline_runs(u) == Of(runs, u)

get_pipeline_run(u) == {r \in runs : CheckRunPermission(u, r, Levels)}

list_healing_attempts(u) == {r \in runs : CheckRunPermission(u, r, Levels)}

get_healing_attempt(u) == {r \in runs : CheckRunPermission(u, r, Levels)}

get_run_timing(u) == {r \in runs : CheckRunPermission(u, r, Levels)}

\* GET /api/runs/{id}/timing, a second endpoint beside /pipelines/{id}/timing.
get_own_run_timing(u) == OwnRuns(u)

get_run_download_url(u) == {r \in runs : CheckRunPermission(u, r, {"owner", "runner"})}

export_pipeline_output(u) == {r \in runs : CheckRunPermission(u, r, {"owner", "runner"})}

Answered(u) ==
  list_permissions(u) \cup list_contracts(u) \cup get_contract_status(u) \cup list_pipeline_breaches(u)
  \cup list_run_violations(u) \cup list_step_violations(u) \cup list_pipeline_runs(u)
  \cup get_pipeline_run(u) \cup list_healing_attempts(u) \cup get_healing_attempt(u)
  \cup get_run_timing(u) \cup get_own_run_timing(u) \cup get_run_download_url(u) \cup export_pipeline_output(u)
  \cup UNION {get_contract(u, k) : k \in contracts}

\* A name that is in use stays off limits to others: whoever reads anything
\* of the pipeline, or has a row, a contract or a run of it, found the name
\* unused when a request of theirs was checked, was granted a level by an
\* owner, or is an administrator.  Concurrent first uses may entitle two
\* users; nothing entitles a third afterwards.
AccessHasSource ==
  \A u \in Users \ (Admins \cup entitled) :
    Answered(u) = {} /\ Of(perms, u) \cup Of(contracts, u) \cup Of(runs, u) = {}
=============================================================================
