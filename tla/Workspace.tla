----------------------------- MODULE Workspace -----------------------------
(***************************************************************************)
(* Accounts, Versions and Sharing share no state, so a behaviour of the    *)
(* three together is one of each: a behaviour takes steps of one `part`    *)
(* and leaves the others at their start.                                   *)
(***************************************************************************)
EXTENDS Naturals, FiniteSets

CONSTANTS Users, NoUser, Admins, Level,                            \* see Accounts, Versions, Sharing
          Workers, Requests, WorkerOf, NoRequest, Tokens,          \* see Accounts
          Savers, Definitions, NoDefinition, MaxRetries, MaxVersions,  \* see Versions
          Clients, GrantLevels, MaxRows                            \* see Sharing

ASSUME WorkspaceAssumption ==
    /\ NoRequest \notin Requests
    /\ MaxRetries \in Nat /\ MaxVersions \in Nat
    /\ GrantLevels \subseteq {"owner", "runner", "viewer"}

VARIABLES role, born, lock, req, pool, holder, expired, revoked, redis,
          versions, saver, perms, contracts, runs, call, entitled, part

accountVars == <<role, born, lock, req, pool, holder, expired, revoked, redis>>
versionVars == <<versions, saver>>
sharingVars == <<perms, contracts, runs, call, entitled>>
vars == <<accountVars, versionVars, sharingVars, part>>

A == INSTANCE Accounts
V == INSTANCE Versions
S == INSTANCE Sharing

Init == A!Init /\ V!Init /\ S!Init /\ part \in {"accounts", "versions", "sharing"}

Next ==
  \/ part = "accounts" /\ A!Next /\ UNCHANGED <<versionVars, sharingVars, part>>
  \/ part = "versions" /\ V!Next /\ UNCHANGED <<accountVars, sharingVars, part>>
  \/ part = "sharing" /\ S!Next /\ UNCHANGED <<accountVars, versionVars, part>>

Spec == Init /\ [][Next]_vars /\ A!Fairness

\* See Accounts: registration makes one administrator, the first user.
OneFirstAdmin == A!OneFirstAdmin

\* See Accounts: every registration or role change that began ends.
WritesEnd == A!WritesEnd

\* See Accounts: no event loop waits for one of its own coroutines.
LoopStaysResponsive == A!LoopStaysResponsive

\* See Versions: no gaps, and each summary is the difference shown.
HistoryIsExact == V!HistoryIsExact

\* See Sharing: a name in use stays off limits to others.
AccessHasSource == S!AccessHasSource
==============================================================================
