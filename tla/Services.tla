------------------------------ MODULE Services ------------------------------
(***************************************************************************)
(* A file, the policies on its columns, the messages that leave at the end *)
(* of a run and the token budget share no state, so a behaviour of them    *)
(* together is one of each: a behaviour takes steps of one `part` and      *)
(* leaves the others at their start.                                       *)
(***************************************************************************)
EXTENDS Integers, Sequences, FiniteSets

CONSTANTS None,
          Clients, Tasks, MaxSnapshots, ProfileRetries,                    \* see Files
          Readers, Writers, Columns, Kinds, MaxChanges,                    \* see ColumnPolicies
          Hooks, Deliveries, Channels, DeliverRetries, TaskRetries,        \* see Outbound
          Calls, Describes, Estimate, MaxEstimate, Actual, Limit, MaxRetries, MaxWindow,  \* see TokenBudget
          MaxFaults, MaxWebhookFaults  \* bounds: faults of webhooks, and of each other part

ASSUME ServicesAssumption ==
    /\ None \notin {"good", "short", "junk", "long", "torn"}
    /\ None \notin Hooks /\ IsFiniteSet(Deliveries)
    /\ DeliverRetries \in Nat /\ TaskRetries \in Nat /\ ProfileRetries \in Nat
    /\ Actual \subseteq Nat /\ Limit \in Nat /\ MaxWindow \in Nat
    /\ MaxEstimate \in Nat /\ Estimate \in [Calls -> 0..MaxEstimate]
    /\ MaxRetries \in [Calls -> Nat]
    /\ MaxFaults \in Nat /\ MaxWebhookFaults \in Nat

VARIABLES storage, pending, url, object, row, snapshots, profile, call, task, used, calm, replaced, lost,
          policies, cache, reader, writer, changes,
          append_only, hook, fan, delivery, rows, notify, answers, told, unheard, faults,
          counter, now, ask, cached, spent, excess, failures, part

fileVars == <<storage, pending, url, object, row, snapshots, profile, call, task, used, calm, replaced, lost>>
policyVars == <<policies, cache, reader, writer, changes>>
outboundVars == <<append_only, hook, fan, delivery, rows, notify, answers, told, unheard, faults>>
budgetVars == <<counter, now, ask, cached, spent, excess, failures>>
vars == <<fileVars, policyVars, outboundVars, budgetVars, part>>

F == INSTANCE Files
P == INSTANCE ColumnPolicies
\* The tasks of webhooks and of notifications do not meet.
W == INSTANCE Outbound WITH task <- delivery, Channels <- {}, MaxFaults <- MaxWebhookFaults
N == INSTANCE Outbound WITH task <- delivery, Hooks <- {}, Deliveries <- {}
B == INSTANCE TokenBudget WITH used <- counter, call <- ask, faults <- failures

\* A file that has been uploaded, with or without its profile task.
Uploaded ==
  /\ storage = "local"
  /\ pending = FALSE /\ object = "good" /\ row = "good" /\ snapshots = <<"good">> /\ profile = None
  /\ call = [k \in Clients |-> F!Idle]
  /\ \E queued \in {{}} \cup {{t} : t \in Tasks} :
       task = [t \in Tasks |-> [pc |-> IF t \in queued THEN "queued" ELSE "none", of |-> None, tries |-> 0]]
  /\ url = FALSE /\ used = TRUE /\ calm = TRUE /\ replaced = FALSE /\ lost = FALSE

Init ==
  /\ part \in {"files", "profile", "policies", "webhooks", "notifications", "budget"}
  /\ IF part = "profile" THEN Uploaded ELSE F!Init
  /\ part # "files" => storage = "local"
  /\ P!Init /\ B!Init
  /\ IF part = "notifications" THEN N!Init ELSE W!Init
  /\ part # "webhooks" => append_only

\* Overlapping requests without profile tasks, and the profile tasks of a file
\* beside one request at a time.
FilesNext ==
  \/ part = "files" /\ F!Next /\ task' = task
  \/ part = "profile" /\ F!Next /\ \A k \in Clients : k # (CHOOSE c \in Clients : TRUE) => call'[k] = call[k]

OutboundNext ==
  \/ part = "webhooks" /\ W!Next
  \/ part = "notifications" /\ N!Next

Next ==
  \/ FilesNext /\ UNCHANGED <<policyVars, outboundVars, budgetVars, part>>
  \/ part = "policies" /\ P!Next /\ UNCHANGED <<fileVars, outboundVars, budgetVars, part>>
  \/ OutboundNext /\ UNCHANGED <<fileVars, policyVars, budgetVars, part>>
  \/ part = "budget" /\ B!Next /\ UNCHANGED <<fileVars, policyVars, outboundVars, part>>

Spec == Init /\ [][Next]_vars /\ P!Fairness

\* See Files: what is shown of a file agrees, and no profile is left running.
FileIsConsistent == F!FileIsConsistent

\* See ColumnPolicies: readers are served the rows of the database in the end.
PoliciesSettle == P!PoliciesSettle

\* See Outbound: the end of a run is told once, but for faults and lost answers.
ToldOnce == IF part = "notifications" THEN N!ToldOnce ELSE W!ToldOnce

\* See Outbound: the delivery history shows what happened.
HistoryIsTruthful == IF part = "notifications" THEN N!HistoryIsTruthful ELSE W!HistoryIsTruthful

\* See TokenBudget: what is used stays within the budget.
BudgetHolds == B!BudgetHolds
==============================================================================
