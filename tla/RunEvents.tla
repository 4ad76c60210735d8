----------------------------- MODULE RunEvents -----------------------------
(***************************************************************************)
(* How watchers of a run learn about its progress and its end.             *)
(*                                                                         *)
(* Whoever changes the run publishes an event on its Redis channel and     *)
(* then caches the same payload as the latest one (two Redis calls).  The  *)
(* publishers are the worker, in the order of execute_pipeline_task, and   *)
(* one other: the cancel endpoint or the reconciler.  The SSE endpoint     *)
(* reads the run's status, then subscribes, then reads the cache, then     *)
(* forwards what arrives, and closes the stream after an event it takes    *)
(* for terminal.  The browser hook closes for good on the three pipeline   *)
(* events and reconnects otherwise.                                        *)
(*                                                                         *)
(* The cancel endpoint revokes the task before it commits CANCELLED: the   *)
(* worker's process may be killed at any point after that, or never.  The  *)
(* races between the writers of the status are the subject of RunLifecycle.*)
(* A payload is its event_type ("none" in a step's payload) and its status.*)
(***************************************************************************)
EXTENDS Naturals, Sequences

CONSTANTS
    Clients,      \* browsers that watch the run
    StepCount,    \* steps of the pipeline
    MaxLost       \* bound on faults: failing Redis calls, broken connections, dead
                  \* workers, and the cached payload expiring (3600 s)

ASSUME ConstantsAssumption == StepCount \in Nat \ {0} /\ MaxLost \in Nat

VARIABLES
    status,   \* pipeline_runs.status
    over,     \* history: a final status has been committed
    task,     \* what the worker does next
    step,     \* the step it is at
    healed,   \* has it entered healing?
    other,    \* progress of the cancel endpoint or the reconciler
    revoked,  \* the order to kill the task is out
    unmarked, \* history: the worker announced a failure it could not commit
    out,      \* per publisher: the payload that is published but not cached
    cache,    \* the cached payload
    stale,    \* history: a payload of the worker was cached over the end of the run
    stream,   \* per client: state of its connection
    inbox,    \* per client: messages of its subscription
    missed,   \* history, per client: subscribed after the last event was published
              \* and read a cache to which that event was not written yet, or which
              \* the worker had overwritten since
    lost      \* faults so far

runVars    == <<status, over, task, step, healed, other, revoked, unmarked>>
controlVars == <<other, revoked, unmarked>>
clientVars == <<stream, inbox, missed>>
vars == <<runVars, out, cache, stale, clientVars, lost>>

-----------------------------------------------------------------------------

Final == {"HEALED", "COMPLETED", "CONTRACT_VIOLATION", "FAILED", "CANCELLED",
          "TIMEOUT"}

\* Mutant: a healing run counts as over.
TerminalStatusesHealing == Final \union {"HEALING"}
TERMINAL_STATUSES == {"HEALED", "COMPLETED", "FAILED", "CANCELLED", "TIMEOUT"}
PipelineEvents    == {"pipeline_completed", "pipeline_failed", "pipeline_cancelled"}
TERMINAL_EVENT_TYPES == PipelineEvents \union {"stream_end"}

Payload(type, st) == [type |-> type, status |-> st]
NoPayload == Payload("none", "none")

\* The payload closes the stream.
IsTerminalEvent(e) == e.type \in TERMINAL_EVENT_TYPES \/ e.status \in TERMINAL_STATUSES

\* The event type under which a payload without one is sent.
StatusToEvent ==
    [HEALED |-> "pipeline_completed", RUNNING |-> "step_started",
     COMPLETED |-> "step_completed", FAILED |-> "step_failed",
     CANCELLED |-> "pipeline_cancelled", TIMEOUT |-> "pipeline_failed"]

ExtractEventType(e) ==
    IF e.type # "none" THEN e.type
    ELSE IF e.status \in DOMAIN StatusToEvent THEN StatusToEvent[e.status]
    ELSE "progress"

TerminalEventType(st) ==
    CASE st \in {"COMPLETED", "HEALED"} -> "pipeline_completed"
      [] st = "CANCELLED"               -> "pipeline_cancelled"
      [] OTHER                          -> "pipeline_failed"

Statuses == Final \union {"PENDING", "RUNNING", "HEALING", "none"}
Payloads == [type : {"none", "pipeline_started", "healing_started",
                     "healing_failed", "healing_complete", "healing_attempt_applied",
                     "healing_non_healable", "contract_violation"}
                       \union PipelineEvents,
             status : Statuses]
Publishers == {"worker", "other"}

TypeOK ==
    /\ status \in Statuses
    /\ over \in BOOLEAN
    /\ task \in {"queued", "next", "inStep", "failed", "healing", "done",
                 "violated", "committed", "raised", "stopped", "killed"}
    /\ step \in 1..(StepCount + 1)
    /\ task = "inStep" => step <= StepCount
    /\ healed \in BOOLEAN
    /\ other \in {"idle", "revoked", "cancelled", "reaped"}
    /\ revoked \in BOOLEAN
    /\ unmarked \in BOOLEAN
    /\ out \in [Publishers -> Payloads]
    /\ cache \in Payloads
    /\ stale \in BOOLEAN
    /\ stream \in [Clients -> {"closed", "opening", "subscribed", "live",
                               "dropped", "finished"}]
    /\ inbox \in [Clients -> Seq(Payloads)]
    /\ missed \in [Clients -> BOOLEAN]
    /\ lost \in 0..MaxLost

Init ==
    /\ status = "PENDING"
    /\ over = FALSE
    /\ task = "queued"
    /\ step = 1
    /\ healed = FALSE
    /\ other = "idle"
    /\ revoked = FALSE
    /\ unmarked = FALSE
    /\ out = [p \in Publishers |-> NoPayload]
    /\ cache = NoPayload
    /\ stale = FALSE
    /\ stream = [c \in Clients |-> "closed"]
    /\ inbox = [c \in Clients |-> <<>>]
    /\ missed = [c \in Clients |-> FALSE]
    /\ lost = 0

-----------------------------------------------------------------------------
(* Publishing.                                                             *)

Subscribed(c) == stream[c] \in {"subscribed", "live"}

\* PUBLISH reaches whoever is subscribed at that moment.
Deliver(e) ==
    inbox' = [c \in Clients |-> IF Subscribed(c) THEN Append(inbox[c], e)
                                                 ELSE inbox[c]]

\* A failed PUBLISH is logged; a progress payload is cached all the same, a
\* terminal one is not: its SETEX stands in the same try block.
Publish(p, e) ==
    /\ out[p] = NoPayload
    /\ \/ /\ Deliver(e)
          /\ out' = [out EXCEPT ![p] = e]
          /\ UNCHANGED lost
       \/ /\ lost < MaxLost
          /\ lost' = lost + 1
          /\ out' = [out EXCEPT ![p] = IF e.type \in PipelineEvents
                                       THEN NoPayload ELSE e]
          /\ UNCHANGED inbox
    /\ UNCHANGED <<cache, stale, stream, missed>>

\* The event is one of the three that end a run.
Ends(e) == e.type \in PipelineEvents

CacheProgressPayload(p) ==
    /\ out[p] # NoPayload
    /\ out' = [out EXCEPT ![p] = NoPayload]
    /\ \/ /\ cache' = out[p]
          /\ stale' = ((stale \/ Ends(cache)) /\ ~Ends(out[p]))
          /\ UNCHANGED lost
       \/ lost < MaxLost /\ lost' = lost + 1 /\ UNCHANGED <<cache, stale>>
    /\ UNCHANGED <<runVars, clientVars>>

ExpireCache ==
    /\ over
    /\ cache # NoPayload
    /\ lost < MaxLost
    /\ lost' = lost + 1
    /\ cache' = NoPayload
    /\ UNCHANGED <<runVars, out, stale, clientVars>>

-----------------------------------------------------------------------------
(* The worker.                                                             *)

Idle(p) == out[p] = NoPayload

\* _mark_running commits RUNNING and caches pipeline_started, unpublished.
Start ==
    /\ task = "queued"
    /\ \/ /\ status = "PENDING"
          /\ status' = "RUNNING"
          /\ task' = "next"
          /\ out' = [out EXCEPT !["worker"] = Payload("pipeline_started", "RUNNING")]
       \/ /\ status # "PENDING"
          /\ task' = "stopped"
          /\ UNCHANGED <<status, out>>
    /\ UNCHANGED <<over, step, healed, controlVars, cache, stale, clientVars, lost>>

StepStarts ==
    /\ task = "next"
    /\ step <= StepCount
    /\ task' = "inStep"
    /\ Publish("worker", Payload("none", "RUNNING"))
    /\ UNCHANGED <<status, over, step, healed, controlVars>>

StepCompletes ==
    /\ task = "inStep"
    /\ step' = step + 1
    /\ task' = IF step = StepCount /\ ~healed THEN "done" ELSE "next"
    /\ Publish("worker", Payload("none", "COMPLETED"))
    /\ UNCHANGED <<status, over, healed, controlVars>>

StepFails ==
    /\ task = "inStep"
    /\ task' = "failed"
    /\ Publish("worker", Payload("none", "FAILED"))
    /\ UNCHANGED <<status, over, step, healed, controlVars>>

\* Healing is switched off: the failure stands.
HealingDisabled ==
    /\ task = "failed"
    /\ ~healed
    /\ Idle("worker")
    /\ task' = "done"
    /\ UNCHANGED <<status, over, step, healed, controlVars, out, cache, stale, clientVars, lost>>

\* The payload carries the status the row has by now.
NotHealable ==
    /\ task = "failed"
    /\ ~healed
    /\ task' = "done"
    /\ Publish("worker", Payload("healing_non_healable", status))
    /\ UNCHANGED <<status, over, step, healed, controlVars>>

\* HEALING is committed whatever the row holds, then published.
HealStarts ==
    /\ task = "failed"
    /\ ~healed
    /\ task' = "healing"
    /\ status' = "HEALING"
    /\ Publish("worker", Payload("healing_started", "HEALING"))
    /\ UNCHANGED <<over, step, healed, controlVars>>

\* No patch was found, or the patched pipeline failed as well.
HealFails ==
    /\ task = "healing" \/ (task = "failed" /\ healed)
    /\ task' = "done"
    /\ Publish("worker", Payload("healing_failed", "FAILED"))
    /\ UNCHANGED <<status, over, step, healed, controlVars>>

\* The patched pipeline runs again from its first step.
HealApplies ==
    /\ task = "healing"
    /\ task' = "next"
    /\ step' = 1
    /\ healed' = TRUE
    /\ Publish("worker", Payload("healing_attempt_applied", "HEALING"))
    /\ UNCHANGED <<status, over, controlVars>>

\* HEALED is committed and published before the results are.
HealSucceeds ==
    /\ task = "next"
    /\ healed
    /\ step > StepCount
    /\ task' = "done"
    /\ status' = "HEALED"
    /\ over' = TRUE
    /\ Publish("worker", Payload("healing_complete", "HEALED"))
    /\ UNCHANGED <<step, healed, controlVars>>

\* A step's contract was violated: published, never cached (one event stands for all).
ViolationFound ==
    /\ task = "done"
    /\ step > StepCount
    /\ Idle("worker")
    /\ task' = "violated"
    /\ \/ Deliver(Payload("contract_violation", "none")) /\ UNCHANGED lost
       \/ lost < MaxLost /\ lost' = lost + 1 /\ UNCHANGED inbox
    /\ UNCHANGED <<status, over, step, healed, controlVars, out, cache, stale, stream, missed>>

\* _persist_results: a cancelled run stays cancelled; the data contract of the
\* pipeline is checked after those of the steps.
Outcomes ==
    IF status = "CANCELLED" THEN {"CANCELLED"}
    ELSE IF step <= StepCount THEN {"FAILED"}
    ELSE {"CONTRACT_VIOLATION"} \union
         (IF task = "violated" THEN {} ELSE {IF healed THEN "HEALED" ELSE "COMPLETED"})

PersistResults ==
    /\ task \in {"done", "violated"}
    /\ Idle("worker")
    /\ status' \in Outcomes
    /\ over' = TRUE
    /\ task' = "committed"
    /\ UNCHANGED <<step, healed, controlVars, out, cache, stale, clientVars, lost>>

\* An exception or the soft time limit: _mark_failed commits FAILED and caches
\* the event; when that fails as well the row is left as it was.
TaskFails ==
    /\ task \notin {"queued", "committed", "raised", "stopped", "killed"}
    /\ lost < MaxLost
    /\ lost' = lost + 1
    /\ task' = "raised"
    /\ \/ /\ status' = "FAILED"
          /\ over' = TRUE
          /\ out' = [out EXCEPT !["worker"] = Payload("pipeline_failed", "FAILED")]
          /\ UNCHANGED unmarked
       \/ /\ unmarked' = TRUE
          /\ out' = [out EXCEPT !["worker"] = NoPayload]
          /\ UNCHANGED <<status, over>>
    /\ UNCHANGED <<step, healed, other, revoked, cache, stale, clientVars>>

\* Either way the failure is published next.
PublishFailure ==
    /\ task = "raised"
    /\ task' = "stopped"
    /\ Publish("worker", Payload("pipeline_failed", "FAILED"))
    /\ UNCHANGED <<status, over, step, healed, controlVars>>

\* Mutant: the terminal event is published and not cached.
PublishTerminalUncached ==
    /\ task = "committed"
    /\ Idle("worker")
    /\ task' = "stopped"
    /\ Deliver(Payload(TerminalEventType(status), status))
    /\ UNCHANGED <<status, over, step, healed, controlVars, out, cache, stale, stream, missed, lost>>

\* The event names what the worker decided, its status what the row holds.
PublishTerminal ==
    /\ task = "committed"
    /\ task' = "stopped"
    /\ Publish("worker",
               Payload(IF status = "CONTRACT_VIOLATION" THEN "pipeline_completed"
                       ELSE TerminalEventType(status), status))
    /\ UNCHANGED <<status, over, step, healed, controlVars>>

\* The worker process dies, or the message is lost before one takes it.
WorkerDies ==
    /\ task \notin {"stopped", "killed"}
    /\ lost < MaxLost
    /\ lost' = lost + 1
    /\ task' = "killed"
    /\ out' = [out EXCEPT !["worker"] = NoPayload]
    /\ UNCHANGED <<status, over, step, healed, controlVars, cache, stale, clientVars>>

\* revoke(terminate=True, signal="SIGTERM") reaches the worker: no fault, the
\* ordinary end of a cancelled run.
Terminate ==
    /\ revoked
    /\ task \notin {"stopped", "killed"}
    /\ task' = "killed"
    /\ out' = [out EXCEPT !["worker"] = NoPayload]
    /\ UNCHANGED <<status, over, step, healed, controlVars, cache, stale, clientVars,
                   lost>>

-----------------------------------------------------------------------------
(* The cancel endpoint and the reconciler.                                 *)

\* The endpoint checks the status and revokes the task ...
RevokeTask ==
    /\ other = "idle"
    /\ Idle("other")
    /\ status \in {"PENDING", "RUNNING"}
    /\ other' = "revoked"
    /\ revoked' = TRUE
    /\ UNCHANGED <<status, over, task, step, healed, unmarked, out, cache, stale,
                   clientVars, lost>>

\* ... and then overwrites the status, whatever it is by now.
CancelRun ==
    /\ other = "revoked"
    /\ status' = "CANCELLED"
    /\ over' = TRUE
    /\ other' = "cancelled"
    /\ UNCHANGED <<task, step, healed, revoked, unmarked, out, cache, stale, clientVars,
                   lost>>

\* The endpoint's commit fails, or its process dies after the revocation.
CancelFails ==
    /\ other = "revoked"
    /\ lost < MaxLost
    /\ lost' = lost + 1
    /\ other' = "idle"
    /\ UNCHANGED <<status, over, task, step, healed, revoked, unmarked, out, cache,
                   stale, clientVars>>

ReapRun ==
    /\ other = "idle"
    /\ Idle("other")
    /\ task \in {"stopped", "killed"}
    /\ status \in {"PENDING", "RUNNING", "HEALING"}
    /\ status' = "TIMEOUT"
    /\ over' = TRUE
    /\ other' = "reaped"
    /\ UNCHANGED <<task, step, healed, revoked, unmarked, out, cache, stale, clientVars,
                   lost>>

\* Mutant: the status is changed and nobody is told.
OtherStaysSilent ==
    /\ other \in {"cancelled", "reaped"}
    /\ other' = "idle"
    /\ UNCHANGED <<status, over, task, step, healed, revoked, unmarked, out, cache, stale,
                   clientVars, lost>>

OtherPublishes ==
    /\ other \in {"cancelled", "reaped"}
    /\ other' = "idle"
    /\ Publish("other", IF other = "cancelled"
                        THEN Payload("pipeline_cancelled", "CANCELLED")
                        ELSE Payload("pipeline_failed", "TIMEOUT"))
    /\ UNCHANGED <<status, over, task, step, healed, revoked, unmarked>>

-----------------------------------------------------------------------------
(* A client: the SSE endpoint on its behalf, and the browser hook.         *)

\* What the browser does with an event that closed its stream.
AfterClose(type) == IF type \in PipelineEvents THEN "finished" ELSE "dropped"

\* The endpoint reads the status; a finished run is answered at once.
Connect(c) ==
    /\ stream[c] \in {"closed", "dropped"}
    /\ stream' = [stream EXCEPT ![c] =
                    IF status \in TERMINAL_STATUSES
                    THEN AfterClose(TerminalEventType(status)) ELSE "opening"]
    /\ UNCHANGED <<runVars, out, cache, stale, inbox, missed, lost>>

Subscribe(c) ==
    /\ stream[c] = "opening"
    /\ stream' = [stream EXCEPT ![c] = "subscribed"]
    /\ UNCHANGED <<runVars, out, cache, stale, inbox, missed, lost>>

\* A terminal event is published and not yet cached, and c did not get it.
InTheGap(c) ==
    /\ \E p \in Publishers : Ends(out[p])
    /\ \A i \in DOMAIN inbox[c] : ~Ends(inbox[c][i])

\* The event e is sent to c; a terminal one is followed by stream_end, and the
\* subscription is given up.
Send(c, e, queue) ==
    IF IsTerminalEvent(e)
    THEN /\ stream' = [stream EXCEPT ![c] = AfterClose(ExtractEventType(e))]
         /\ inbox' = [inbox EXCEPT ![c] = <<>>]
    ELSE /\ stream' = [stream EXCEPT ![c] = "live"]
         /\ inbox' = [inbox EXCEPT ![c] = queue]

\* The cached payload is sent first; without one the status, which ends nothing.
ReadCache(c) ==
    /\ stream[c] = "subscribed"
    /\ Send(c, cache, inbox[c])
    /\ missed' = [missed EXCEPT ![c] = InTheGap(c) \/ stale]
    /\ UNCHANGED <<runVars, out, cache, stale, lost>>

Receive(c) ==
    /\ stream[c] = "live"
    /\ inbox[c] # <<>>
    /\ Send(c, Head(inbox[c]), Tail(inbox[c]))
    /\ UNCHANGED <<runVars, out, cache, stale, missed, lost>>

\* The connection breaks; the hook's onerror handler will reconnect.
Disconnect(c) ==
    /\ stream[c] \in {"opening", "subscribed", "live"}
    /\ lost < MaxLost
    /\ lost' = lost + 1
    /\ stream' = [stream EXCEPT ![c] = "dropped"]
    /\ inbox' = [inbox EXCEPT ![c] = <<>>]
    /\ UNCHANGED <<runVars, out, cache, stale, missed>>

-----------------------------------------------------------------------------

Work == \/ Start \/ StepStarts \/ StepCompletes \/ StepFails \/ HealStarts
        \/ HealingDisabled \/ NotHealable \/ HealFails \/ HealApplies \/ HealSucceeds
        \/ ViolationFound \/ PersistResults
        \/ PublishTerminal \/ PublishFailure \/ CacheProgressPayload("worker")
Others == RevokeTask \/ CancelRun \/ ReapRun \/ OtherPublishes \/ CacheProgressPayload("other")
Watch(c) == Connect(c) \/ Subscribe(c) \/ ReadCache(c) \/ Receive(c)

Next == \/ Work \/ TaskFails \/ WorkerDies \/ Terminate \/ Others \/ CancelFails
        \/ ExpireCache
        \/ \E c \in Clients : Watch(c) \/ Disconnect(c)

Fairness ==
    /\ WF_vars(Work)
    /\ WF_vars(CancelRun) /\ WF_vars(ReapRun) /\ WF_vars(OtherPublishes)
    /\ WF_vars(CacheProgressPayload("other"))
    /\ \A c \in Clients : WF_vars(Watch(c))

Spec == Init /\ [][Next]_vars
FairSpec == Spec /\ Fairness

-----------------------------------------------------------------------------
(* Properties.                                                             *)

\* No browser is told that the run ended, by whatever path the news reached it
\* (status, cache or channel), before a final status was committed; except by a
\* worker that could not commit the failure which it announces all the same.
ToldOnlyAfterCommit ==
    \A c \in Clients : stream[c] = "finished" => over \/ unmarked

\* The event e makes the browser stop watching.
Tells(e) == ExtractEventType(e) \in PipelineEvents

\* Why that holds: before a final status is committed no part of the system holds
\* an event, or is in a state, from which the news of the end could reach a browser.
NoNewsBeforeEnd ==
    ~over /\ ~unmarked =>
             /\ status \notin Final
             /\ task \notin {"committed", "raised"}
             /\ other \notin {"cancelled", "reaped"}
             /\ \A p \in Publishers : ~Tells(out[p])
             /\ ~Tells(cache)
             /\ \A c \in Clients : /\ stream[c] # "finished"
                                   /\ \A i \in DOMAIN inbox[c] : ~Tells(inbox[c][i])

Quiet == /\ status \in Final /\ task \in {"stopped", "killed"} /\ other = "idle"
         /\ \A p \in Publishers : out[p] = NoPayload

\* Unless something failed or expired, once everybody who writes to the cache is
\* done it holds an event that ends a stream: the order in which the worker and
\* the cancel endpoint write to it does not leave an old step's payload there, and
\* neither does the kill of a cancelled run's worker, unless that worker got to
\* write a step's payload over the event of the cancellation before it died.
CacheSettles ==
    Quiet /\ lost = 0 => Ends(cache) \/ (stale /\ task = "killed")

\* Without faults every browser that connects is told of the end in the end, also
\* when a step's payload closed its stream before, and also when the run is
\* cancelled and its worker killed; unless the browser fell in the gap.
StreamEnds ==
    \A c \in Clients :
        stream[c] = "opening" ~> (stream[c] = "finished" \/ missed[c] \/ lost > 0)

-----------------------------------------------------------------------------
(* What documentation or comments say and this model refutes (see README).  *)

\* "Subscribe to Redis and yield SSE events until pipeline completes": every
\* browser that connects is told of the end.
StreamAlwaysEnds ==
    \A c \in Clients : stream[c] = "opening" ~> stream[c] = "finished"

\* "stream_end closure on terminal states": the server closes a stream only when
\* the run has reached a final status (with MaxLost = 0 nothing else drops one).
ClosedOnlyAtEnd ==
    \A c \in Clients : stream[c] \in {"dropped", "finished"} => over
=============================================================================
