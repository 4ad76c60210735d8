-------------------------- MODULE RunEventsProofs --------------------------
(***************************************************************************)
(* No browser is told of the end of a run before the end is committed, and *)
(* once all is quiet the cache holds the end.                              *)
(*                                                                         *)
(* over never becomes false again, so that only steps that start and end   *)
(* before the run is over have to be looked at: NoNewsBeforeEnd says what  *)
(* such a state cannot hold.  For the cache, SettleInv says who still has  *)
(* to write the end to it, or that it is there (see the second part).      *)
(***************************************************************************)
EXTENDS RunEvents, TLAPS

\* What is known of a state before the end.
NoNews ==
    /\ status \notin Final
    /\ task \notin {"committed", "raised"}
    /\ other \notin {"cancelled", "reaped"}
    /\ \A p \in Publishers : ~Tells(out[p])
    /\ ~Tells(cache)
    /\ \A c \in Clients : /\ stream[c] # "finished"
                          /\ \A i \in DOMAIN inbox[c] : ~Tells(inbox[c][i])

\* A payload whose type is given and is not one of the three pipeline events,
\* or a step's payload, is no news: _extract_event_type.
LEMMA StepPayloadIsNoNews ==
    /\ \A st \in {"RUNNING", "COMPLETED", "FAILED", "none"} : ~Tells(Payload("none", st))
    /\ \A st \in Statuses :
          \A ty \in {"pipeline_started", "healing_started", "healing_failed",
                     "healing_complete", "healing_attempt_applied",
                     "healing_non_healable", "contract_violation"} :
             ~Tells(Payload(ty, st))
  BY DEF Tells, Payload, ExtractEventType, PipelineEvents, StatusToEvent

LEMMA PayloadType == \A e \in Payloads : e = Payload(e.type, e.status)
  BY DEF Payloads, Payload

LEMMA NoPayloadIsPayload == NoPayload \in Payloads /\ ~Tells(NoPayload)
  BY StepPayloadIsNoNews DEF NoPayload, Payloads, Payload, Statuses

\* What PUBLISH does to the inboxes.
LEMMA DeliverTypes ==
    ASSUME inbox \in [Clients -> Seq(Payloads)], NEW e \in Payloads,
           Deliver(e) \/ UNCHANGED inbox
    PROVE  /\ inbox' \in [Clients -> Seq(Payloads)]
           /\ \A c \in Clients : inbox'[c] = inbox[c] \/ inbox'[c] = Append(inbox[c], e)
  <1>1. CASE UNCHANGED inbox BY <1>1
  <1>2. CASE Deliver(e)
    <2>1. \A c \in Clients : Append(inbox[c], e) \in Seq(Payloads) OBVIOUS
    <2>2. \A c \in Clients : (IF Subscribed(c) THEN Append(inbox[c], e) ELSE inbox[c])
                             \in Seq(Payloads)
      BY <2>1
    <2>3. inbox' \in [Clients -> Seq(Payloads)] BY <1>2, <2>2 DEF Deliver
    <2>4. \A c \in Clients : inbox'[c] = inbox[c] \/ inbox'[c] = Append(inbox[c], e)
      BY <1>2 DEF Deliver
    <2> QED BY <2>3, <2>4
  <1> QED BY <1>1, <1>2

\* An event that is no news leaves the inboxes without news.
LEMMA DeliverNoNews ==
    ASSUME inbox \in [Clients -> Seq(Payloads)], NEW e \in Payloads, ~Tells(e),
           Deliver(e) \/ UNCHANGED inbox,
           \A c \in Clients : \A i \in DOMAIN inbox[c] : ~Tells(inbox[c][i])
    PROVE  \A c \in Clients : \A i \in DOMAIN inbox'[c] : ~Tells(inbox'[c][i])
  <1> SUFFICES ASSUME NEW c \in Clients, NEW i \in DOMAIN inbox'[c]
               PROVE  ~Tells(inbox'[c][i])
    OBVIOUS
  <1>1. inbox'[c] = inbox[c] \/ inbox'[c] = Append(inbox[c], e) BY DeliverTypes
  <1>2. CASE inbox'[c] = inbox[c] BY <1>2
  <1>3. CASE inbox'[c] = Append(inbox[c], e)
    <2>1. i \in 1..(Len(inbox[c]) + 1) BY <1>3
    <2>2. Append(inbox[c], e)[i] = IF i = Len(inbox[c]) + 1 THEN e ELSE inbox[c][i]
      BY <2>1
    <2> QED BY <1>3, <2>1, <2>2
  <1> QED BY <1>1, <1>2, <1>3

\* What _publish_progress_payload and _publish_terminal_event do to the variables.
LEMMA PublishTypes ==
    ASSUME TypeOK, NEW p \in Publishers, NEW e \in Payloads, Publish(p, e)
    PROVE  /\ out' \in [Publishers -> Payloads]
           /\ inbox' \in [Clients -> Seq(Payloads)]
           /\ lost' \in 0..MaxLost
           /\ cache' \in Payloads
           /\ stale' \in BOOLEAN
           /\ stream' = stream
           /\ missed' = missed
  <1>1. out' \in [Publishers -> Payloads]
    BY NoPayloadIsPayload DEF TypeOK, Publish
  <1>2. inbox' \in [Clients -> Seq(Payloads)]
    BY DeliverTypes DEF TypeOK, Publish
  <1>3. lost' \in 0..MaxLost
    BY ConstantsAssumption DEF TypeOK, Publish
  <1>4. /\ cache' \in Payloads /\ stale' \in BOOLEAN
        /\ stream' = stream /\ missed' = missed
    BY DEF TypeOK, Publish
  <1> QED BY <1>1, <1>2, <1>3, <1>4

LEMMA PublishNoNews ==
    ASSUME TypeOK, NoNews, NEW p \in Publishers, NEW e \in Payloads, ~Tells(e),
           Publish(p, e)
    PROVE  /\ \A q \in Publishers : ~Tells(out'[q])
           /\ ~Tells(cache')
           /\ \A c \in Clients : /\ stream'[c] # "finished"
                                 /\ \A i \in DOMAIN inbox'[c] : ~Tells(inbox'[c][i])
  <1>1. \A q \in Publishers : ~Tells(out'[q])
    BY NoPayloadIsPayload DEF TypeOK, NoNews, Publish
  <1>2. \A c \in Clients : \A i \in DOMAIN inbox'[c] : ~Tells(inbox'[c][i])
    BY DeliverNoNews DEF TypeOK, NoNews, Publish
  <1>3. ~Tells(cache') /\ \A c \in Clients : stream'[c] # "finished"
    BY DEF NoNews, Publish, Tells
  <1> QED BY <1>1, <1>2, <1>3

-----------------------------------------------------------------------------
(* Types.                                                                  *)

LEMMA PayloadsClosed ==
    \A ty \in {"none", "pipeline_started", "healing_started", "healing_failed",
               "healing_complete", "healing_attempt_applied", "healing_non_healable",
               "contract_violation"} \union PipelineEvents :
       \A st \in Statuses : Payload(ty, st) \in Payloads
  BY DEF Payload, Payloads

LEMMA StatusesKnown ==
    /\ {"none", "PENDING", "RUNNING", "HEALING"} \subseteq Statuses
    /\ Final \subseteq Statuses
    /\ {"HEALED", "COMPLETED", "CONTRACT_VIOLATION", "FAILED", "CANCELLED", "TIMEOUT"} = Final
    /\ \A st : TerminalEventType(st) \in PipelineEvents
    /\ PipelineEvents = {"pipeline_completed", "pipeline_failed", "pipeline_cancelled"}
  BY DEF Statuses, Final, TerminalEventType, PipelineEvents

\* The states of a connection that a closed stream leads to.
LEMMA AfterCloseKnown == \A ty : AfterClose(ty) \in {"finished", "dropped"}
  BY DEF AfterClose

LEMMA TypeInit == Init => TypeOK
  <1> SUFFICES ASSUME Init PROVE TypeOK
    OBVIOUS
  <1>1. status \in Statuses /\ step \in 1..(StepCount + 1) /\ lost \in 0..MaxLost
    BY StatusesKnown, ConstantsAssumption DEF Init
  <1>2. out \in [Publishers -> Payloads] /\ cache \in Payloads
    BY NoPayloadIsPayload DEF Init
  <1>3. inbox \in [Clients -> Seq(Payloads)]
    BY DEF Init
  <1>4. /\ stream \in [Clients -> {"closed", "opening", "subscribed", "live",
                                 "dropped", "finished"}]
        /\ missed \in [Clients -> BOOLEAN]
    BY DEF Init
  <1> QED BY <1>1, <1>2, <1>3, <1>4 DEF Init, TypeOK

\* Sending an event to a client keeps its connection and its inbox well typed.
LEMMA SendTypes ==
    ASSUME TypeOK, NEW c \in Clients, NEW e, NEW q \in Seq(Payloads), Send(c, e, q)
    PROVE  /\ stream' \in [Clients -> {"closed", "opening", "subscribed", "live",
                                      "dropped", "finished"}]
           /\ inbox' \in [Clients -> Seq(Payloads)]
  <1>1. AfterClose(ExtractEventType(e)) \in {"finished", "dropped"} BY AfterCloseKnown
  <1>2. <<>> \in Seq(Payloads) OBVIOUS
  <1>3. CASE IsTerminalEvent(e) BY <1>1, <1>2, <1>3 DEF Send, TypeOK
  <1>4. CASE ~IsTerminalEvent(e) BY <1>4 DEF Send, TypeOK
  <1> QED BY <1>3, <1>4

LEMMA TypeStep == TypeOK /\ [Next]_vars => TypeOK'
  <1> SUFFICES ASSUME TypeOK, [Next]_vars PROVE TypeOK'
    OBVIOUS
  <1> USE StatusesKnown, PayloadsClosed, ConstantsAssumption DEF controlVars
  <1>a. "worker" \in Publishers /\ "other" \in Publishers BY DEF Publishers
  <1>1. CASE StepStarts
    <2>1. Publish("worker", Payload("none", "RUNNING")) BY <1>1 DEF StepStarts
    <2>2. Payload("none", "RUNNING") \in Payloads BY DEF TypeOK
    <2> QED BY <1>1, <1>a, <2>1, <2>2, PublishTypes DEF StepStarts, TypeOK
  <1>2. CASE StepCompletes
    <2>1. Publish("worker", Payload("none", "COMPLETED")) BY <1>2 DEF StepCompletes
    <2>2. Payload("none", "COMPLETED") \in Payloads BY DEF TypeOK
    <2> QED BY <1>2, <1>a, <2>1, <2>2, PublishTypes DEF StepCompletes, TypeOK
  <1>3. CASE StepFails
    <2>1. Publish("worker", Payload("none", "FAILED")) BY <1>3 DEF StepFails
    <2>2. Payload("none", "FAILED") \in Payloads BY DEF TypeOK
    <2> QED BY <1>3, <1>a, <2>1, <2>2, PublishTypes DEF StepFails, TypeOK
  <1>4. CASE NotHealable
    <2>1. Publish("worker", Payload("healing_non_healable", status)) BY <1>4 DEF NotHealable
    <2>2. Payload("healing_non_healable", status) \in Payloads BY DEF TypeOK
    <2> QED BY <1>4, <1>a, <2>1, <2>2, PublishTypes DEF NotHealable, TypeOK
  <1>5. CASE HealStarts
    <2>1. Publish("worker", Payload("healing_started", "HEALING")) BY <1>5 DEF HealStarts
    <2>2. Payload("healing_started", "HEALING") \in Payloads BY DEF TypeOK
    <2> QED BY <1>5, <1>a, <2>1, <2>2, PublishTypes DEF HealStarts, TypeOK
  <1>6. CASE HealFails
    <2>1. Publish("worker", Payload("healing_failed", "FAILED")) BY <1>6 DEF HealFails
    <2>2. Payload("healing_failed", "FAILED") \in Payloads BY DEF TypeOK
    <2> QED BY <1>6, <1>a, <2>1, <2>2, PublishTypes DEF HealFails, TypeOK
  <1>7. CASE HealApplies
    <2>1. Publish("worker", Payload("healing_attempt_applied", "HEALING")) BY <1>7 DEF HealApplies
    <2>2. Payload("healing_attempt_applied", "HEALING") \in Payloads BY DEF TypeOK
    <2> QED BY <1>7, <1>a, <2>1, <2>2, PublishTypes DEF HealApplies, TypeOK
  <1>8. CASE HealSucceeds
    <2>1. Publish("worker", Payload("healing_complete", "HEALED")) BY <1>8 DEF HealSucceeds
    <2>2. Payload("healing_complete", "HEALED") \in Payloads BY DEF TypeOK
    <2> QED BY <1>8, <1>a, <2>1, <2>2, PublishTypes DEF HealSucceeds, TypeOK
  <1>9. CASE PublishTerminal
    <2> DEFINE ty == IF status = "CONTRACT_VIOLATION" THEN "pipeline_completed"
                     ELSE TerminalEventType(status)
    <2>1. Publish("worker", Payload(ty, status)) BY <1>9 DEF PublishTerminal
    <2>2. Payload(ty, status) \in Payloads BY DEF TypeOK
    <2> HIDE DEF ty
    <2> QED BY <1>9, <1>a, <2>1, <2>2, PublishTypes DEF PublishTerminal, TypeOK
  <1>10. CASE OtherPublishes
    <2>1. PICK e \in Payloads : Publish("other", e)
      BY <1>10 DEF OtherPublishes
    <2> QED BY <1>10, <1>a, <2>1, PublishTypes DEF OtherPublishes, TypeOK
  <1>11. CASE ViolationFound
    <2>1. Deliver(Payload("contract_violation", "none")) \/ UNCHANGED inbox
      BY <1>11 DEF ViolationFound
    <2>2. inbox' \in [Clients -> Seq(Payloads)]
      BY <2>1, DeliverTypes DEF TypeOK
    <2> QED BY <1>11, <2>2 DEF ViolationFound, TypeOK
  <1>12. CASE Start
    <2>1. out' \in [Publishers -> Payloads]
      BY <1>12, <1>a DEF Start, TypeOK
    <2> QED BY <1>12, <2>1 DEF Start, TypeOK, clientVars
  <1>13. CASE HealingDisabled
    BY <1>13, <1>a, NoPayloadIsPayload DEF HealingDisabled, TypeOK, runVars, clientVars
  <1>14. CASE TaskFails
    <2>a. Payload("pipeline_failed", "FAILED") \in Payloads OBVIOUS
    <2>b. out' \in [Publishers -> Payloads]
      BY <1>14, <1>a, <2>a, NoPayloadIsPayload DEF TaskFails, TypeOK
    <2>c. lost' \in 0..MaxLost BY <1>14 DEF TaskFails, TypeOK
    <2>d. status' \in Statuses /\ task' = "raised" BY <1>14 DEF TaskFails, TypeOK
    <2>1. /\ out' \in [Publishers -> Payloads] /\ lost' \in 0..MaxLost
          /\ status' \in Statuses /\ task' = "raised"
      BY <2>b, <2>c, <2>d
    <2>2. over' \in BOOLEAN /\ unmarked' \in BOOLEAN BY <1>14 DEF TaskFails, TypeOK
    <2> QED BY <1>14, <2>1, <2>2 DEF TaskFails, TypeOK, clientVars
  <1>15. CASE WorkerDies \/ Terminate
    <2>1. out' \in [Publishers -> Payloads] /\ lost' \in 0..MaxLost /\ task' = "killed"
      BY <1>15, <1>a, NoPayloadIsPayload DEF WorkerDies, Terminate, TypeOK
    <2>2. UNCHANGED <<status, over, step, healed, other, revoked, unmarked, cache, stale,
                      stream, inbox, missed>>
      BY <1>15 DEF WorkerDies, Terminate, clientVars
    <2> QED BY <2>1, <2>2 DEF TypeOK
  <1>16. CASE RevokeTask \/ CancelRun \/ CancelFails
    <2>1. /\ status' \in Statuses /\ lost' \in 0..MaxLost
          /\ other' \in {"idle", "revoked", "cancelled"}
      BY <1>16 DEF RevokeTask, CancelRun, CancelFails, TypeOK
    <2>2. over' \in {over, TRUE} /\ revoked' \in {revoked, TRUE}
      BY <1>16 DEF RevokeTask, CancelRun, CancelFails
    <2>3. UNCHANGED <<task, step, healed, unmarked, out, cache, stale, stream, inbox, missed>>
      BY <1>16 DEF RevokeTask, CancelRun, CancelFails, clientVars
    <2>4. over' \in BOOLEAN /\ revoked' \in BOOLEAN BY <2>2, Zenon DEF TypeOK
    <2> QED BY <2>1, <2>3, <2>4 DEF TypeOK
  <1>17. CASE ReapRun
    BY <1>17, <1>a, NoPayloadIsPayload DEF ReapRun, TypeOK, runVars, clientVars
  <1>18. CASE ExpireCache
    BY <1>18, <1>a, NoPayloadIsPayload DEF ExpireCache, TypeOK, runVars, clientVars
  <1>19. CASE PersistResults
    BY <1>19 DEF PersistResults, Outcomes, TypeOK, clientVars
  <1>20. CASE \E p \in Publishers : CacheProgressPayload(p)
    <2>1. PICK p \in Publishers : CacheProgressPayload(p) BY <1>20
    <2>2. /\ out' \in [Publishers -> Payloads] /\ lost' \in 0..MaxLost /\ cache' \in Payloads
          /\ UNCHANGED <<runVars, clientVars>>
      BY <2>1, NoPayloadIsPayload DEF CacheProgressPayload, TypeOK
    <2>3. stale' \in BOOLEAN BY <2>1 DEF CacheProgressPayload, TypeOK
    <2> QED BY <2>2, <2>3 DEF TypeOK, runVars, clientVars
  <1>21. CASE \E c \in Clients : Connect(c)
    BY <1>21, AfterCloseKnown DEF Connect, TypeOK, runVars
  <1>22. CASE \E c \in Clients : Subscribe(c)
    BY <1>22 DEF Subscribe, TypeOK, runVars
  <1>23. CASE \E c \in Clients : ReadCache(c)
    <2>1. PICK c \in Clients : ReadCache(c) BY <1>23
    <2>2. inbox[c] \in Seq(Payloads) BY DEF TypeOK
    <2>3. missed' \in [Clients -> BOOLEAN] BY <2>1 DEF ReadCache, TypeOK, InTheGap
    <2> QED BY <2>1, <2>2, <2>3, SendTypes DEF ReadCache, TypeOK, runVars
  <1>24. CASE \E c \in Clients : Receive(c)
    <2>1. PICK c \in Clients : Receive(c) BY <1>24
    <2>2. Tail(inbox[c]) \in Seq(Payloads) BY <2>1 DEF TypeOK, Receive
    <2>3. UNCHANGED <<runVars, out, cache, stale, missed, lost>> BY <2>1 DEF Receive
    <2>4. /\ stream' \in [Clients -> {"closed", "opening", "subscribed", "live",
                                     "dropped", "finished"}]
          /\ inbox' \in [Clients -> Seq(Payloads)]
      BY <2>1, <2>2, SendTypes DEF Receive
    <2> QED BY <2>3, <2>4 DEF TypeOK, runVars
  <1>25. CASE \E c \in Clients : Disconnect(c)
    BY <1>25 DEF Disconnect, TypeOK, runVars
  <1>26. CASE UNCHANGED vars
    BY <1>26 DEF vars, runVars, clientVars, TypeOK
  <1>27. CASE PublishFailure
    <2>1. Publish("worker", Payload("pipeline_failed", "FAILED")) BY <1>27 DEF PublishFailure
    <2>2. Payload("pipeline_failed", "FAILED") \in Payloads BY DEF TypeOK
    <2> QED BY <1>27, <1>a, <2>1, <2>2, PublishTypes DEF PublishFailure, TypeOK
  <1> QED
    BY <1>a, <1>1, <1>2, <1>3, <1>4, <1>5, <1>6, <1>7, <1>8, <1>9, <1>10,
       <1>11, <1>12, <1>13, <1>14, <1>15, <1>16, <1>17, <1>18, <1>19, <1>20,
       <1>21, <1>22, <1>23, <1>24, <1>25, <1>26, <1>27 DEF Next, Work, Others,
       Watch

\* Every variable keeps its type: the status, the states of the worker, of the
\* endpoint that cancels and of the streams, and every payload anywhere.
THEOREM EventsTypeCorrect == Spec => []TypeOK
  BY TypeInit, TypeStep, PTL DEF Spec

-----------------------------------------------------------------------------
(* News.                                                                   *)

LEMMA EndIsForever == TypeOK /\ [Next]_vars => (over => over') /\ (unmarked => unmarked')
  BY DEF Next, Work, Others, Watch, vars, runVars, clientVars, TypeOK, Start, StepStarts,
     StepCompletes, StepFails, HealStarts, HealingDisabled, NotHealable, HealFails,
     HealApplies, HealSucceeds, ViolationFound, PersistResults, PublishTerminal, TaskFails,
     PublishFailure, WorkerDies, Terminate, RevokeTask, CancelRun, CancelFails, ReapRun, OtherPublishes, ExpireCache, CacheProgressPayload,
     Connect, Subscribe, ReadCache, Receive, Disconnect, controlVars

LEMMA NewsInit == Init => NoNewsBeforeEnd
  BY NoPayloadIsPayload DEF Init, NoNewsBeforeEnd, Publishers, Final

\* An event that is no news does not make the browser stop watching.
LEMMA SendNoNews ==
    ASSUME TypeOK, NoNews, NEW c \in Clients, NEW e, ~Tells(e),
           NEW q \in Seq(Payloads), Send(c, e, q),
           \A i \in DOMAIN q : ~Tells(q[i])
    PROVE  \A d \in Clients : /\ stream'[d] # "finished"
                              /\ \A i \in DOMAIN inbox'[d] : ~Tells(inbox'[d][i])
  <1>1. AfterClose(ExtractEventType(e)) = "dropped" BY DEF AfterClose, Tells
  <1>2. \A d \in Clients : stream'[d] # "finished"
    BY <1>1 DEF Send, TypeOK, NoNews
  <1>3. \A d \in Clients : inbox'[d] \in {inbox[d], <<>>, q} /\ (d # c => inbox'[d] = inbox[d])
    BY DEF Send, TypeOK
  <1>4. \A d \in Clients : \A i \in DOMAIN inbox'[d] : ~Tells(inbox'[d][i])
    BY <1>3 DEF NoNews
  <1> QED BY <1>2, <1>4

LEMMA NewsStep == TypeOK /\ NoNewsBeforeEnd /\ [Next]_vars => NoNewsBeforeEnd'
  <1> SUFFICES ASSUME TypeOK, NoNewsBeforeEnd, [Next]_vars, ~over', ~unmarked'
               PROVE  NoNews'
    BY DEF NoNewsBeforeEnd, NoNews
  <1>a. ~over /\ ~unmarked BY EndIsForever DEF TypeOK
  <1>b. NoNews BY <1>a DEF NoNewsBeforeEnd, NoNews
  <1>c. "worker" \in Publishers /\ "other" \in Publishers BY DEF Publishers
  <1> USE StatusesKnown, PayloadsClosed, StepPayloadIsNoNews, <1>b, <1>c DEF controlVars
  <1>1. CASE StepStarts
    <2>1. Publish("worker", Payload("none", "RUNNING")) BY <1>1 DEF StepStarts
    <2>2. Payload("none", "RUNNING") \in Payloads /\ ~Tells(Payload("none", "RUNNING")) BY DEF TypeOK
    <2> QED BY <1>1, <2>1, <2>2, PublishNoNews DEF StepStarts, NoNews
  <1>2. CASE StepCompletes
    <2>1. Publish("worker", Payload("none", "COMPLETED")) BY <1>2 DEF StepCompletes
    <2>2. Payload("none", "COMPLETED") \in Payloads /\ ~Tells(Payload("none", "COMPLETED")) BY DEF TypeOK
    <2> QED BY <1>2, <2>1, <2>2, PublishNoNews DEF StepCompletes, NoNews
  <1>3. CASE StepFails
    <2>1. Publish("worker", Payload("none", "FAILED")) BY <1>3 DEF StepFails
    <2>2. Payload("none", "FAILED") \in Payloads /\ ~Tells(Payload("none", "FAILED")) BY DEF TypeOK
    <2> QED BY <1>3, <2>1, <2>2, PublishNoNews DEF StepFails, NoNews
  <1>4. CASE NotHealable
    <2>1. Publish("worker", Payload("healing_non_healable", status)) BY <1>4 DEF NotHealable
    <2>2. Payload("healing_non_healable", status) \in Payloads /\ ~Tells(Payload("healing_non_healable", status)) BY DEF TypeOK
    <2> QED BY <1>4, <2>1, <2>2, PublishNoNews DEF NotHealable, NoNews
  <1>5. CASE HealStarts
    <2>1. Publish("worker", Payload("healing_started", "HEALING")) BY <1>5 DEF HealStarts
    <2>2. Payload("healing_started", "HEALING") \in Payloads /\ ~Tells(Payload("healing_started", "HEALING")) BY DEF TypeOK
    <2> QED BY <1>5, <2>1, <2>2, PublishNoNews DEF HealStarts, NoNews
  <1>6. CASE HealFails
    <2>1. Publish("worker", Payload("healing_failed", "FAILED")) BY <1>6 DEF HealFails
    <2>2. Payload("healing_failed", "FAILED") \in Payloads /\ ~Tells(Payload("healing_failed", "FAILED")) BY DEF TypeOK
    <2> QED BY <1>6, <2>1, <2>2, PublishNoNews DEF HealFails, NoNews
  <1>7. CASE HealApplies
    <2>1. Publish("worker", Payload("healing_attempt_applied", "HEALING")) BY <1>7 DEF HealApplies
    <2>2. Payload("healing_attempt_applied", "HEALING") \in Payloads /\ ~Tells(Payload("healing_attempt_applied", "HEALING")) BY DEF TypeOK
    <2> QED BY <1>7, <2>1, <2>2, PublishNoNews DEF HealApplies, NoNews
  <1>8. CASE HealSucceeds
    BY <1>8 DEF HealSucceeds
  <1>9. CASE PublishTerminal
    BY <1>9 DEF PublishTerminal, NoNews
  <1>10. CASE OtherPublishes
    BY <1>10 DEF OtherPublishes, NoNews
  <1>11. CASE ViolationFound
    <2>1. Deliver(Payload("contract_violation", "none")) \/ UNCHANGED inbox
      BY <1>11 DEF ViolationFound
    <2>2. \A c \in Clients : \A i \in DOMAIN inbox'[c] : ~Tells(inbox'[c][i])
      BY <2>1, DeliverNoNews DEF TypeOK, NoNews
    <2> QED BY <1>11, <2>2 DEF ViolationFound, NoNews
  <1>12. CASE Start
    BY <1>12, NoPayloadIsPayload DEF Start, NoNews, TypeOK, runVars, clientVars
  <1>13. CASE HealingDisabled
    BY <1>13, NoPayloadIsPayload DEF HealingDisabled, NoNews, TypeOK, runVars, clientVars
  <1>14. CASE WorkerDies \/ Terminate \/ RevokeTask \/ CancelFails
    BY <1>14, NoPayloadIsPayload DEF WorkerDies, Terminate, RevokeTask, CancelFails, NoNews, TypeOK, runVars, clientVars
  <1>15. CASE ExpireCache
    BY <1>15, NoPayloadIsPayload DEF ExpireCache, NoNews, TypeOK, runVars, clientVars
  <1>16. CASE TaskFails
    BY <1>16 DEF TaskFails
  <1>17. CASE CancelRun
    BY <1>17 DEF CancelRun
  <1>18. CASE ReapRun
    BY <1>18 DEF ReapRun
  <1>19. CASE PersistResults
    BY <1>19 DEF PersistResults
  <1>20. CASE \E p \in Publishers : CacheProgressPayload(p)
    BY <1>20, NoPayloadIsPayload DEF CacheProgressPayload, NoNews, TypeOK, runVars, clientVars
  <1>21. CASE \E c \in Clients : Connect(c)
    <2>1. TERMINAL_STATUSES \subseteq Final BY DEF TERMINAL_STATUSES, Final
    <2> QED BY <1>21, <2>1 DEF Connect, NoNews, TypeOK, runVars
  <1>22. CASE \E c \in Clients : Subscribe(c)
    BY <1>22 DEF Subscribe, NoNews, TypeOK, runVars
  <1>23. CASE \E c \in Clients : ReadCache(c)
    <2>1. PICK c \in Clients : ReadCache(c) BY <1>23
    <2>2. inbox[c] \in Seq(Payloads) /\ \A i \in DOMAIN inbox[c] : ~Tells(inbox[c][i])
      BY DEF TypeOK, NoNews
    <2>3. ~Tells(cache) BY DEF NoNews
    <2>4. Send(c, cache, inbox[c]) BY <2>1 DEF ReadCache
    <2> QED BY <2>1, <2>2, <2>3, <2>4, SendNoNews DEF ReadCache, NoNews, runVars
  <1>24. CASE \E c \in Clients : Receive(c)
    <2>1. PICK c \in Clients : Receive(c) BY <1>24
    <2>2. inbox[c] \in Seq(Payloads) /\ inbox[c] # <<>> /\ Tail(inbox[c]) \in Seq(Payloads)
      BY <2>1 DEF TypeOK, Receive
    <2>3. \A i \in DOMAIN inbox[c] : ~Tells(inbox[c][i]) BY DEF NoNews
    <2>4. ~Tells(Head(inbox[c])) /\ \A i \in DOMAIN Tail(inbox[c]) : ~Tells(Tail(inbox[c])[i])
      BY <2>2, <2>3
    <2>5. Send(c, Head(inbox[c]), Tail(inbox[c])) BY <2>1 DEF Receive
    <2> QED BY <2>1, <2>2, <2>4, <2>5, SendNoNews DEF Receive, NoNews, runVars
  <1>25. CASE \E c \in Clients : Disconnect(c)
    BY <1>25 DEF Disconnect, NoNews, TypeOK, runVars
  <1>26. CASE UNCHANGED vars
    BY <1>26 DEF vars, runVars, clientVars, NoNews
  <1>27. CASE PublishFailure
    BY <1>27 DEF PublishFailure, NoNews
  <1> QED
    BY <1>1, <1>2, <1>3, <1>4, <1>5, <1>6, <1>7, <1>8, <1>9, <1>10, <1>11,
       <1>12, <1>13, <1>14, <1>15, <1>16, <1>17, <1>18, <1>19, <1>20, <1>21,
       <1>22, <1>23, <1>24, <1>25, <1>26, <1>27 DEF Next, Work, Others, Watch

\* However many browsers watch and however many steps, crashes and lost messages
\* there are, a browser is told of the end only after a final status is committed,
\* unless the worker could not commit the failure that it published.
THEOREM EndIsToldAfterCommit == Spec => []ToldOnlyAfterCommit
  <1>1. Init => TypeOK /\ NoNewsBeforeEnd BY TypeInit, NewsInit
  <1>2. TypeOK /\ NoNewsBeforeEnd /\ [Next]_vars => (TypeOK /\ NoNewsBeforeEnd)'
    BY TypeStep, NewsStep
  <1>3. NoNewsBeforeEnd => ToldOnlyAfterCommit
    BY DEF NoNewsBeforeEnd, ToldOnlyAfterCommit
  <1> QED BY <1>1, <1>2, <1>3, PTL DEF Spec
-----------------------------------------------------------------------------
(* The cache.                                                              *)

\* Who revokes the task will cancel the run, who cancelled it will write the event
\* to the cache, or it is there, or the worker has overwritten it.
Announced == \/ other \in {"revoked", "cancelled"}
             \/ Ends(out["other"]) \/ Ends(cache) \/ stale

\* A revoked run's end is announced.  A worker that stopped is about to cache an
\* event that ends a stream, or one is cached or announced; one that was killed was
\* revoked; one that has not begun finds the run pending or revoked.
SettleInv ==
    /\ out["other"] = NoPayload \/ Ends(out["other"])
    /\ other = "revoked" => revoked
    /\ task \in {"queued", "killed"} => out["worker"] = NoPayload
    /\ task = "stopped" => out["worker"] = NoPayload \/ Ends(out["worker"])
    /\ lost = 0 =>
         /\ revoked => Announced
         /\ task = "killed" => revoked
         /\ task = "queued" => status = "PENDING" \/ revoked
         /\ task = "queued" => ~stale
         /\ task = "stopped" => \/ Ends(out["worker"]) \/ Ends(cache)
                               \/ other \in {"revoked", "cancelled"}
                               \/ Ends(out["other"])

LEMMA SettleInit == Init => SettleInv
  BY DEF Init, SettleInv, Publishers

\* What Publish leaves to be cached.
LEMMA PublishEffect ==
    ASSUME TypeOK, NEW p \in Publishers, NEW e \in Payloads, Publish(p, e)
    PROVE  /\ \A q \in Publishers : q # p => out'[q] = out[q]
           /\ out'[p] \in {NoPayload, e}
           /\ lost' = 0 => lost = 0 /\ out'[p] = e
           /\ cache' = cache /\ stale' = stale
  BY ConstantsAssumption DEF TypeOK, Publish

\* While it works the worker touches neither the cache nor what the other publisher
\* has to cache.
LEMMA WorkerKeeps ==
    ASSUME TypeOK, SettleInv, out'["other"] = out["other"],
           UNCHANGED <<cache, stale, other, revoked>>, lost' = 0 => lost = 0,
           task' \notin {"queued", "stopped", "killed"}
    PROVE  SettleInv'
  BY DEF SettleInv, Announced

LEMMA PublishKeeps ==
    ASSUME TypeOK, SettleInv, NEW e \in Payloads, Publish("worker", e),
           UNCHANGED <<other, revoked>>, task' \notin {"queued", "stopped", "killed"}
    PROVE  SettleInv'
  <1>1. "worker" \in Publishers /\ "other" \in Publishers BY DEF Publishers
  <1>2. /\ out'["other"] = out["other"] /\ UNCHANGED <<cache, stale>>
        /\ lost' = 0 => lost = 0
    BY <1>1, PublishEffect
  <1> QED BY <1>2, WorkerKeeps

LEMMA SettleStep == TypeOK /\ SettleInv /\ [Next]_vars => SettleInv'
  <1> SUFFICES ASSUME TypeOK, SettleInv, [Next]_vars PROVE SettleInv'
    OBVIOUS
  <1>a. "worker" \in Publishers /\ "other" \in Publishers BY DEF Publishers
  <1>b. ~Ends(NoPayload) BY DEF Ends, NoPayload, Payload, PipelineEvents
  <1>c. lost \in Nat BY ConstantsAssumption DEF TypeOK
  <1> USE StatusesKnown, PayloadsClosed DEF controlVars
  <1>1. CASE \/ StepStarts \/ StepCompletes \/ StepFails \/ NotHealable \/ HealStarts \/ HealFails
             \/ HealApplies \/ HealSucceeds
    <2>1. PICK e \in Payloads : Publish("worker", e)
      BY <1>1 DEF StepStarts, StepCompletes, StepFails, NotHealable, HealStarts, HealFails, HealApplies,
                  HealSucceeds, TypeOK
    <2>2. task' \notin {"queued", "stopped", "killed"} /\ UNCHANGED <<other, revoked>>
      BY <1>1 DEF StepStarts, StepCompletes, StepFails, NotHealable, HealStarts, HealFails, HealApplies,
                  HealSucceeds
    <2> QED BY <2>1, <2>2, PublishKeeps
  <1>2. CASE HealingDisabled \/ ViolationFound \/ PersistResults \/ TaskFails
    <2>1. /\ out'["other"] = out["other"] /\ task' \notin {"queued", "stopped", "killed"}
          /\ UNCHANGED <<cache, stale, other, revoked>> /\ (lost' = 0 => lost = 0)
      BY <1>2, <1>a, <1>c DEF HealingDisabled, ViolationFound, PersistResults, TaskFails, TypeOK
    <2> QED BY <2>1, WorkerKeeps
  <1>3. CASE Start
    <2>1. CASE status = "PENDING"
      <3>1. /\ out'["other"] = out["other"] /\ task' = "next"
            /\ UNCHANGED <<cache, stale, other, revoked, lost>>
        BY <1>3, <1>a, <2>1 DEF Start, TypeOK
      <3> QED BY <3>1, WorkerKeeps
    <2>2. CASE status # "PENDING"
      <3>1. /\ task = "queued" /\ task' = "stopped"
            /\ UNCHANGED <<out, cache, stale, other, revoked, lost>>
        BY <1>3, <2>2 DEF Start
      <3> QED BY <3>1, <2>2 DEF SettleInv, Announced
    <2> QED BY <2>1, <2>2
  <1>4. CASE PublishTerminal \/ PublishFailure
    <2>1. PICK e \in Payloads : Publish("worker", e) /\ Ends(e)
      <3> DEFINE ty == IF status = "CONTRACT_VIOLATION" THEN "pipeline_completed"
                       ELSE TerminalEventType(status)
      <3>1. ty \in PipelineEvents OBVIOUS
      <3>2. \/ Publish("worker", Payload(ty, status))
            \/ Publish("worker", Payload("pipeline_failed", "FAILED"))
        BY <1>4 DEF PublishTerminal, PublishFailure
      <3> HIDE DEF ty
      <3>3. Payload(ty, status) \in Payloads /\ Payload(ty, status).type = ty
        BY <3>1 DEF TypeOK, Payload
      <3>4. /\ Payload("pipeline_failed", "FAILED") \in Payloads
            /\ Ends(Payload("pipeline_failed", "FAILED"))
        BY DEF Payload, Ends
      <3> QED BY <3>1, <3>2, <3>3, <3>4 DEF Ends
    <2>2. /\ out'["other"] = out["other"] /\ out'["worker"] \in {NoPayload, e}
          /\ lost' = 0 => lost = 0 /\ out'["worker"] = e
          /\ UNCHANGED <<cache, stale>>
      BY <1>a, <2>1, PublishEffect
    <2>3. task' = "stopped" /\ UNCHANGED <<other, revoked>>
      BY <1>4 DEF PublishTerminal, PublishFailure
    <2> QED BY <2>1, <2>2, <2>3 DEF SettleInv, Announced
  <1>5. CASE WorkerDies \/ Terminate
    <2>1. out'["worker"] = NoPayload /\ out'["other"] = out["other"]
      BY <1>5, <1>a DEF WorkerDies, Terminate, TypeOK
    <2>2. /\ task' = "killed" /\ (lost' = 0 => lost = 0 /\ revoked)
          /\ UNCHANGED <<cache, stale, other, revoked>>
      BY <1>5, <1>c DEF WorkerDies, Terminate
    <2> QED BY <2>1, <2>2 DEF SettleInv, Announced
  <1>6. CASE CacheProgressPayload("worker")
    <2>1. /\ out["worker"] # NoPayload /\ out'["worker"] = NoPayload /\ out'["other"] = out["other"]
          /\ lost' = 0 => /\ lost = 0 /\ cache' = out["worker"]
                          /\ stale' = ((stale \/ Ends(cache)) /\ ~Ends(out["worker"]))
          /\ UNCHANGED <<task, status, other, revoked>>
      BY <1>6, <1>a, <1>c DEF CacheProgressPayload, TypeOK, runVars
    <2> QED BY <2>1 DEF SettleInv, Announced
  <1>7. CASE CacheProgressPayload("other")
    <2>1. /\ out["other"] # NoPayload /\ out'["other"] = NoPayload /\ out'["worker"] = out["worker"]
          /\ lost' = 0 => /\ lost = 0 /\ cache' = out["other"]
                          /\ stale' = ((stale \/ Ends(cache)) /\ ~Ends(out["other"]))
          /\ UNCHANGED <<task, status, other, revoked>>
      BY <1>7, <1>a, <1>c DEF CacheProgressPayload, TypeOK, runVars
    <2> QED BY <2>1 DEF SettleInv, Announced
  <1>8. CASE RevokeTask \/ CancelRun \/ CancelFails \/ ReapRun
    <2>2. CASE ReapRun
      BY <2>2, <1>c DEF ReapRun, SettleInv, Announced
    <2>3. CASE RevokeTask
      BY <2>3 DEF RevokeTask, SettleInv, Announced
    <2>4. CASE CancelRun
      <3>1. other = "revoked" /\ revoked /\ revoked' = revoked BY <2>4 DEF CancelRun, SettleInv
      <3> QED BY <2>4, <3>1 DEF CancelRun, SettleInv, Announced
    <2>5. CASE CancelFails
      BY <2>5, <1>c DEF CancelFails, SettleInv, Announced
    <2> QED BY <1>8, <2>2, <2>3, <2>4, <2>5
  <1>10. CASE OtherPublishes
    <2>1. PICK e \in Payloads : Publish("other", e) /\ Ends(e)
      BY <1>10 DEF OtherPublishes, Ends, Payload
    <2>2. /\ out'["worker"] = out["worker"] /\ out'["other"] \in {NoPayload, e}
          /\ UNCHANGED <<cache, stale>>
          /\ lost' = 0 => lost = 0 /\ out'["other"] = e
      BY <1>a, <2>1, PublishEffect
    <2>3. other' = "idle" /\ UNCHANGED <<task, status, revoked>> BY <1>10 DEF OtherPublishes
    <2> QED BY <2>1, <2>2, <2>3 DEF SettleInv, Announced
  <1>11. CASE ExpireCache
    <2>1. lost' # 0 /\ UNCHANGED <<task, status, other, revoked, out>> BY <1>11, <1>c DEF ExpireCache, runVars
    <2> QED BY <2>1 DEF SettleInv
  <1>12. CASE \/ \E c \in Clients : Watch(c) \/ Disconnect(c)
              \/ UNCHANGED vars
    <2>1. /\ UNCHANGED <<task, status, other, revoked, out, cache, stale>>
          /\ (lost' = 0 => lost = 0)
      BY <1>12, <1>c DEF Watch, Connect, Subscribe, ReadCache, Receive, Disconnect, vars, runVars
    <2> QED BY <2>1 DEF SettleInv, Announced
  <1> QED BY <1>1, <1>2, <1>3, <1>4, <1>5, <1>6, <1>7, <1>8, <1>10, <1>11, <1>12
          DEF Next, Work, Others

\* Whatever the order in which the worker and the cancel endpoint or the reconciler
\* write to the cache, and wherever the kill of a cancelled run's worker falls, when
\* they are done and no fault occurred the cached payload ends a stream, or it is
\* one that the killed worker wrote over that event: for any number of steps and
\* browsers.
THEOREM CacheIsSettled == Spec => []CacheSettles
  <1>1. Init => TypeOK /\ SettleInv BY TypeInit, SettleInit
  <1>2. TypeOK /\ SettleInv /\ [Next]_vars => (TypeOK /\ SettleInv)'
    BY TypeStep, SettleStep
  <1>3. SettleInv => CacheSettles
    <2>1. ~Ends(NoPayload) BY DEF Ends, NoPayload, Payload, PipelineEvents
    <2> QED BY <2>1 DEF SettleInv, Announced, CacheSettles, Quiet, Publishers
  <1> QED BY <1>1, <1>2, <1>3, PTL DEF Spec
=============================================================================
