------------------------------ MODULE Outbound ------------------------------
(***************************************************************************)
(* What leaves the system when a run ends: webhooks                        *)
(* (tasks/webhook_tasks.py, api/webhooks.py) and Slack or e-mail           *)
(* notifications (tasks/notification_tasks.py,                             *)
(* services/notification_service.py), for the end of one run.              *)
(*                                                                         *)
(* One task reads the subscribed webhooks and queues a delivery task for   *)
(* each; a delivery posts, records the attempt and retries.  Another task  *)
(* notifies the channels one after the other.  Tasks are acknowledged      *)
(* late: the task of a lost node is delivered again, that of a killed      *)
(* process is not.                                                         *)
(***************************************************************************)
EXTENDS Naturals, Sequences, FiniteSets

CONSTANTS
  Hooks,            \* webhooks subscribed to the event
  Deliveries,       \* identities of deliver_webhook tasks
  Channels,         \* notification configs that match the event
  DeliverRetries,   \* max_retries of deliver_webhook
  TaskRetries,      \* max_retries of webhooks.deliver and notifications.deliver
  MaxFaults,        \* bound: lost nodes, killed processes, failing calls
  None

VARIABLES
  append_only,  \* does the schema come from the migrations, whose rules keep
             \* rows of webhook_deliveries from being deleted?
  hook,      \* is the row of the webhook there?
  fan,       \* webhooks.deliver: [pc, retries, todo]
  task,      \* deliver_webhook tasks: [pc, hook, retries, answer]
  rows,      \* webhook_deliveries of each task: [attempt, status, delivered], in order
  notify,    \* notifications.deliver: [pc, retries, todo, sent, failed, skipped]
  answers,   \* history: what became of each request of a task, in order
  told,      \* history: how often the endpoint accepted a delivery, messages
             \* sent to each channel
  unheard,   \* history: acceptances of a delivery whose answer did not arrive
  faults

vars == <<append_only, hook, fan, task, rows, notify, answers, told, unheard, faults>>
schema == <<append_only, hook>>
history == <<answers, told, unheard>>

Unused == [pc |-> "none", hook |-> None, retries |-> 0, answer |-> None]

\* Both tasks are queued by the worker that has persisted the run.
Init ==
  /\ append_only \in BOOLEAN
  /\ hook = [h \in Hooks |-> TRUE]
  /\ fan = [pc |-> "queued", retries |-> 0, todo |-> {}]
  /\ task = [t \in Deliveries |-> Unused]
  /\ rows = [t \in Deliveries |-> <<>>]
  /\ notify = [pc |-> "queued", retries |-> 0, todo |-> {}, sent |-> {}, failed |-> {}, skipped |-> {}]
  /\ answers = [t \in Deliveries |-> <<>>]
  /\ told = [x \in Deliveries \cup Channels |-> 0]
  /\ unheard = [t \in Deliveries |-> 0]
  /\ faults = 0

Fault == faults < MaxFaults /\ faults' = faults + 1
Tell(x) == told' = [told EXCEPT ![x] = @ + 1]

(***************************************************************************)
(* webhooks.deliver.                                                       *)
(***************************************************************************)
FanReads ==
  /\ fan.pc = "queued"
  /\ fan' = [fan EXCEPT !.pc = "fan", !.todo = {h \in Hooks : hook[h]}]
  /\ UNCHANGED <<schema, task, rows, notify, history, faults>>

FanQueues(h, t) ==
  /\ fan.pc = "fan" /\ h \in fan.todo /\ task[t].pc = "none"
  /\ task' = [task EXCEPT ![t] = [pc |-> "queued", hook |-> h, retries |-> 0, answer |-> None]]
  /\ fan' = [fan EXCEPT !.todo = @ \ {h}]
  /\ UNCHANGED <<schema, rows, notify, history, faults>>

FanEnds ==
  /\ fan.pc = "fan" /\ fan.todo = {}
  /\ fan' = [fan EXCEPT !.pc = "ended"]
  /\ UNCHANGED <<schema, task, rows, notify, history, faults>>

Again(r) == [r EXCEPT !.pc = "queued", !.retries = @ + 1]
RetryTask(r) == IF r.retries < TaskRetries THEN Again(r) ELSE [r EXCEPT !.pc = "ended"]

\* The query or apply_async raises; what was queued stays queued.
FanFails ==
  /\ fan.pc = "fan" /\ Fault
  /\ fan' = RetryTask(fan)
  /\ UNCHANGED <<schema, task, rows, notify, history>>

(***************************************************************************)
(* deliver_webhook.                                                        *)
(***************************************************************************)
\* The webhook is gone or inactive, or its URL is no longer allowed.
DeliverSkips(t) ==
  /\ task[t].pc = "queued"
  /\ task' = [task EXCEPT ![t].pc = "ended"]
  /\ UNCHANGED <<schema, fan, rows, notify, history, faults>>

DeliverLoads(t) ==
  /\ task[t].pc = "queued" /\ hook[task[t].hook]
  /\ task' = [task EXCEPT ![t].pc = "post"]
  /\ UNCHANGED <<schema, fan, rows, notify, history, faults>>

Answers == {"2xx", "error_status", "no_answer", "blocked", "other_error"}
Success(a) == a = "2xx"

\* What the request ends in after redirects: a 2xx, another status, no answer
\* in time (or too many redirects), a redirect to an address that is not
\* allowed, or an exception of another kind (the shared client is bound to the
\* closed loop of an earlier task).  A request without an answer may have been
\* accepted all the same.
Post(t) ==
  /\ task[t].pc = "post"
  /\ \E a \in Answers :
       /\ answers' = [answers EXCEPT ![t] = Append(@, a)]
       /\ task' = [task EXCEPT ![t] =
              [@ EXCEPT !.pc = IF a = "other_error" THEN "ended" ELSE "record", !.answer = a]]
       /\ \/ Success(a) /\ Tell(t) /\ UNCHANGED unheard
          \/ a \in {"no_answer", "other_error"} /\ Tell(t) /\ unheard' = [unheard EXCEPT ![t] = @ + 1]
          \/ ~Success(a) /\ UNCHANGED <<told, unheard>>
  /\ UNCHANGED <<schema, fan, rows, notify, faults>>

\* autoretry_for: once more, or the end.
Retry(r) == IF r.retries < DeliverRetries THEN Again(r) ELSE [r EXCEPT !.pc = "ended"]

\* Mutant: request.retries is taken for the number of the attempt.
RowFromZero(t, status, delivered) == [attempt |-> task[t].retries, status |-> status, delivered |-> delivered]

\* status: does the row hold the response_status?
Row(t, status, delivered) == [attempt |-> task[t].retries + 1, status |-> status, delivered |-> delivered]

\* An error status is recorded and then raised inside the same try.  The row
\* of a webhook deleted meanwhile violates the foreign key, which is not
\* retried.
Record(t) ==
  LET a == task[t].answer IN
  /\ task[t].pc = "record"
  /\ IF hook[task[t].hook]
     THEN /\ rows' = [rows EXCEPT ![t] = Append(@, Row(t, a \in {"2xx", "error_status"}, Success(a)))]
          /\ task' = [task EXCEPT ![t] =
                 CASE Success(a) \/ a = "blocked" -> [@ EXCEPT !.pc = "ended"]
                   [] a = "no_answer"             -> Retry(@)
                   [] OTHER                       -> [@ EXCEPT !.pc = "raised"]]
     ELSE /\ task' = [task EXCEPT ![t].pc = "ended"]
          /\ UNCHANGED rows
  /\ UNCHANGED <<schema, fan, notify, history, faults>>

\* The handler of the raised error records the attempt a second time.
RecordRaised(t) ==
  /\ task[t].pc = "raised"
  /\ IF hook[task[t].hook]
     THEN /\ rows' = [rows EXCEPT ![t] = Append(@, Row(t, FALSE, FALSE))]
          /\ task' = [task EXCEPT ![t] = Retry(@)]
     ELSE /\ task' = [task EXCEPT ![t].pc = "ended"]
          /\ UNCHANGED rows
  /\ UNCHANGED <<schema, fan, notify, history, faults>>

\* The commit fails, or the process is killed: FAILURE, not retried.
DeliverFails(t) ==
  /\ task[t].pc \in {"post", "record", "raised"} /\ Fault
  /\ task' = [task EXCEPT ![t].pc = "ended"]
  /\ UNCHANGED <<schema, fan, rows, notify, history>>

\* The deliveries go with their webhook.  Where the schema comes from the
\* migrations the cascade's DELETE is rewritten to nothing, which PostgreSQL
\* answers by refusing the deletion of the webhook.
DeleteWebhook(h) ==
  /\ hook[h] /\ ~append_only
  /\ hook' = [hook EXCEPT ![h] = FALSE]
  /\ rows' = [t \in Deliveries |-> IF task[t].hook = h THEN <<>> ELSE rows[t]]
  /\ UNCHANGED <<append_only, fan, task, notify, history, faults>>

(***************************************************************************)
(* notifications.deliver.  The counts are kept as sets of channels.        *)
(***************************************************************************)
NotifyReads ==
  /\ notify.pc = "queued"
  /\ \E gone \in SUBSET Channels :   \* deleted or deactivated by now
       notify' = [notify EXCEPT !.pc = "send", !.todo = Channels \ gone,
                                !.sent = {}, !.failed = {}, !.skipped = {}]
  /\ UNCHANGED <<schema, fan, task, rows, history, faults>>

\* send_slack_notification, send_email_notification: sent, refused, or
\* without an address to send to.
Notify(c) ==
  /\ notify.pc = "send" /\ c \in notify.todo
  /\ \/ notify' = [notify EXCEPT !.todo = @ \ {c}, !.sent = @ \cup {c}] /\ Tell(c)
     \/ notify' = [notify EXCEPT !.todo = @ \ {c}, !.failed = @ \cup {c}] /\ UNCHANGED told
     \/ notify' = [notify EXCEPT !.todo = @ \ {c}, !.skipped = @ \cup {c}] /\ UNCHANGED told
  /\ UNCHANGED <<schema, fan, task, rows, answers, unheard, faults>>

\* An error that the senders do not catch: the task starts over.
NotifyRaises ==
  /\ notify.pc = "send" /\ Fault
  /\ notify' = RetryTask(notify)
  /\ UNCHANGED <<schema, fan, task, rows, history>>

\* Mutant: a report with failures makes the whole task start over.
NotifyEndsOrRetries ==
  /\ notify.pc = "send" /\ notify.todo = {}
  /\ notify' = IF notify.failed # {} THEN RetryTask(notify) ELSE [notify EXCEPT !.pc = "reported"]
  /\ UNCHANGED <<schema, fan, task, rows, history, faults>>

NotifyEnds ==
  /\ notify.pc = "send" /\ notify.todo = {}
  /\ notify' = [notify EXCEPT !.pc = "reported"]
  /\ UNCHANGED <<schema, fan, task, rows, history, faults>>

delivery_status ==
  CASE notify.sent # {} /\ notify.failed \cup notify.skipped = {}  -> "delivered"
    [] notify.sent # {} /\ notify.failed \cup notify.skipped # {}  -> "partial"
    [] notify.sent = {} /\ notify.failed # {}                      -> "failed"
    [] OTHER                                                       -> "skipped"

(***************************************************************************)
(* A node is lost: its task is delivered again, with the same retries.     *)
(***************************************************************************)
NodeLost ==
  /\ Fault
  /\ \/ fan.pc = "fan" /\ fan' = [fan EXCEPT !.pc = "queued"] /\ UNCHANGED <<task, notify>>
     \/ notify.pc = "send" /\ notify' = [notify EXCEPT !.pc = "queued"] /\ UNCHANGED <<fan, task>>
     \/ \E t \in Deliveries :
          /\ task[t].pc \in {"post", "record", "raised"}
          /\ task' = [task EXCEPT ![t].pc = "queued"]
          /\ UNCHANGED <<fan, notify>>
  /\ UNCHANGED <<schema, rows, history>>

Next ==
  \/ FanReads \/ FanEnds \/ FanFails \/ NotifyReads \/ NotifyRaises \/ NotifyEnds \/ NodeLost
  \/ \E c \in Channels : Notify(c)
  \/ \E h \in Hooks : DeleteWebhook(h) \/ \E t \in Deliveries : FanQueues(h, t)
  \/ \E t \in Deliveries : \/ DeliverSkips(t) \/ DeliverLoads(t) \/ Post(t) \/ Record(t)
                           \/ RecordRaised(t) \/ DeliverFails(t)

Spec == Init /\ [][Next]_vars

-----------------------------------------------------------------------------
Of(h) == {t \in Deliveries : task[t].hook = h}
list_deliveries(h) == [t \in {d \in Of(h) : hook[h]} |-> rows[t]]

\* The end of a run is told once.  A repeated fan-out queues deliveries anew and
\* a lost node repeats one, but an endpoint that goes by X-PipelineIQ-Delivery-ID
\* accepts the event under at most one identity more per fault; under one
\* identity it accepts again only after an answer that did not arrive, or a
\* fault, and within the retries; a channel is told at most once more per fault.
ToldOnce ==
  /\ \A h \in Hooks : Cardinality({t \in Of(h) : told[t] > 0}) <= 1 + faults
  /\ \A t \in Deliveries : /\ told[t] <= 1 + unheard[t] + faults
                          /\ told[t] <= 1 + DeliverRetries + faults
  /\ \A c \in Channels : told[c] <= 1 + faults

\* The rows of attempt n: one, two for an error status (it is recorded, raised
\* and recorded by the handler), none for an exception of another kind.
RowsOf(n, a) ==
  CASE Success(a)         -> {[attempt |-> n, status |-> TRUE, delivered |-> TRUE]}
    [] a = "error_status" -> {[attempt |-> n, status |-> s, delivered |-> FALSE] : s \in BOOLEAN}
    [] a = "other_error"  -> {}
    [] OTHER              -> {[attempt |-> n, status |-> FALSE, delivered |-> FALSE]}

\* "The webhook_deliveries table records every attempt": without a fault, and
\* but for an exception of a kind that is not caught, the history of a delivery
\* that is not being made has exactly the rows of its attempts, each once and
\* under the attempt's number, and shows a success exactly when an acceptance
\* was heard of; and when the notifications are reported "delivered", nobody
\* was left out.
HistoryIsTruthful ==
  faults = 0 =>
    /\ \A h \in Hooks : \A t \in DOMAIN list_deliveries(h) :
         LET shown == list_deliveries(h)[t] IN
         task[t].pc \in {"queued", "ended"} =>
           /\ {shown[i] : i \in DOMAIN shown} = UNION {RowsOf(n, answers[t][n]) : n \in DOMAIN answers[t]}
           /\ \A i, j \in DOMAIN shown : shown[i] = shown[j] => i = j
           /\ (\E i \in DOMAIN shown : shown[i].delivered) <=> told[t] > unheard[t]
    /\ notify.pc = "reported" /\ delivery_status = "delivered" =>
         \A c \in Channels : told[c] = 1 \/ c \notin notify.sent \cup notify.failed \cup notify.skipped

\* "every attempt - success or failure - appends a webhook_deliveries row"
\* (docs/webhook-delivery.md:17).  The code keeps neither: an attempt that ends
\* in an error status appends two, and one that ends in another exception none.
EveryAttemptAppendsARow ==
  faults = 0 => \A t \in Deliveries : task[t].pc \in {"queued", "ended"} => Len(rows[t]) = Len(answers[t])
=============================================================================
