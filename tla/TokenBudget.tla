----------------------------- MODULE TokenBudget -----------------------------
(***************************************************************************)
(* The token budget of the language model (tasks/gemini_tasks.py): a       *)
(* counter in Redis per minute.  A task reserves an estimate, calls the    *)
(* model, corrects the reservation to the tokens really used, caches the   *)
(* answer; after an error it gives the estimate back.  The queue has one   *)
(* worker process, but a lost task is delivered again and hard time limits *)
(* kill a task wherever it is.                                             *)
(***************************************************************************)
EXTENDS Integers

CONSTANTS
  Calls,        \* call_gemini and generate_pipeline_description tasks
  Describes,    \* those of generate_pipeline_description
  Estimate,     \* estimated_total_tokens of each task
  MaxEstimate,  \* no estimate is larger
  Actual,       \* the numbers of tokens an answer may have used
  Limit,        \* TOKEN_BUDGET_PER_MINUTE
  MaxRetries,   \* max_retries of each task
  MaxWindow,    \* bound: minutes that pass
  MaxFaults     \* bound: answers without text, failing Redis calls, killed tasks

VARIABLES
  used,     \* the counters: gemini:tokens:<minute>
  now,      \* the current minute
  call,     \* tasks: [pc, retries, window]
  cached,   \* the tasks whose answer is cached
  spent,    \* history: tokens the model has used, per minute of reservation
  excess,   \* history: by how much answers exceeded their estimates
  faults

vars == <<used, now, call, cached, spent, excess, faults>>

Windows == 0..MaxWindow

Init ==
  /\ used = [w \in Windows |-> 0] /\ now = 0
  /\ call = [t \in Calls |-> [pc |-> "queued", retries |-> 0, window |-> 0]]
  /\ cached = {} /\ faults = 0
  /\ spent = [w \in Windows |-> 0] /\ excess = [w \in Windows |-> 0]

\* One task at a time has passed its reservation.
Free == \A t \in Calls : call[t].pc \in {"queued", "ended"}
Add(w, n) == used' = [used EXCEPT ![w] = @ + n]
Fault == faults < MaxFaults /\ faults' = faults + 1

RetryCall(t) ==
  call' = IF call[t].retries < MaxRetries[t]
          THEN [call EXCEPT ![t].pc = "queued", ![t].retries = @ + 1]
          ELSE [call EXCEPT ![t].pc = "ended"]

CacheHit(t) ==
  /\ call[t].pc = "queued" /\ Free /\ t \in cached
  /\ call' = [call EXCEPT ![t].pc = "ended"]
  /\ UNCHANGED <<used, now, cached, spent, excess, faults>>

\* Mutant: a refused reservation is given back like one that was made.
ReserveInsideTry(t) ==
  /\ call[t].pc = "queued" /\ Free /\ t \notin cached
  /\ IF used[now] + Estimate[t] > Limit
     THEN Add(now, -Estimate[t]) /\ RetryCall(t)
     ELSE /\ Add(now, Estimate[t])
          /\ call' = [call EXCEPT ![t] = [pc |-> "call", retries |-> @.retries, window |-> now]]
  /\ UNCHANGED <<now, cached, spent, excess, faults>>

ReserveTokenBudget(t) ==
  /\ call[t].pc = "queued" /\ Free /\ t \notin cached
  /\ IF used[now] + Estimate[t] > Limit
     THEN RetryCall(t) /\ UNCHANGED used
     ELSE /\ Add(now, Estimate[t])
          /\ call' = [call EXCEPT ![t] = [pc |-> "call", retries |-> @.retries, window |-> now]]
  /\ UNCHANGED <<now, cached, spent, excess, faults>>

Answered(t, n) ==
  LET w == call[t].window IN
  /\ spent' = [spent EXCEPT ![w] = @ + n]
  /\ excess' = [excess EXCEPT ![w] = @ + IF n > Estimate[t] THEN n - Estimate[t] ELSE 0]

\* The model answers and the reservation is corrected.
AdjustTokenBudget(t, n) ==
  /\ call[t].pc = "call"
  /\ Answered(t, n)
  /\ Add(call[t].window, n - Estimate[t])
  /\ call' = [call EXCEPT ![t].pc = "cache"]
  /\ UNCHANGED <<now, cached, faults>>

\* A blank description is not cached.
CacheResponse(t) ==
  /\ call[t].pc = "cache"
  /\ call' = [call EXCEPT ![t].pc = "ended"]
  /\ \/ cached' = cached \cup {t}
     \/ t \in Describes /\ UNCHANGED cached
  /\ UNCHANGED <<used, now, spent, excess, faults>>

\* The except clause: throttled and transient errors are retried, others end
\* the task.
ReleaseTokenBudget(t) ==
  /\ Add(call[t].window, -Estimate[t])
  /\ RetryCall(t) \/ call' = [call EXCEPT ![t].pc = "ended"]

\* The model raises.
CallFails(t) ==
  /\ call[t].pc = "call"
  /\ ReleaseTokenBudget(t)
  /\ UNCHANGED <<now, cached, spent, excess, faults>>

\* The model answers, but without a text, or the correction raises: the
\* tokens are used and the estimate is given back.
AnswerIsLost(t, n) ==
  /\ call[t].pc = "call" /\ Fault
  /\ Answered(t, n)
  /\ ReleaseTokenBudget(t)
  /\ UNCHANGED <<now, cached>>

\* A Redis call after the correction raises: the estimate is given back on
\* top of the correction.
CacheFails(t) ==
  /\ call[t].pc = "cache" /\ Fault
  /\ ReleaseTokenBudget(t)
  /\ UNCHANGED <<now, cached, spent, excess>>

\* Redis cannot be reached to correct or to give back, or the task is
\* killed: the reservation stays.  A lost node's task is delivered again.
TaskLost(t) ==
  /\ call[t].pc \in {"call", "cache"} /\ Fault
  /\ \E pc \in {"ended", "queued"} : call' = [call EXCEPT ![t].pc = pc]
  /\ \/ call[t].pc = "call" /\ \E n \in Actual : Answered(t, n)
     \/ UNCHANGED <<spent, excess>>
  /\ UNCHANGED <<used, now, cached>>

MinutePasses ==
  /\ now < MaxWindow /\ now' = now + 1
  /\ UNCHANGED <<used, call, cached, spent, excess, faults>>

ResponseExpires(t) ==
  /\ t \in cached /\ cached' = cached \ {t}
  /\ UNCHANGED <<used, now, call, spent, excess, faults>>

Next ==
  \/ MinutePasses
  \/ \E t \in Calls :
       \/ CacheHit(t) \/ ReserveTokenBudget(t) \/ CacheResponse(t) \/ CallFails(t) \/ CacheFails(t)
       \/ TaskLost(t) \/ ResponseExpires(t)
       \/ \E n \in Actual : AdjustTokenBudget(t, n) \/ AnswerIsLost(t, n)

Spec == Init /\ [][Next]_vars

-----------------------------------------------------------------------------
Reserved(w) == {t \in Calls : call[t].pc = "call" /\ call[t].window = w}

\* What the model uses for the reservations of a minute stays within the
\* budget, but for answers longer than estimated and for one estimate per
\* fault; and without faults the counter is exactly what was used and what
\* is reserved: no retry and no error eats up the budget or adds to it.
BudgetHolds ==
  \A w \in Windows :
    /\ spent[w] <= Limit + excess[w] + faults * MaxEstimate
    /\ faults = 0 =>
         /\ Reserved(w) = {} => used[w] = spent[w]
         /\ \A t \in Reserved(w) : used[w] = spent[w] + Estimate[t]
==============================================================================
