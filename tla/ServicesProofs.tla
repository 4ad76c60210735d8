--------------------------- MODULE ServicesProofs ---------------------------
(***************************************************************************)
(* Proofs about Services: the token budget (TokenBudget), notifications    *)
(* and webhooks (Outbound) and files (Files), each for its own             *)
(* specification, and the composition.  Each part has an inductive         *)
(* invariant (BudgetInv, NotifyInv, WebInv, FileInv), a lemma for each     *)
(* action or group of actions that it survives, and a theorem.             *)
(***************************************************************************)
EXTENDS Services, FiniteSetTheorems, TLAPS

-----------------------------------------------------------------------------
(***************************************************************************)
(* The token budget.  The queue of LLM tasks has one worker process, so at *)
(* most one reservation is open: it is in the counter of its minute on top *)
(* of what was granted.  A fault (a counter that is lost, a correction     *)
(* that is not made) hides one estimate at most from the counter.          *)
(***************************************************************************)
AskType == [pc : {"queued", "call", "cache", "ended"}, retries : Nat, window : B!Windows]

BudgetTypes ==
    /\ counter \in [B!Windows -> Int]
    /\ spent \in [B!Windows -> Nat] /\ excess \in [B!Windows -> Nat]
    /\ ask \in [Calls -> AskType]
    /\ now \in B!Windows /\ failures \in Nat

\* The queue has one worker process.
OneCall ==
    \A t, u \in Calls : ask[t].pc \in {"call", "cache"} /\ ask[u].pc \in {"call", "cache"} => t = u

Lost == failures * MaxEstimate

\* What is granted in a minute and not above its estimate, on top of a
\* reservation r, is in the counter but for the faults, and within the limit.
Within(w, r) ==
    /\ spent[w] + r <= counter[w] + excess[w] + Lost
    /\ spent[w] + r <= Limit + excess[w] + Lost

Granted ==
    \A w \in B!Windows :
        /\ Within(w, 0)
        /\ \A t \in B!Reserved(w) : Within(w, Estimate[t])

Exact ==
    failures = 0 => \A w \in B!Windows :
        /\ B!Reserved(w) = {} => counter[w] = spent[w]
        /\ \A t \in B!Reserved(w) : counter[w] = spent[w] + Estimate[t]

BudgetInv == BudgetTypes /\ OneCall /\ Granted /\ Exact

LEMMA WindowsAreNumbers == B!Windows \subseteq Nat
  BY ServicesAssumption DEF B!Windows

LEMMA LostType == BudgetInv => Lost \in Nat
  BY ServicesAssumption DEF BudgetInv, BudgetTypes, Lost

LEMMA LostGrows ==
    ASSUME BudgetInv, B!Fault PROVE Lost' = Lost + MaxEstimate /\ failures' \in Nat /\ failures' # 0
  BY ServicesAssumption DEF BudgetInv, BudgetTypes, Lost, B!Fault

LEMMA BudgetInvInit == B!Init => BudgetInv
  <1> SUFFICES ASSUME B!Init PROVE BudgetInv OBVIOUS
  <1>1. 0 \in B!Windows BY ServicesAssumption DEF B!Windows
  <1>2. BudgetTypes BY <1>1 DEF B!Init, BudgetTypes, AskType
  <1>3. \A w \in B!Windows : B!Reserved(w) = {} BY DEF B!Init, B!Reserved
  <1>4. Lost = 0 BY ServicesAssumption DEF B!Init, Lost
  <1> QED BY <1>2, <1>3, <1>4, ServicesAssumption DEF B!Init, BudgetInv, OneCall, Granted, Within, Exact

\* A task leaves the worker: nothing is reserved, and what was granted for
\* it is no more than its estimate.
LEMMA RetryCallEffect ==
    ASSUME BudgetInv, NEW t \in Calls,
           B!RetryCall(t) \/ (\E pc \in {"ended", "queued", "cache"} : ask' = [ask EXCEPT ![t].pc = pc])
    PROVE  /\ ask' \in [Calls -> AskType]
           /\ \A u \in Calls : u # t => ask'[u] = ask[u]
           /\ ask'[t].pc \in {"queued", "ended", "cache"}
  <1> DEFINE old == ask[t]
  <1>0. old \in AskType BY DEF BudgetInv, BudgetTypes
  <1>1. PICK new \in AskType : ask' = [ask EXCEPT ![t] = new] /\ new.pc \in {"queued", "ended", "cache"}
    <2>1. CASE \E pc \in {"ended", "queued", "cache"} : ask' = [ask EXCEPT ![t].pc = pc]
      <3>1. PICK pc \in {"ended", "queued", "cache"} : ask' = [ask EXCEPT ![t].pc = pc] BY <2>1
      <3>2. ask' = [ask EXCEPT ![t] = [old EXCEPT !.pc = pc]] BY <3>1
      <3>3. [old EXCEPT !.pc = pc] \in AskType /\ [old EXCEPT !.pc = pc].pc = pc BY <1>0 DEF AskType
      <3> QED BY <3>2, <3>3
    <2>2. CASE B!RetryCall(t) /\ old.retries < MaxRetries[t]
      <3> DEFINE new == [pc |-> "queued", retries |-> old.retries + 1, window |-> old.window]
      <3>1. ask' = [ask EXCEPT ![t].pc = "queued", ![t].retries = @ + 1]
        BY <2>2 DEF B!RetryCall
      <3>2. ask' = [ask EXCEPT ![t] = new]
        BY <3>1, <1>0 DEF AskType, BudgetInv, BudgetTypes
      <3>3. new \in AskType /\ new.pc = "queued" BY <1>0 DEF AskType
      <3> QED BY <3>2, <3>3
    <2>3. CASE B!RetryCall(t) /\ ~(old.retries < MaxRetries[t])
      <3>1. ask' = [ask EXCEPT ![t] = [old EXCEPT !.pc = "ended"]] BY <2>3 DEF B!RetryCall
      <3>2. [old EXCEPT !.pc = "ended"] \in AskType /\ [old EXCEPT !.pc = "ended"].pc = "ended"
        BY <1>0 DEF AskType
      <3> QED BY <3>1, <3>2
    <2> QED BY <2>1, <2>2, <2>3
  <1> HIDE DEF old
  <1>2. ask \in [Calls -> AskType] BY DEF BudgetInv, BudgetTypes
  <1> QED BY <1>1, <1>2

\* A minute's history and counter change by n, x and d.
Changes(w, d, n, x) ==
    /\ counter' \in [B!Windows -> Int] /\ counter'[w] = counter[w] + d
    /\ spent' \in [B!Windows -> Nat] /\ spent'[w] = spent[w] + n
    /\ excess' \in [B!Windows -> Nat] /\ excess'[w] = excess[w] + x
    /\ \A v \in B!Windows : v # w => counter'[v] = counter[v] /\ spent'[v] = spent[v] /\ excess'[v] = excess[v]

LEMMA LeaveArithmetic ==
    ASSUME NEW s \in Nat, NEW c \in Int, NEW e \in Nat, NEW l \in Nat, NEW m \in Nat,
           NEW r \in Nat, NEW d \in Int, NEW n \in Nat, NEW x \in Nat,
           s + r <= c + e + l, n - r <= d + x + (m - l)
    PROVE  s + n + 0 <= (c + d) + (e + x) + m
  OBVIOUS

\* The task that has the worker ends its reservation r.
LEMMA LeaveStep ==
    ASSUME BudgetInv, NEW t \in Calls, NEW r \in Nat, NEW d \in Int, NEW n \in Nat, NEW x \in Nat,
           ask[t].pc \in {"call", "cache"}, ask[t].pc = "call" => r = Estimate[t], ask[t].pc = "cache" => r = 0,
           ask' \in [Calls -> AskType],
           \A u \in Calls : u # t => ask'[u] = ask[u],
           ask'[t].pc \in {"queued", "ended", "cache"},
           Changes(ask[t].window, d, n, x),
           failures' \in Nat, Lost' \in Nat, Lost <= Lost',
           n - r <= d + x + (Lost' - Lost), n - r <= x + (Lost' - Lost),
           failures' = 0 => failures = 0 /\ d = n - r,
           now' = now
    PROVE  BudgetInv'
  <1> USE DEF BudgetInv
  <1>0. ask[t] \in AskType BY DEF BudgetTypes
  <1>1. PICK w \in B!Windows : w = ask[t].window BY <1>0 DEF AskType
  <1>2. \A u \in Calls : u # t => ask[u].pc \notin {"call", "cache"} BY DEF OneCall
  <1>3. BudgetTypes' BY <1>1 DEF BudgetTypes, Changes
  <1>4. OneCall' BY <1>2 DEF OneCall
  <1>5. \A v \in B!Windows : B!Reserved(v)' = {} BY <1>2 DEF B!Reserved
  <1>6. \A v \in B!Windows : v # w => B!Reserved(v) = {} BY <1>1, <1>2 DEF B!Reserved
  <1>7. ask[t].pc = "call" => t \in B!Reserved(w) BY <1>1 DEF B!Reserved
  <1>8. ask[t].pc = "cache" => B!Reserved(w) = {} BY <1>2 DEF B!Reserved
  <1>9. Within(w, r) BY <1>7 DEF Granted
  <1>10. counter \in [B!Windows -> Int] /\ spent \in [B!Windows -> Nat] /\ excess \in [B!Windows -> Nat]
    BY DEF BudgetTypes
  <1>11. Lost \in Nat BY LostType
  <1>12. Limit \in Nat BY ServicesAssumption
  <1>13. Changes(w, d, n, x) BY <1>1
  <1>14. ASSUME NEW v \in B!Windows PROVE Within(v, 0)'
    <2>1. CASE v = w
      <3>1. spent[w] + r <= counter[w] + excess[w] + Lost /\ spent[w] + r <= Limit + excess[w] + Lost
        BY <1>9 DEF Within
      <3>2. spent'[w] = spent[w] + n /\ counter'[w] = counter[w] + d /\ excess'[w] = excess[w] + x
        BY <1>13 DEF Changes
      <3>3. spent[w] \in Nat /\ counter[w] \in Int /\ excess[w] \in Nat BY <1>10
      <3>4. spent'[w] + 0 <= counter'[w] + excess'[w] + Lost'
        <4>1. spent[w] + n + 0 <= (counter[w] + d) + (excess[w] + x) + Lost'
          BY <3>1, <3>3, <1>11, LeaveArithmetic
        <4> QED BY <3>2, <4>1
      <3>5. spent'[w] + 0 <= Limit + excess'[w] + Lost'
        <4>a. 0 + x = x OBVIOUS
        <4>1. Limit \in Int /\ 0 \in Int /\ n - r <= 0 + x + (Lost' - Lost) BY <1>12, <4>a
        <4>2. spent[w] + n + 0 <= (Limit + 0) + (excess[w] + x) + Lost'
          BY <3>1, <3>3, <4>1, <1>11, LeaveArithmetic
        <4>3. Limit + 0 = Limit BY <1>12
        <4> QED BY <3>2, <4>2, <4>3
      <3> QED BY <2>1, <3>4, <3>5 DEF Within
    <2>2. CASE v # w
      <3>1. Within(v, 0) BY DEF Granted
      <3> QED BY <2>2, <3>1, <1>10, <1>11, <1>12, <1>13 DEF Within, Changes
    <2> QED BY <2>1, <2>2
  <1>15. Granted' BY <1>5, <1>14 DEF Granted
  <1>16. ASSUME NEW v \in B!Windows, failures' = 0 PROVE counter'[v] = spent'[v]
    <2>0. failures = 0 /\ d = n - r BY <1>16
    <2>1. CASE v # w BY <2>0, <2>1, <1>6, <1>13 DEF Exact, Changes
    <2>2. CASE v = w
      <3>1. counter[w] = spent[w] + r BY <2>0, <1>7, <1>8, <1>10 DEF Exact
      <3> QED BY <3>1, <2>0, <2>2, <1>10, <1>13 DEF Changes
    <2> QED BY <2>1, <2>2
  <1>17. Exact' BY <1>5, <1>16 DEF Exact
  <1> QED BY <1>3, <1>4, <1>15, <1>17

\* A task that finds its answer, or no budget, reserves nothing.
LEMMA RefuseStep ==
    ASSUME BudgetInv, NEW t \in Calls, B!Free,
           ask' \in [Calls -> AskType],
           \A u \in Calls : u # t => ask'[u] = ask[u],
           ask'[t].pc \in {"queued", "ended", "cache"},
           UNCHANGED <<counter, now, spent, excess, failures>>
    PROVE  BudgetInv'
  <1>1. \A v \in B!Windows : B!Reserved(v) = {} /\ B!Reserved(v)' = {} BY DEF B!Free, B!Reserved
  <1>2. BudgetTypes' BY DEF BudgetInv, BudgetTypes
  <1>3. OneCall' BY DEF B!Free, OneCall
  <1>4. Lost' = Lost BY DEF Lost
  <1>5. Granted' BY <1>1, <1>4 DEF BudgetInv, Granted, Within
  <1>6. Exact' BY <1>1 DEF BudgetInv, Exact
  <1> QED BY <1>2, <1>3, <1>5, <1>6 DEF BudgetInv

LEMMA GrantStep ==
    ASSUME BudgetInv, NEW t \in Calls, ask[t].pc = "queued", B!Free,
           counter[now] + Estimate[t] <= Limit, B!Add(now, Estimate[t]),
           ask' = [ask EXCEPT ![t] = [pc |-> "call", retries |-> @.retries, window |-> now]],
           UNCHANGED <<now, spent, excess, failures>>
    PROVE  BudgetInv'
  <1> DEFINE new == [pc |-> "call", retries |-> ask[t].retries, window |-> now]
  <1>a. ask \in [Calls -> AskType] /\ now \in B!Windows BY DEF BudgetInv, BudgetTypes
  <1>b. Estimate[t] \in Nat /\ Limit \in Nat BY ServicesAssumption
  <1>0. ask \in [Calls -> AskType] /\ now \in B!Windows /\ Estimate[t] \in Nat /\ Limit \in Nat BY <1>a, <1>b
  <1>c. ask[t] \in AskType BY <1>a
  <1>1. new \in AskType BY <1>a, <1>c DEF AskType
  <1>2. ask' = [ask EXCEPT ![t] = new] BY <1>a
  <1>3. new.pc = "call" /\ new.window = now OBVIOUS
  <1> HIDE DEF new
  <1>4. counter' = [counter EXCEPT ![now] = @ + Estimate[t]] BY DEF B!Add
  <1>5. counter \in [B!Windows -> Int] /\ spent \in [B!Windows -> Nat] /\ excess \in [B!Windows -> Nat]
    BY DEF BudgetInv, BudgetTypes
  <1>d. ask' \in [Calls -> AskType] BY <1>a, <1>1, <1>2
  <1>e. counter' \in [B!Windows -> Int] BY <1>0, <1>4, <1>5
  <1>6. BudgetTypes' BY <1>d, <1>e DEF BudgetInv, BudgetTypes
  <1>7. \A u \in Calls : ask'[u] = IF u = t THEN new ELSE ask[u] BY <1>0, <1>2
  <1>8. OneCall' BY <1>7 DEF B!Free, OneCall
  <1>9. \A v \in B!Windows : B!Reserved(v) = {} BY DEF B!Free, B!Reserved
  <1>10. B!Reserved(now)' = {t} BY <1>3, <1>7 DEF B!Free, B!Reserved
  <1>11. \A v \in B!Windows : v # now => B!Reserved(v)' = {} BY <1>3, <1>7 DEF B!Free, B!Reserved
  <1>12. Lost' = Lost /\ Lost \in Nat BY LostType DEF Lost
  <1>13. Within(now, 0) BY <1>0 DEF BudgetInv, Granted
  <1>14. counter'[now] = counter[now] + Estimate[t] /\ \A v \in B!Windows : v # now => counter'[v] = counter[v]
    BY <1>0, <1>4, <1>5
  <1>15. /\ spent[now] + Estimate[t] <= counter'[now] + excess[now] + Lost
         /\ spent[now] + Estimate[t] <= Limit + excess[now] + Lost
         /\ spent[now] + 0 <= counter'[now] + excess[now] + Lost
         /\ spent[now] + 0 <= Limit + excess[now] + Lost
    BY <1>0, <1>5, <1>12, <1>13, <1>14 DEF Within
  <1>16. Granted'
    <2>1. ASSUME NEW v \in B!Windows', v # now PROVE Within(v, 0)'
      BY <2>1, <1>12, <1>14 DEF BudgetInv, Granted, Within, B!Windows
    <2>2. Within(now, 0)' /\ Within(now, Estimate[t])' BY <1>12, <1>15 DEF Within
    <2>3. \A v \in B!Windows' : \A u \in B!Reserved(v)' : v = now /\ u = t
      BY <1>10, <1>11 DEF B!Windows
    <2>4. now' = now OBVIOUS
    <2>5. \A v \in B!Windows' : Within(v, 0)' BY <2>1, <2>2, <2>4
    <2> QED BY <2>2, <2>3, <2>5 DEF Granted
  <1>17. Exact'
    <2>1. ASSUME NEW v \in B!Windows, v # now, failures = 0 PROVE counter'[v] = spent'[v]
      BY <2>1, <1>9, <1>14 DEF BudgetInv, Exact
    <2>2. ASSUME failures = 0 PROVE counter'[now] = spent'[now] + Estimate[t]
      BY <2>2, <1>0, <1>9, <1>14 DEF BudgetInv, Exact
    <2> QED BY <2>1, <2>2, <1>10, <1>11 DEF Exact
  <1> QED BY <1>6, <1>8, <1>16, <1>17 DEF BudgetInv

LEMMA AddEffect ==
    ASSUME BudgetInv, NEW w \in B!Windows, NEW d \in Int, B!Add(w, d)
    PROVE  /\ counter' \in [B!Windows -> Int] /\ counter'[w] = counter[w] + d
           /\ \A v \in B!Windows : v # w => counter'[v] = counter[v]
  <1>1. counter' = [counter EXCEPT ![w] = @ + d] BY DEF B!Add
  <1>2. counter \in [B!Windows -> Int] BY DEF BudgetInv, BudgetTypes
  <1> QED BY <1>1, <1>2

\* An answer of n tokens exceeds the estimate by x.
LEMMA AnsweredEffect ==
    ASSUME BudgetInv, NEW t \in Calls, NEW n \in Nat, B!Answered(t, n)
    PROVE  \E x \in Nat :
             /\ n - Estimate[t] <= x /\ (x = 0 \/ x = n - Estimate[t])
             /\ spent' \in [B!Windows -> Nat] /\ spent'[ask[t].window] = spent[ask[t].window] + n
             /\ excess' \in [B!Windows -> Nat] /\ excess'[ask[t].window] = excess[ask[t].window] + x
             /\ \A v \in B!Windows : v # ask[t].window => spent'[v] = spent[v] /\ excess'[v] = excess[v]
  <1>0. ask[t] \in AskType BY DEF BudgetInv, BudgetTypes
  <1>1. PICK w \in B!Windows : w = ask[t].window BY <1>0 DEF AskType
  <1>2. Estimate[t] \in Nat BY ServicesAssumption
  <1>3. PICK x \in Nat : x = IF n > Estimate[t] THEN n - Estimate[t] ELSE 0 BY <1>2
  <1>4. spent' = [spent EXCEPT ![w] = @ + n] /\ excess' = [excess EXCEPT ![w] = @ + x]
    BY <1>1, <1>3 DEF B!Answered
  <1>5. spent \in [B!Windows -> Nat] /\ excess \in [B!Windows -> Nat] BY DEF BudgetInv, BudgetTypes
  <1>6. n - Estimate[t] <= x /\ (x = 0 \/ x = n - Estimate[t]) BY <1>2, <1>3
  <1>7. spent' \in [B!Windows -> Nat] /\ excess' \in [B!Windows -> Nat] BY <1>4, <1>5
  <1>8. spent'[w] = spent[w] + n /\ excess'[w] = excess[w] + x BY <1>4, <1>5
  <1>9. \A v \in B!Windows : v # w => spent'[v] = spent[v] /\ excess'[v] = excess[v] BY <1>4, <1>5
  <1> QED BY <1>1, <1>6, <1>7, <1>8, <1>9

LEMMA BudgetInvStep == BudgetInv /\ [B!Next]_(B!vars) => BudgetInv'
  <1> SUFFICES ASSUME BudgetInv, [B!Next]_(B!vars) PROVE BudgetInv'
    OBVIOUS
  <1>0. Lost \in Nat /\ MaxEstimate \in Nat /\ \A t \in Calls : Estimate[t] \in 0..MaxEstimate
    BY LostType, ServicesAssumption
  <1>1. \A t \in Calls : ask[t] \in AskType /\ ask[t].window \in B!Windows
    BY DEF BudgetInv, BudgetTypes, AskType
  <1>2. CASE UNCHANGED B!vars
    BY <1>2 DEF B!vars, BudgetInv, BudgetTypes, OneCall, Granted, Within, Lost, Exact, B!Reserved
  <1>3. CASE B!MinutePasses \/ \E t \in Calls : B!ResponseExpires(t)
    <2>1. now' \in B!Windows /\ UNCHANGED <<counter, ask, spent, excess, failures>>
      BY <1>3, ServicesAssumption DEF B!MinutePasses, B!ResponseExpires, B!Windows, BudgetInv, BudgetTypes
    <2> QED BY <2>1 DEF BudgetInv, BudgetTypes, OneCall, Granted, Within, Lost, Exact, B!Reserved
  <1>4. ASSUME NEW t \in Calls, B!CacheHit(t) PROVE BudgetInv'
    <2>1. B!Free /\ UNCHANGED <<counter, now, spent, excess, failures>> BY <1>4 DEF B!CacheHit
    <2>2. ask' = [ask EXCEPT ![t].pc = "ended"] BY <1>4 DEF B!CacheHit
    <2> QED BY <2>1, <2>2, RetryCallEffect, RefuseStep
  <1>5. ASSUME NEW t \in Calls, B!ReserveTokenBudget(t) PROVE BudgetInv'
    <2>1. ask[t].pc = "queued" /\ B!Free /\ UNCHANGED <<now, spent, excess, failures>>
      BY <1>5 DEF B!ReserveTokenBudget
    <2>2. CASE counter[now] + Estimate[t] > Limit
      <3>1. B!RetryCall(t) /\ UNCHANGED counter BY <1>5, <2>2 DEF B!ReserveTokenBudget
      <3> QED BY <2>1, <3>1, RetryCallEffect, RefuseStep
    <2>3. CASE ~(counter[now] + Estimate[t] > Limit)
      <3>1. B!Add(now, Estimate[t]) /\ ask' = [ask EXCEPT ![t] = [pc |-> "call", retries |-> @.retries, window |-> now]]
        BY <1>5, <2>3 DEF B!ReserveTokenBudget
      <3>2. counter[now] \in Int /\ Limit \in Int /\ Estimate[t] \in Int
        BY <1>0, ServicesAssumption DEF BudgetInv, BudgetTypes
      <3>3. counter[now] + Estimate[t] <= Limit BY <2>3, <3>2
      <3> QED BY <2>1, <3>1, <3>3, GrantStep
    <2> QED BY <2>2, <2>3
  <1>6. ASSUME NEW t \in Calls, NEW n \in Actual, B!AdjustTokenBudget(t, n) PROVE BudgetInv'
    <2>0. n \in Nat /\ Estimate[t] \in Nat BY <1>0, ServicesAssumption
    <2>1. ask[t].pc = "call" /\ B!Answered(t, n) /\ B!Add(ask[t].window, n - Estimate[t]) /\ UNCHANGED <<now, failures>>
      BY <1>6 DEF B!AdjustTokenBudget
    <2>2. ask' = [ask EXCEPT ![t].pc = "cache"] BY <1>6 DEF B!AdjustTokenBudget
    <2>3. PICK x \in Nat :
             /\ n - Estimate[t] <= x /\ (x = 0 \/ x = n - Estimate[t])
             /\ spent' \in [B!Windows -> Nat] /\ spent'[ask[t].window] = spent[ask[t].window] + n
             /\ excess' \in [B!Windows -> Nat] /\ excess'[ask[t].window] = excess[ask[t].window] + x
             /\ \A v \in B!Windows : v # ask[t].window => spent'[v] = spent[v] /\ excess'[v] = excess[v]
      BY <2>0, <2>1, AnsweredEffect
    <2>4. PICK d \in Int : d = n - Estimate[t] BY <2>0
    <2>5. Changes(ask[t].window, d, n, x) BY <1>1, <2>1, <2>3, <2>4, AddEffect DEF Changes
    <2>6. Lost' = Lost /\ failures' \in Nat BY <2>1 DEF Lost, BudgetInv, BudgetTypes
    <2>7. /\ n - Estimate[t] <= d + x + (Lost' - Lost) /\ n - Estimate[t] <= x + (Lost' - Lost)
          /\ Lost <= Lost' /\ Lost' \in Nat
      BY <1>0, <2>0, <2>3, <2>4, <2>6
    <2>8. /\ ask' \in [Calls -> AskType] /\ ask'[t].pc \in {"queued", "ended", "cache"}
          /\ \A u \in Calls : u # t => ask'[u] = ask[u]
      BY <2>2, RetryCallEffect
    <2>9. failures' = 0 => failures = 0 /\ d = n - Estimate[t] BY <2>1, <2>4
    <2> QED BY <2>0, <2>1, <2>5, <2>6, <2>7, <2>8, <2>9, LeaveStep
  <1>7. ASSUME NEW t \in Calls, B!CacheResponse(t) PROVE BudgetInv'
    <2>1. ask[t].pc = "cache" /\ UNCHANGED <<counter, now, spent, excess, failures>> BY <1>7 DEF B!CacheResponse
    <2>2. ask' = [ask EXCEPT ![t].pc = "ended"] BY <1>7 DEF B!CacheResponse
    <2>3. Changes(ask[t].window, 0, 0, 0) BY <1>1, <2>1 DEF Changes, BudgetInv, BudgetTypes
    <2>4. Lost' = Lost /\ failures' \in Nat BY <2>1 DEF Lost, BudgetInv, BudgetTypes
    <2>5. 0 - 0 <= 0 + 0 + (Lost' - Lost) /\ 0 - 0 <= 0 + (Lost' - Lost) /\ Lost <= Lost' BY <1>0, <2>4
    <2>6. /\ ask' \in [Calls -> AskType] /\ ask'[t].pc \in {"queued", "ended", "cache"}
          /\ \A u \in Calls : u # t => ask'[u] = ask[u]
      BY <2>2, RetryCallEffect
    <2>7. failures' = 0 => failures = 0 /\ 0 = 0 - 0 BY <2>1
    <2>8. 0 \in Nat /\ 0 \in Int OBVIOUS
    <2> QED BY <1>0, <2>1, <2>3, <2>4, <2>5, <2>6, <2>7, <2>8, LeaveStep
  <1>8. ASSUME NEW t \in Calls, B!CallFails(t) PROVE BudgetInv'
    <2>0. Estimate[t] \in Nat BY <1>0
    <2>1. ask[t].pc = "call" /\ B!Add(ask[t].window, -Estimate[t]) /\ UNCHANGED <<now, spent, excess, failures>>
      BY <1>8 DEF B!CallFails, B!ReleaseTokenBudget
    <2>2. /\ ask' \in [Calls -> AskType] /\ ask'[t].pc \in {"queued", "ended", "cache"}
          /\ \A u \in Calls : u # t => ask'[u] = ask[u]
      <3>1. B!RetryCall(t) \/ ask' = [ask EXCEPT ![t].pc = "ended"]
        BY <1>8 DEF B!CallFails, B!ReleaseTokenBudget
      <3> QED BY <3>1, RetryCallEffect
    <2>3. PICK d \in Int : d = -Estimate[t] BY <2>0
    <2>4. Changes(ask[t].window, d, 0, 0) BY <1>1, <2>1, <2>3, AddEffect DEF Changes, BudgetInv, BudgetTypes
    <2>5. Lost' = Lost /\ failures' \in Nat BY <2>1 DEF Lost, BudgetInv, BudgetTypes
    <2>6. /\ 0 - Estimate[t] <= d + 0 + (Lost' - Lost) /\ 0 - Estimate[t] <= 0 + (Lost' - Lost)
          /\ Lost <= Lost'
      BY <1>0, <2>0, <2>3, <2>5
    <2>7. failures' = 0 => failures = 0 /\ d = 0 - Estimate[t] BY <2>0, <2>1, <2>3
    <2> QED BY <1>0, <2>0, <2>1, <2>2, <2>4, <2>5, <2>6, <2>7, LeaveStep
  <1>9. ASSUME NEW t \in Calls, NEW n \in Actual, B!AnswerIsLost(t, n) PROVE BudgetInv'
    <2>0. n \in Nat /\ Estimate[t] \in Nat /\ Estimate[t] <= MaxEstimate BY <1>0, ServicesAssumption
    <2>1. ask[t].pc = "call" /\ B!Fault /\ B!Answered(t, n) /\ B!Add(ask[t].window, -Estimate[t]) /\ now' = now
      BY <1>9 DEF B!AnswerIsLost, B!ReleaseTokenBudget
    <2>2. /\ ask' \in [Calls -> AskType] /\ ask'[t].pc \in {"queued", "ended", "cache"}
          /\ \A u \in Calls : u # t => ask'[u] = ask[u]
      <3>1. B!RetryCall(t) \/ ask' = [ask EXCEPT ![t].pc = "ended"]
        BY <1>9 DEF B!AnswerIsLost, B!ReleaseTokenBudget
      <3> QED BY <3>1, RetryCallEffect
    <2>3. PICK x \in Nat :
             /\ n - Estimate[t] <= x /\ (x = 0 \/ x = n - Estimate[t])
             /\ spent' \in [B!Windows -> Nat] /\ spent'[ask[t].window] = spent[ask[t].window] + n
             /\ excess' \in [B!Windows -> Nat] /\ excess'[ask[t].window] = excess[ask[t].window] + x
             /\ \A v \in B!Windows : v # ask[t].window => spent'[v] = spent[v] /\ excess'[v] = excess[v]
      BY <2>0, <2>1, AnsweredEffect
    <2>4. PICK d \in Int : d = -Estimate[t] BY <2>0
    <2>5. Changes(ask[t].window, d, n, x) BY <1>1, <2>1, <2>3, <2>4, AddEffect DEF Changes
    <2>6. Lost' = Lost + MaxEstimate /\ failures' \in Nat /\ failures' # 0 BY <2>1, LostGrows
    <2>7. /\ n - Estimate[t] <= d + x + (Lost' - Lost) /\ n - Estimate[t] <= x + (Lost' - Lost)
          /\ Lost <= Lost' /\ Lost' \in Nat
      BY <1>0, <2>0, <2>3, <2>4, <2>6
    <2> QED BY <2>0, <2>1, <2>2, <2>5, <2>6, <2>7, LeaveStep
  <1>10. ASSUME NEW t \in Calls, B!CacheFails(t) PROVE BudgetInv'
    <2>0. Estimate[t] \in Nat /\ Estimate[t] <= MaxEstimate BY <1>0
    <2>1. /\ ask[t].pc = "cache" /\ B!Fault /\ B!Add(ask[t].window, -Estimate[t])
          /\ UNCHANGED <<now, spent, excess>>
      BY <1>10 DEF B!CacheFails, B!ReleaseTokenBudget
    <2>2. /\ ask' \in [Calls -> AskType] /\ ask'[t].pc \in {"queued", "ended", "cache"}
          /\ \A u \in Calls : u # t => ask'[u] = ask[u]
      <3>1. B!RetryCall(t) \/ ask' = [ask EXCEPT ![t].pc = "ended"]
        BY <1>10 DEF B!CacheFails, B!ReleaseTokenBudget
      <3> QED BY <3>1, RetryCallEffect
    <2>3. PICK d \in Int : d = -Estimate[t] BY <2>0
    <2>4. Changes(ask[t].window, d, 0, 0) BY <1>1, <2>1, <2>3, AddEffect DEF Changes, BudgetInv, BudgetTypes
    <2>5. Lost' = Lost + MaxEstimate /\ failures' \in Nat /\ failures' # 0 BY <2>1, LostGrows
    <2>6. /\ 0 - 0 <= d + 0 + (Lost' - Lost) /\ 0 - 0 <= 0 + (Lost' - Lost)
          /\ Lost <= Lost' /\ Lost' \in Nat
      BY <1>0, <2>0, <2>3, <2>5
    <2>7. 0 \in Nat OBVIOUS
    <2> QED BY <2>1, <2>2, <2>4, <2>5, <2>6, <2>7, LeaveStep
  <1>11. ASSUME NEW t \in Calls, B!TaskLost(t) PROVE BudgetInv'
    <2>0. Estimate[t] \in Nat /\ Actual \subseteq Nat BY <1>0, ServicesAssumption
    <2>1. ask[t].pc \in {"call", "cache"} /\ B!Fault /\ UNCHANGED <<counter, now>> BY <1>11 DEF B!TaskLost
    <2>2. /\ ask' \in [Calls -> AskType] /\ ask'[t].pc \in {"queued", "ended", "cache"}
          /\ \A u \in Calls : u # t => ask'[u] = ask[u]
      <3>1. \E pc \in {"ended", "queued"} : ask' = [ask EXCEPT ![t].pc = pc] BY <1>11 DEF B!TaskLost
      <3> QED BY <3>1, RetryCallEffect
    <2>3. Lost' = Lost + MaxEstimate /\ failures' \in Nat /\ failures' # 0 BY <2>1, LostGrows
    <2>4. Lost <= Lost' /\ Lost' \in Nat BY <1>0, <2>3
    <2>5. PICK r \in Nat : (ask[t].pc = "call" => r = Estimate[t]) /\ (ask[t].pc = "cache" => r = 0)
      BY <2>0, <2>1
    <2>6. CASE UNCHANGED <<spent, excess>>
      <3>1. Changes(ask[t].window, 0, 0, 0) BY <1>1, <2>1, <2>6 DEF Changes, BudgetInv, BudgetTypes
      <3>2. 0 - r <= 0 + 0 + (Lost' - Lost) /\ 0 - r <= 0 + (Lost' - Lost) BY <1>0, <2>3
      <3>3. 0 \in Nat /\ 0 \in Int OBVIOUS
      <3> QED BY <2>1, <2>2, <2>3, <2>4, <2>5, <3>1, <3>2, <3>3, LeaveStep
    <2>7. ASSUME ask[t].pc = "call", NEW n \in Actual, B!Answered(t, n) PROVE BudgetInv'
      <3>0. n \in Nat BY <2>0
      <3>1. PICK x \in Nat :
               /\ n - Estimate[t] <= x /\ (x = 0 \/ x = n - Estimate[t])
               /\ spent' \in [B!Windows -> Nat] /\ spent'[ask[t].window] = spent[ask[t].window] + n
               /\ excess' \in [B!Windows -> Nat] /\ excess'[ask[t].window] = excess[ask[t].window] + x
               /\ \A v \in B!Windows : v # ask[t].window => spent'[v] = spent[v] /\ excess'[v] = excess[v]
        BY <2>7, <3>0, AnsweredEffect
      <3>2. Changes(ask[t].window, 0, n, x) BY <1>1, <2>1, <3>1 DEF Changes, BudgetInv, BudgetTypes
      <3>3. r = Estimate[t] BY <2>5, <2>7
      <3>4. n - r <= 0 + x + (Lost' - Lost) /\ n - r <= x + (Lost' - Lost) BY <1>0, <2>0, <2>3, <3>0, <3>1, <3>3
      <3>5. 0 \in Int OBVIOUS
      <3> QED BY <2>1, <2>2, <2>3, <2>4, <2>5, <3>0, <3>2, <3>4, <3>5, LeaveStep
    <2> QED BY <1>11, <2>6, <2>7 DEF B!TaskLost
  <1> QED BY <1>2, <1>3, <1>4, <1>5, <1>6, <1>7, <1>8, <1>9, <1>10, <1>11 DEF B!Next

LEMMA BudgetInvHolds == BudgetInv => BudgetHolds
  <1> SUFFICES ASSUME BudgetInv PROVE BudgetHolds OBVIOUS
  <1>1. \A w \in B!Windows : spent[w] <= Limit + excess[w] + failures * MaxEstimate
    BY DEF BudgetInv, BudgetTypes, Granted, Within, Lost
  <1> QED BY <1>1 DEF BudgetInv, Exact, BudgetHolds, B!BudgetHolds

\* TokenBudget.BudgetHolds for every number of tasks, estimates, limit and
\* faults: what the model uses for the reservations of a minute stays within
\* TOKEN_BUDGET_PER_MINUTE, but for longer answers and one estimate per
\* fault, and without faults the Redis counter is exact.
THEOREM BudgetIsKept == B!Spec => []BudgetHolds
  <1>1. B!Init => BudgetInv BY BudgetInvInit
  <1>2. BudgetInv /\ [B!Next]_(B!vars) => BudgetInv' BY BudgetInvStep
  <1>3. BudgetInv => BudgetHolds BY BudgetInvHolds
  <1> QED BY <1>1, <1>2, <1>3, PTL DEF B!Spec

-----------------------------------------------------------------------------
(***************************************************************************)
(* Notifications.  While a channel is still to be notified it has accepted *)
(* the event at most once per fault, and without a fault not at all.       *)
(***************************************************************************)
NotifyType == [pc : {"queued", "send", "reported", "ended"}, retries : Nat, todo : SUBSET Channels,
               sent : SUBSET Channels, failed : SUBSET Channels, skipped : SUBSET Channels]

NotifyTypes == notify \in NotifyType /\ told \in [Channels -> Nat] /\ faults \in Nat

ToBeTold(c) == notify.pc = "queued" \/ (notify.pc = "send" /\ c \in notify.todo)

ChannelsInTime == \A c \in Channels : told[c] <= 1 + faults /\ (ToBeTold(c) => told[c] <= faults)

SentIsTold == faults = 0 => \A c \in notify.sent : told[c] = 1

NotifyInv == NotifyTypes /\ ChannelsInTime /\ SentIsTold

LEMMA NotifyInvInit == N!Init => NotifyInv
  <1> SUFFICES ASSUME N!Init PROVE NotifyInv OBVIOUS
  <1>1. {} \cup Channels = Channels OBVIOUS
  <1>2. told = [c \in Channels |-> 0] /\ faults = 0 BY <1>1 DEF N!Init
  <1>3. notify = [pc |-> "queued", retries |-> 0, todo |-> {}, sent |-> {}, failed |-> {}, skipped |-> {}]
    BY DEF N!Init
  <1>4. notify \in NotifyType /\ notify.sent = {} BY <1>3 DEF NotifyType
  <1> QED BY <1>2, <1>4 DEF NotifyInv, NotifyTypes, ChannelsInTime, SentIsTold

\* What a step may do to the report and the history of the channels.
LEMMA NotifyRetries ==
    ASSUME NotifyInv, notify.pc = "send"
    PROVE  \A pc \in {"queued", "reported", "ended"} :
             /\ [notify EXCEPT !.pc = pc] \in NotifyType
             /\ [notify EXCEPT !.pc = pc].pc = pc
             /\ [notify EXCEPT !.pc = pc].sent = notify.sent
             /\ N!Again(notify) \in NotifyType /\ N!Again(notify).pc = "queued"
             /\ N!RetryTask(notify) \in NotifyType /\ N!RetryTask(notify).pc \in {"queued", "ended"}
  <1>1. PICK n \in NotifyType : n = notify BY DEF NotifyInv, NotifyTypes
  <1>2. \A pc \in {"queued", "reported", "ended"} :
           [n EXCEPT !.pc = pc] \in NotifyType /\ [n EXCEPT !.pc = pc].pc = pc /\ [n EXCEPT !.pc = pc].sent = n.sent
    BY DEF NotifyType
  <1>3. [n EXCEPT !.pc = "queued", !.retries = n.retries + 1] \in NotifyType
    <2>1. PICK m \in NotifyType : m = [n EXCEPT !.pc = "queued"] BY <1>2
    <2>2. PICK k \in Nat : k = n.retries + 1 BY DEF NotifyType
    <2>3. [m EXCEPT !.retries = k] \in NotifyType BY DEF NotifyType
    <2>4. [n EXCEPT !.pc = "queued", !.retries = k] = [m EXCEPT !.retries = k] BY <2>1
    <2> QED BY <2>2, <2>3, <2>4
  <1>4. [n EXCEPT !.pc = "queued", !.retries = n.retries + 1].pc = "queued" BY DEF NotifyType
  <1>5. N!Again(n) = [n EXCEPT !.pc = "queued", !.retries = n.retries + 1] BY DEF N!Again, NotifyType
  <1>6. N!RetryTask(n) \in NotifyType /\ N!RetryTask(n).pc \in {"queued", "ended"}
    BY <1>2, <1>3, <1>4, <1>5 DEF N!RetryTask
  <1> QED BY <1>1, <1>2, <1>3, <1>4, <1>5, <1>6

LEMMA NotifyInvStep == NotifyInv /\ [N!Next]_(N!vars) => NotifyInv'
  <1> SUFFICES ASSUME NotifyInv, [N!Next]_(N!vars) PROVE NotifyInv' OBVIOUS
  <1> USE DEF NotifyInv, NotifyTypes
  <1>1. ASSUME UNCHANGED <<notify, told>>, faults' \in Nat, faults <= faults' PROVE NotifyInv'
    <2>1. ChannelsInTime' BY <1>1 DEF ChannelsInTime, ToBeTold
    <2>2. SentIsTold' BY <1>1 DEF SentIsTold
    <2> QED BY <1>1, <2>1, <2>2
  <1>2. CASE UNCHANGED N!vars
    <2>1. UNCHANGED <<notify, told>> /\ faults' \in Nat /\ faults <= faults' BY <1>2 DEF N!vars
    <2> QED BY <1>1, <2>1
  <1>3. CASE N!FanReads \/ N!FanEnds \/ N!FanFails
    <2>1. UNCHANGED <<notify, told>> /\ faults' \in Nat /\ faults <= faults'
      BY <1>3 DEF N!FanReads, N!FanEnds, N!FanFails, N!Fault, N!history
    <2> QED BY <1>1, <2>1
  \* A fault makes room for one more acceptance.
  <1>4. ASSUME UNCHANGED told, faults' = faults + 1, notify' \in NotifyType, notify'.pc \in {"queued", "ended"}
        PROVE  NotifyInv'
    <2>1. ChannelsInTime' BY <1>4 DEF ChannelsInTime, ToBeTold
    <2>2. SentIsTold' BY <1>4 DEF SentIsTold
    <2> QED BY <1>4, <2>1, <2>2
  <1>5. CASE N!NotifyRaises
    <2>1. UNCHANGED told /\ faults' = faults + 1 /\ notify' = N!RetryTask(notify) /\ notify.pc = "send"
      BY <1>5 DEF N!NotifyRaises, N!Fault, N!history
    <2> QED BY <1>4, <2>1, NotifyRetries
  <1>6. CASE N!NodeLost
    <2>1. UNCHANGED told /\ faults' = faults + 1 BY <1>6 DEF N!NodeLost, N!Fault, N!history
    <2>2. UNCHANGED notify \/ (notify.pc = "send" /\ notify' = [notify EXCEPT !.pc = "queued"])
      BY <1>6 DEF N!NodeLost
    <2>3. CASE UNCHANGED notify
      <3>1. faults' \in Nat /\ faults <= faults' BY <2>1
      <3> QED BY <1>1, <2>1, <2>3, <3>1
    <2>4. CASE notify.pc = "send" /\ notify' = [notify EXCEPT !.pc = "queued"]
      BY <1>4, <2>1, <2>4, NotifyRetries
    <2> QED BY <2>2, <2>3, <2>4
  <1>7. CASE N!NotifyReads
    <2>1. PICK gone \in SUBSET Channels :
             notify' = [notify EXCEPT !.pc = "send", !.todo = Channels \ gone,
                                      !.sent = {}, !.failed = {}, !.skipped = {}]
      BY <1>7 DEF N!NotifyReads
    <2>2. notify.pc = "queued" /\ UNCHANGED <<told, faults>> BY <1>7 DEF N!NotifyReads, N!history
    <2>3. notify' \in NotifyType /\ notify'.sent = {} BY <2>1 DEF NotifyType
    <2>4. ChannelsInTime' BY <2>2 DEF ChannelsInTime, ToBeTold
    <2>5. SentIsTold' BY <2>3 DEF SentIsTold
    <2> QED BY <2>2, <2>3, <2>4, <2>5
  <1>8. CASE N!NotifyEnds
    <2>1. notify' = [notify EXCEPT !.pc = "reported"] /\ notify.pc = "send" /\ UNCHANGED <<told, faults>>
      BY <1>8 DEF N!NotifyEnds, N!history
    <2>2. notify' \in NotifyType /\ notify'.pc = "reported" /\ notify'.sent = notify.sent BY <2>1, NotifyRetries
    <2>3. ChannelsInTime' BY <2>1, <2>2 DEF ChannelsInTime, ToBeTold
    <2>4. SentIsTold' BY <2>1, <2>2 DEF SentIsTold
    <2> QED BY <2>1, <2>2, <2>3, <2>4
  <1>9. ASSUME NEW c \in Channels, N!Notify(c) PROVE NotifyInv'
    <2>0. notify.pc = "send" /\ c \in notify.todo /\ UNCHANGED faults BY <1>9 DEF N!Notify
    <2>1. CASE notify' = [notify EXCEPT !.todo = @ \ {c}, !.sent = @ \cup {c}] /\ N!Tell(c)
      <3>1. notify' \in NotifyType /\ notify'.pc = "send" /\ notify'.todo = notify.todo \ {c}
            /\ notify'.sent = notify.sent \cup {c}
        BY <2>0, <2>1 DEF NotifyType
      <3>2. told' = [told EXCEPT ![c] = @ + 1] BY <2>1 DEF N!Tell
      <3>3. told' \in [Channels -> Nat] BY <3>2
      <3>4. told'[c] = told[c] + 1 /\ \A d \in Channels : d # c => told'[d] = told[d] BY <3>2
      <3>5. told[c] <= faults BY <2>0 DEF ChannelsInTime, ToBeTold
      <3>6. ChannelsInTime' BY <2>0, <3>1, <3>4, <3>5 DEF ChannelsInTime, ToBeTold
      <3>7. notify.sent \subseteq Channels BY DEF NotifyType
      <3>8. faults = 0 => told[c] = 0 BY <3>5
      <3>9. SentIsTold' BY <2>0, <3>1, <3>4, <3>7, <3>8 DEF SentIsTold
      <3> QED BY <2>0, <3>1, <3>3, <3>6, <3>9
    <2>2. ASSUME UNCHANGED told, notify' \in NotifyType, notify'.pc = "send", notify'.todo = notify.todo \ {c},
                 notify'.sent = notify.sent
          PROVE  NotifyInv'
      <3>1. ChannelsInTime' BY <2>0, <2>2 DEF ChannelsInTime, ToBeTold
      <3>2. SentIsTold' BY <2>0, <2>2 DEF SentIsTold
      <3> QED BY <2>0, <2>2, <3>1, <3>2
    <2>3. CASE notify' = [notify EXCEPT !.todo = @ \ {c}, !.failed = @ \cup {c}] /\ UNCHANGED told
      <3>1. /\ notify' \in NotifyType /\ notify'.pc = "send" /\ notify'.todo = notify.todo \ {c}
            /\ notify'.sent = notify.sent
        BY <2>0, <2>3 DEF NotifyType
      <3> QED BY <2>2, <2>3, <3>1
    <2>4. CASE notify' = [notify EXCEPT !.todo = @ \ {c}, !.skipped = @ \cup {c}] /\ UNCHANGED told
      <3>1. /\ notify' \in NotifyType /\ notify'.pc = "send" /\ notify'.todo = notify.todo \ {c}
            /\ notify'.sent = notify.sent
        BY <2>0, <2>4 DEF NotifyType
      <3> QED BY <2>2, <2>4, <3>1
    <2> QED BY <1>9, <2>1, <2>3, <2>4 DEF N!Notify
  <1> QED BY <1>2, <1>3, <1>5, <1>6, <1>7, <1>8, <1>9 DEF N!Next

LEMMA NotifyInvHolds == NotifyInv => N!ToldOnce /\ N!HistoryIsTruthful
  <1> SUFFICES ASSUME NotifyInv PROVE N!ToldOnce /\ N!HistoryIsTruthful OBVIOUS
  <1>1. N!ToldOnce
    <2>1. \A c \in Channels : told[c] <= 1 + faults BY DEF NotifyInv, ChannelsInTime
    <2> QED BY <2>1 DEF N!ToldOnce
  <1>2. ASSUME faults = 0, N!delivery_status = "delivered", NEW c \in Channels
        PROVE  told[c] = 1 \/ c \notin notify.sent \cup notify.failed \cup notify.skipped
    <2>1. notify.failed \cup notify.skipped = {} BY <1>2 DEF N!delivery_status
    <2> QED BY <1>2, <2>1 DEF NotifyInv, SentIsTold
  <1> QED BY <1>1, <1>2 DEF N!HistoryIsTruthful

\* Outbound's properties of notifications, for any channels, retries and
\* faults: a channel is told once and once more for each fault, and when all
\* is reported "delivered" nobody was left out.
THEOREM NotificationsHold == N!Spec => [](N!ToldOnce /\ N!HistoryIsTruthful)
  <1>1. N!Init => NotifyInv BY NotifyInvInit
  <1>2. NotifyInv /\ [N!Next]_(N!vars) => NotifyInv' BY NotifyInvStep
  <1>3. NotifyInv => N!ToldOnce /\ N!HistoryIsTruthful BY NotifyInvHolds
  <1> QED BY <1>1, <1>2, <1>3, PTL DEF N!Spec

-----------------------------------------------------------------------------
(***************************************************************************)
(* Webhooks.  The deliveries queued for a webhook and the one that the     *)
(* fan-out may still owe it are no more than one and one for each fault.   *)
(* A delivery that may still be accepted has been accepted only unheard or *)
(* at a fault, and its requests are those of its retries.  Without a fault *)
(* the history of each delivery is exact in every state of its task.       *)
(***************************************************************************)
\* What a request ends in.
Answers == W!Answers
FanType == [pc : {"queued", "fan", "ended"}, retries : Nat, todo : SUBSET Hooks]
TaskType == [pc : {"none", "queued", "post", "record", "raised", "ended"}, hook : Hooks \cup {None},
             retries : Nat, answer : Answers \cup {None}]
RowType == [attempt : Nat, status : BOOLEAN, delivered : BOOLEAN]

WebTypes ==
    /\ hook \in [Hooks -> BOOLEAN] /\ fan \in FanType /\ delivery \in [Deliveries -> TaskType]
    /\ rows \in [Deliveries -> Seq(RowType)] /\ answers \in [Deliveries -> Seq(Answers)]
    /\ told \in [Deliveries -> Nat] /\ unheard \in [Deliveries -> Nat] /\ faults \in Nat

Assigned == \A t \in Deliveries : delivery[t].pc = "none" <=> delivery[t].hook = None

Pending(h) == fan.pc = "queued" \/ (fan.pc = "fan" /\ h \in fan.todo)
Owed(h) == IF Pending(h) THEN 1 ELSE 0

QueuedInTime == \A h \in Hooks : Cardinality(W!Of(h)) + Owed(h) <= 1 + faults

\* A delivery in state d may still be accepted.
Open(d) == d.pc \in {"queued", "post", "raised"} \/ (d.pc = "record" /\ ~W!Success(d.answer))

\* The rows s are those of the first k attempts, which ended in outs.
Given(outs, k, r) == \E n \in 1..k : r \in W!RowsOf(n, outs[n])
Shows(s, outs, k) == \A r \in RowType : (\E i \in DOMAIN s : s[i] = r) <=> Given(outs, k, r)
Once(s) == \A i, j \in DOMAIN s : s[i] = s[j] => i = j
Heard(outs) == \E n \in DOMAIN outs : W!Success(outs[n])
Refused(n) == [attempt |-> n, status |-> TRUE, delivered |-> FALSE]

\* A delivery in state d has the rows s after requests that ended in outs, a
\* of them accepted and u of these unheard.
Faithful(d, s, outs, a, u) ==
    /\ Once(s)
    /\ a > u <=> Heard(outs)
    /\ d.pc \in {"queued", "post"} => Len(outs) = d.retries /\ Shows(s, outs, d.retries)
    /\ d.pc = "record" =>
         /\ Len(outs) = d.retries + 1 /\ outs[d.retries + 1] = d.answer /\ d.answer # "other_error"
         /\ Shows(s, outs, d.retries)
    /\ d.pc = "raised" =>
         /\ Len(outs) = d.retries + 1 /\ outs[d.retries + 1] = "error_status"
         /\ \A r \in RowType : (\E i \in DOMAIN s : s[i] = r) <=> Given(outs, d.retries, r) \/ r = Refused(d.retries + 1)
    /\ d.pc = "ended" => Shows(s, outs, Len(outs))

\* The same after f faults, when the webhook is there.
Sound(d, s, outs, a, u, f, there) ==
    /\ u <= a /\ a <= Len(outs)
    /\ a <= 1 + u + f /\ (Open(d) => a <= u + f)
    /\ d.retries <= DeliverRetries /\ (d.pc = "record" => d.answer \in Answers \ {"other_error"})
    /\ Len(outs) <= 1 + d.retries + f /\ (d.pc \in {"queued", "post"} => Len(outs) <= d.retries + f)
    /\ f = 0 /\ there => Faithful(d, s, outs, a, u)

Untouched(t) == rows[t] = <<>> /\ answers[t] = <<>> /\ told[t] = 0 /\ unheard[t] = 0

Recorded ==
    \A t \in Deliveries :
        /\ delivery[t].pc = "none" => Untouched(t)
        /\ delivery[t].pc # "none" =>
             Sound(delivery[t], rows[t], answers[t], told[t], unheard[t], faults, hook[delivery[t].hook])

WebInv == WebTypes /\ Assigned /\ QueuedInTime /\ Recorded

LEMMA OfFinite == \A h : IsFiniteSet(W!Of(h)) /\ Cardinality(W!Of(h)) \in Nat
  <1>1. \A h : W!Of(h) \subseteq Deliveries BY DEF W!Of
  <1>2. \A h : IsFiniteSet(W!Of(h)) BY <1>1, ServicesAssumption, FS_Subset
  <1> QED BY <1>2, FS_CardinalityType

LEMMA WebInvInit == W!Init => WebInv
  <1> SUFFICES ASSUME W!Init PROVE WebInv OBVIOUS
  <1>1. Deliveries \cup {} = Deliveries OBVIOUS
  <1>2. told = [x \in Deliveries |-> 0] /\ unheard = [x \in Deliveries |-> 0] /\ faults = 0 BY <1>1 DEF W!Init
  <1>3. W!Unused \in TaskType /\ W!Unused.pc = "none" /\ W!Unused.hook = None BY DEF W!Unused, TaskType
  <1>4. delivery = [t \in Deliveries |-> W!Unused] /\ rows = [t \in Deliveries |-> <<>>]
        /\ answers = [t \in Deliveries |-> <<>>] /\ hook = [h \in Hooks |-> TRUE]
    BY DEF W!Init
  <1>5. fan \in FanType /\ fan.pc = "queued" BY DEF W!Init, FanType
  <1>6. <<>> \in Seq(RowType) /\ <<>> \in Seq(Answers) OBVIOUS
  <1>7. WebTypes BY <1>2, <1>3, <1>4, <1>5, <1>6 DEF WebTypes
  <1>8. Assigned BY <1>3, <1>4 DEF Assigned
  <1>9. \A h \in Hooks : W!Of(h) = {} BY <1>3, <1>4, ServicesAssumption DEF W!Of
  <1>10. Cardinality({}) = 0 BY FS_EmptySet
  <1>11. \A h \in Hooks : Owed(h) = 1 BY <1>5 DEF Owed, Pending
  <1>12. QueuedInTime BY <1>2, <1>9, <1>10, <1>11 DEF QueuedInTime
  <1>13. Recorded BY <1>2, <1>3, <1>4 DEF Recorded, Untouched
  <1> QED BY <1>7, <1>8, <1>12, <1>13 DEF WebInv

-----------------------------------------------------------------------------
\* The rows of an attempt have its number, and show a success for a success.
LEMMA RowsOfAttempt ==
    ASSUME NEW n \in Nat, NEW a \in Answers
    PROVE  /\ \A r \in W!RowsOf(n, a) : r \in RowType /\ r.attempt = n /\ (r.delivered <=> W!Success(a))
           /\ a # "other_error" => W!RowsOf(n, a) # {}
           /\ W!Success(a) => W!RowsOf(n, a) = {[attempt |-> n, status |-> TRUE, delivered |-> TRUE]}
           /\ a = "error_status" =>
                W!RowsOf(n, a) = {Refused(n), [attempt |-> n, status |-> FALSE, delivered |-> FALSE]}
           /\ a = "other_error" => W!RowsOf(n, a) = {}
           /\ a \in {"no_answer", "blocked"} =>
                W!RowsOf(n, a) = {[attempt |-> n, status |-> FALSE, delivered |-> FALSE]}
  <1>1. CASE a = "2xx"
    <2>1. W!Success(a) /\ a # "error_status" /\ a # "other_error" /\ a \notin {"no_answer", "blocked"}
      BY <1>1 DEF W!Success
    <2>2. W!RowsOf(n, a) = {[attempt |-> n, status |-> TRUE, delivered |-> TRUE]} BY <2>1 DEF W!RowsOf
    <2>3. PICK r : r = [attempt |-> n, status |-> TRUE, delivered |-> TRUE] OBVIOUS
    <2>4. r \in RowType /\ r.attempt = n /\ r.delivered = TRUE BY <2>3 DEF RowType
    <2> QED BY <2>1, <2>2, <2>3, <2>4
  <1>2. CASE a = "error_status"
    <2>1. W!RowsOf(n, a) = {[attempt |-> n, status |-> s, delivered |-> FALSE] : s \in BOOLEAN}
      BY <1>2 DEF W!RowsOf, W!Success
    <2>2. W!RowsOf(n, a) = {Refused(n), [attempt |-> n, status |-> FALSE, delivered |-> FALSE]}
      <3>1. \A r \in W!RowsOf(n, a) : r \in {Refused(n), [attempt |-> n, status |-> FALSE, delivered |-> FALSE]}
        BY <2>1 DEF Refused
      <3>2. Refused(n) \in W!RowsOf(n, a) BY <2>1 DEF Refused
      <3>3. [attempt |-> n, status |-> FALSE, delivered |-> FALSE] \in W!RowsOf(n, a) BY <2>1
      <3> QED BY <3>1, <3>2, <3>3
    <2>3. ~W!Success(a) BY <1>2 DEF W!Success
    <2>4. \A r \in W!RowsOf(n, a) : r \in RowType /\ r.attempt = n /\ r.delivered = FALSE
      <3>1. PICK r : r = Refused(n) OBVIOUS
      <3>2. PICK q : q = [attempt |-> n, status |-> FALSE, delivered |-> FALSE] OBVIOUS
      <3>3. r \in RowType /\ r.attempt = n /\ r.delivered = FALSE BY <3>1 DEF RowType, Refused
      <3>4. q \in RowType /\ q.attempt = n /\ q.delivered = FALSE BY <3>2 DEF RowType
      <3> QED BY <2>2, <3>1, <3>2, <3>3, <3>4
    <2> QED BY <1>2, <2>2, <2>3, <2>4
  <1>3. CASE a = "other_error" BY <1>3 DEF W!RowsOf, W!Success
  <1>4. CASE a \in {"no_answer", "blocked"}
    <2>1. ~W!Success(a) /\ a # "error_status" /\ a # "other_error" BY <1>4 DEF W!Success
    <2>2. W!RowsOf(n, a) = {[attempt |-> n, status |-> FALSE, delivered |-> FALSE]} BY <2>1 DEF W!RowsOf
    <2>3. PICK r : r = [attempt |-> n, status |-> FALSE, delivered |-> FALSE] OBVIOUS
    <2>4. r \in RowType /\ r.attempt = n /\ r.delivered = FALSE BY <2>3 DEF RowType
    <2> QED BY <1>4, <2>1, <2>2, <2>3, <2>4
  <1> QED BY <1>1, <1>2, <1>3, <1>4 DEF Answers, W!Answers

\* What the first k attempts give has their numbers.
LEMMA GivenAttempts ==
    ASSUME NEW outs \in Seq(Answers), NEW k \in 0..Len(outs), NEW r, Given(outs, k, r)
    PROVE  r \in RowType /\ r.attempt \in 1..k
  <1>1. PICK n \in 1..k : r \in W!RowsOf(n, outs[n]) BY DEF Given
  <1>2. n \in Nat /\ outs[n] \in Answers OBVIOUS
  <1>3. r \in RowType /\ r.attempt = n BY <1>1, <1>2, RowsOfAttempt
  <1> QED BY <1>1, <1>3

LEMMA GivenNext ==
    ASSUME NEW outs, NEW k \in Nat
    PROVE  \A r : Given(outs, k + 1, r) <=> Given(outs, k, r) \/ r \in W!RowsOf(k + 1, outs[k + 1])
  <1>1. 1..(k + 1) = 1..k \cup {k + 1} OBVIOUS
  <1> QED BY <1>1 DEF Given

\* An attempt more does not change what the earlier ones give.
LEMMA GivenKeeps ==
    ASSUME NEW outs \in Seq(Answers), NEW a \in Answers
    PROVE  /\ Append(outs, a) \in Seq(Answers) /\ Len(Append(outs, a)) = Len(outs) + 1
           /\ Append(outs, a)[Len(outs) + 1] = a
           /\ \A k \in 0..Len(outs) : \A r : Given(Append(outs, a), k, r) <=> Given(outs, k, r)
           /\ Heard(Append(outs, a)) <=> Heard(outs) \/ W!Success(a)
  <1> DEFINE b == Append(outs, a)
  <1>1. /\ b \in Seq(Answers) /\ Len(b) = Len(outs) + 1 /\ b[Len(outs) + 1] = a /\ Len(outs) \in Nat
        /\ \A n \in 1..Len(outs) : b[n] = outs[n]
        /\ DOMAIN b = 1..(Len(outs) + 1) /\ DOMAIN outs = 1..Len(outs)
    OBVIOUS
  <1> HIDE DEF b
  <1>2. ASSUME NEW k \in 0..Len(outs), NEW r PROVE Given(b, k, r) <=> Given(outs, k, r)
    <2>1. \A n \in 1..k : b[n] = outs[n] BY <1>1
    <2> QED BY <2>1 DEF Given
  <1>3. Heard(b) <=> Heard(outs) \/ W!Success(a) BY <1>1 DEF Heard
  <1> QED BY <1>1, <1>2, <1>3 DEF b

LEMMA AppendType == \A s \in Seq(RowType) : \A r \in RowType : Append(s, r) \in Seq(RowType)
  OBVIOUS

LEMMA AppendRow ==
    ASSUME NEW s \in Seq(RowType), NEW r \in RowType, Once(s), \A i \in DOMAIN s : s[i] # r
    PROVE  /\ Append(s, r) \in Seq(RowType) /\ Once(Append(s, r))
           /\ \A x : (\E i \in DOMAIN Append(s, r) : Append(s, r)[i] = x) <=> (\E i \in DOMAIN s : s[i] = x) \/ x = r
  <1> DEFINE b == Append(s, r)
  <1>1. /\ b \in Seq(RowType) /\ Len(s) \in Nat /\ DOMAIN s = 1..Len(s) /\ DOMAIN b = 1..(Len(s) + 1)
        /\ b[Len(s) + 1] = r /\ \A i \in 1..Len(s) : b[i] = s[i]
    OBVIOUS
  <1> HIDE DEF b
  <1>2. Once(b) BY <1>1 DEF Once
  <1>3. ASSUME NEW x PROVE (\E i \in DOMAIN b : b[i] = x) <=> (\E i \in DOMAIN s : s[i] = x) \/ x = r
    BY <1>1
  <1> QED BY <1>1, <1>2, <1>3 DEF b

-----------------------------------------------------------------------------
(***************************************************************************)
(* What each step does to one delivery.                                    *)
(***************************************************************************)
LEMMA PcOf ==
    ASSUME NEW d \in TaskType, NEW pc \in {"queued", "post", "record", "raised", "ended"}
    PROVE  /\ [d EXCEPT !.pc = pc] \in TaskType /\ [d EXCEPT !.pc = pc].pc = pc
           /\ [d EXCEPT !.pc = pc].hook = d.hook /\ [d EXCEPT !.pc = pc].retries = d.retries
           /\ [d EXCEPT !.pc = pc].answer = d.answer
  BY DEF TaskType

LEMMA RowsAreRows ==
    \A d \in TaskType :
        /\ [attempt |-> d.retries + 1, status |-> TRUE, delivered |-> TRUE] \in RowType
        /\ [attempt |-> d.retries + 1, status |-> FALSE, delivered |-> FALSE] \in RowType
        /\ Refused(d.retries + 1) \in RowType
  BY DEF TaskType, RowType, Refused

LEMMA RetryOf ==
    ASSUME NEW d \in TaskType
    PROVE  /\ W!Retry(d) \in TaskType /\ W!Retry(d).hook = d.hook
           /\ \/ /\ W!Retry(d).pc = "queued" /\ W!Retry(d).retries = d.retries + 1 /\ d.retries < DeliverRetries
              \/ W!Retry(d).pc = "ended" /\ W!Retry(d).retries = d.retries
  <1>1. PICK m \in TaskType : /\ m = [d EXCEPT !.pc = "queued"] /\ m.pc = "queued" /\ m.hook = d.hook
                              /\ m.retries = d.retries
    BY PcOf
  <1>2. PICK k \in Nat : k = d.retries + 1 BY DEF TaskType
  <1>3. [m EXCEPT !.retries = k] \in TaskType /\ [m EXCEPT !.retries = k].pc = "queued"
        /\ [m EXCEPT !.retries = k].hook = d.hook /\ [m EXCEPT !.retries = k].retries = d.retries + 1
    BY <1>1, <1>2 DEF TaskType
  <1>4. W!Again(d) = [m EXCEPT !.retries = k] BY <1>1, <1>2 DEF W!Again, TaskType
  <1>5. CASE d.retries < DeliverRetries
    <2>1. W!Retry(d) = [m EXCEPT !.retries = k] BY <1>4, <1>5 DEF W!Retry
    <2> QED BY <1>3, <1>5, <2>1
  <1>6. CASE ~(d.retries < DeliverRetries)
    <2>1. W!Retry(d) = [d EXCEPT !.pc = "ended"] BY <1>6 DEF W!Retry
    <2>2. PICK e \in TaskType : /\ e = [d EXCEPT !.pc = "ended"] /\ e.pc = "ended" /\ e.hook = d.hook
                                /\ e.retries = d.retries
      BY PcOf
    <2> QED BY <2>1, <2>2
  <1> QED BY <1>5, <1>6

\* Loading the webhook, or skipping it.
LEMMA QuietSound ==
    ASSUME NEW d \in TaskType, NEW new \in TaskType, NEW s, NEW outs \in Seq(Answers), NEW a \in Nat, NEW u \in Nat,
           NEW f \in Nat, NEW there, Sound(d, s, outs, a, u, f, there), d.pc = "queued",
           new.pc \in {"post", "ended"}, new.retries = d.retries
    PROVE  Sound(new, s, outs, a, u, f, there)
  <1>1. Open(d) BY DEF Open
  <1>2. d.retries \in Nat /\ Len(outs) \in Nat BY DEF TaskType
  <1>3. f = 0 /\ there => Faithful(new, s, outs, a, u) BY <1>2 DEF Sound, Faithful
  <1> QED BY <1>1, <1>2, <1>3 DEF Sound

\* A fault makes room for one more request and one more acceptance.
LEMMA FaultSound ==
    ASSUME NEW d \in TaskType, NEW new \in TaskType, NEW s, NEW outs \in Seq(Answers), NEW a \in Nat, NEW u \in Nat,
           NEW f \in Nat, NEW there, Sound(d, s, outs, a, u, f, there), new.retries = d.retries,
           new.pc # "record" \/ new = d
    PROVE  Sound(new, s, outs, a, u, f + 1, there)
  <1>1. d.retries \in Nat /\ Len(outs) \in Nat /\ DeliverRetries \in Nat BY ServicesAssumption DEF TaskType
  <1> QED BY <1>1 DEF Sound

\* The task after an attempt that ended in x, and the counts of acceptances.
Posted(d, new, x) ==
    /\ new.retries = d.retries /\ new.answer = x
    /\ x = "other_error" => new.pc = "ended"
    /\ x # "other_error" => new.pc = "record"
Accepted(x, a, u, b, v) ==
    \/ x = "2xx" /\ b = a + 1 /\ v = u
    \/ x \in {"no_answer", "other_error"} /\ b = a + 1 /\ v = u + 1
    \/ x # "2xx" /\ b = a /\ v = u

LEMMA PostSound ==
    ASSUME NEW d \in TaskType, NEW new \in TaskType, NEW s, NEW outs \in Seq(Answers), NEW a \in Nat, NEW u \in Nat,
           NEW f \in Nat, NEW there, Sound(d, s, outs, a, u, f, there), d.pc = "post",
           NEW x \in Answers, NEW b \in Nat, NEW v \in Nat,
           Posted(d, new, x), Accepted(x, a, u, b, v)
    PROVE  Sound(new, s, Append(outs, x), b, v, f, there)
  <1>1. d.retries \in Nat /\ Len(outs) \in Nat BY DEF TaskType
  <1>2. PICK bs \in Seq(Answers) : bs = Append(outs, x) BY GivenKeeps
  <1>3. /\ Len(bs) = Len(outs) + 1 /\ bs[Len(outs) + 1] = x
        /\ \A k \in 0..Len(outs) : \A r : Given(bs, k, r) <=> Given(outs, k, r)
        /\ Heard(bs) <=> Heard(outs) \/ W!Success(x)
    BY <1>2, GivenKeeps
  <1>4. Open(d) BY DEF Open
  <1>5. /\ u <= a /\ a <= Len(outs) /\ a <= u + f /\ d.retries <= DeliverRetries /\ Len(outs) <= d.retries + f
    BY <1>4 DEF Sound
  <1>6. Open(new) => x # "2xx" BY DEF Open, W!Success, Posted
  <1>7. v <= b /\ b <= Len(bs) /\ b <= 1 + v + f /\ (Open(new) => b <= v + f)
    <2>1. b \in {a, a + 1} /\ (v = u \/ (v = u + 1 /\ b = a + 1)) /\ (x # "2xx" /\ v = u => b = a) BY DEF Accepted
    <2> QED BY <1>1, <1>3, <1>5, <1>6, <2>1
  <1>8. new.retries <= DeliverRetries /\ Len(bs) <= 1 + new.retries + f /\ new.pc \notin {"queued", "post", "raised"}
    <2>1. new.retries = d.retries BY DEF Posted
    <2>2. new.pc \in {"ended", "record"} BY DEF Posted
    <2> QED BY <1>1, <1>3, <1>5, <2>1, <2>2
  <1>9. ASSUME f = 0, there PROVE Faithful(new, s, bs, b, v)
    <2>1. Once(s) /\ (a > u <=> Heard(outs)) /\ Len(outs) = d.retries /\ Shows(s, outs, d.retries)
      BY <1>9 DEF Sound, Faithful
    <2>2. b > v <=> Heard(bs)
      <3>1. a = u BY <1>5, <1>9, <1>1
      <3>2. ~Heard(outs) BY <2>1, <3>1
      <3>a. b > v <=> x = "2xx" BY <3>1 DEF Accepted
      <3>3. b > v <=> W!Success(x) BY <3>a DEF W!Success
      <3> QED BY <1>3, <3>2, <3>3
    <2>3. Shows(s, bs, d.retries) BY <1>1, <1>3, <2>1 DEF Shows
    <2>4. CASE x = "other_error"
      <3>1. new.pc = "ended" /\ bs[d.retries + 1] = x /\ Len(bs) = d.retries + 1
        BY <1>3, <2>1, <2>4 DEF Posted
      <3>2. W!RowsOf(d.retries + 1, x) = {} BY <1>1, <2>4, RowsOfAttempt
      <3>3. \A r : Given(bs, d.retries + 1, r) <=> Given(bs, d.retries, r) BY <1>1, <3>1, <3>2, GivenNext
      <3>4. Shows(s, bs, Len(bs)) BY <2>3, <3>1, <3>3 DEF Shows
      <3> QED BY <2>1, <2>2, <3>1, <3>4 DEF Faithful
    <2>5. CASE x # "other_error"
      <3>1. /\ new.pc = "record" /\ new.answer = x /\ new.retries = d.retries
            /\ bs[d.retries + 1] = x /\ Len(bs) = d.retries + 1
        BY <1>3, <2>1, <2>5 DEF Posted
      <3> QED BY <2>1, <2>2, <2>3, <2>5, <3>1 DEF Faithful
    <2> QED BY <2>4, <2>5
  <1>10. new.pc = "record" => new.answer \in Answers \ {"other_error"} BY DEF Posted
  <1> QED BY <1>2, <1>7, <1>8, <1>9, <1>10 DEF Sound

\* The row r that a task in state d appends before it goes on as new.
Appended(d, new, r) ==
    /\ \/ new.pc = "queued" /\ new.retries = d.retries + 1 /\ d.retries < DeliverRetries
       \/ new.pc \in {"raised", "ended"} /\ new.retries = d.retries
    /\ \/ /\ d.pc = "record" /\ new.pc # "raised" /\ d.answer = "2xx"
          /\ r = [attempt |-> d.retries + 1, status |-> TRUE, delivered |-> TRUE]
       \/ /\ d.pc = "record" /\ new.pc # "raised" /\ d.answer \in {"no_answer", "blocked"}
          /\ r = [attempt |-> d.retries + 1, status |-> FALSE, delivered |-> FALSE]
       \/ /\ d.pc = "record" /\ new.pc = "raised" /\ d.answer \notin {"2xx", "no_answer", "blocked"}
          /\ r = Refused(d.retries + 1)
       \/ /\ d.pc = "raised" /\ new.pc # "raised"
          /\ r = [attempt |-> d.retries + 1, status |-> FALSE, delivered |-> FALSE]

\* A row of the attempt in hand is new, and completes what is shown.
LEMMA RowSound ==
    ASSUME NEW d \in TaskType, NEW new \in TaskType, NEW s \in Seq(RowType), NEW outs \in Seq(Answers),
           NEW a \in Nat, NEW u \in Nat, NEW f \in Nat, NEW there, Sound(d, s, outs, a, u, f, there),
           NEW r \in RowType, Open(new) => Open(d), Appended(d, new, r)
    PROVE  Append(s, r) \in Seq(RowType) /\ Sound(new, Append(s, r), outs, a, u, f, there)
  <1>1. d.retries \in Nat /\ Len(outs) \in Nat BY DEF TaskType
  <1>2. PICK n \in Nat : n = d.retries BY <1>1
  <1>3. PICK bs \in Seq(RowType) : bs = Append(s, r) BY AppendType
  <1>4. /\ u <= a /\ a <= Len(outs) /\ a <= 1 + u + f /\ (Open(new) => a <= u + f)
        /\ d.retries <= DeliverRetries /\ Len(outs) <= 1 + d.retries + f
    BY DEF Sound
  <1>5. /\ new.retries <= DeliverRetries /\ Len(outs) <= 1 + new.retries + f
        /\ (new.pc \in {"queued", "post"} => Len(outs) <= new.retries + f)
    <2>1. \/ new.pc = "queued" /\ new.retries = d.retries + 1 /\ d.retries < DeliverRetries
          \/ new.pc \in {"raised", "ended"} /\ new.retries = d.retries
      BY DEF Appended
    <2> QED BY <1>1, <1>4, <2>1, ServicesAssumption
  <1>6. ASSUME f = 0, there PROVE Faithful(new, bs, outs, a, u)
    <2>1. Faithful(d, s, outs, a, u) BY <1>6 DEF Sound
    <2>2. Once(s) /\ (a > u <=> Heard(outs)) /\ Len(outs) = n + 1
      <3>1. d.pc = "record" \/ d.pc = "raised" BY DEF Appended
      <3> QED BY <1>2, <2>1, <3>1 DEF Faithful
    <2>3. outs[n + 1] \in Answers /\ n \in 0..Len(outs) BY <2>2
    <2>a. r.attempt = n + 1 BY <1>2 DEF Appended, Refused
    <2>4. r.attempt \notin 1..n BY <2>a
    <2>5. ~Given(outs, n, r) BY <2>3, <2>4, GivenAttempts
    <2>6. \A x : Given(outs, n + 1, x) <=> Given(outs, n, x) \/ x \in W!RowsOf(n + 1, outs[n + 1]) BY GivenNext
    <2>7. CASE d.pc = "record"
      <3>1. outs[n + 1] = d.answer /\ d.answer # "other_error" /\ Shows(s, outs, n) BY <1>2, <2>1, <2>7 DEF Faithful
      <3>2. \A i \in DOMAIN s : s[i] # r BY <2>5, <3>1 DEF Shows
      <3>3. Once(bs) /\ \A x : (\E i \in DOMAIN bs : bs[i] = x) <=> (\E i \in DOMAIN s : s[i] = x) \/ x = r
        <4>1. /\ Once(Append(s, r))
              /\ \A x : (\E i \in DOMAIN Append(s, r) : Append(s, r)[i] = x) <=> (\E i \in DOMAIN s : s[i] = x) \/ x = r
          BY ONLY <2>2, <3>2, AppendRow, s \in Seq(RowType), r \in RowType
        <4> QED BY ONLY <1>3, <4>1
      <3>4. \A x \in RowType : (\E i \in DOMAIN bs : bs[i] = x) <=> Given(outs, n, x) \/ x = r
        BY <3>1, <3>3 DEF Shows
      <3>5. CASE new.pc = "raised"
        <4>1. r = Refused(n + 1) /\ d.answer = "error_status" /\ new.retries = n
          <5>1. r = Refused(n + 1) /\ d.answer \notin {"2xx", "no_answer", "blocked"} /\ new.retries = n
            BY <1>2, <2>7, <3>5 DEF Appended
          <5>2. d.answer \in Answers BY <2>3, <3>1
          <5> QED BY <3>1, <5>1, <5>2 DEF Answers, W!Answers
        <4> QED BY <2>2, <3>1, <3>3, <3>4, <3>5, <4>1 DEF Faithful
      <3>6. CASE new.pc # "raised"
        <4>2. W!RowsOf(n + 1, d.answer) = {r}
          <5>1. n + 1 \in Nat /\ d.answer \in Answers BY <2>3, <3>1
          <5>2. CASE d.answer = "2xx"
            <6>1. W!Success(d.answer) BY <5>2 DEF W!Success
            <6>2. r = [attempt |-> n + 1, status |-> TRUE, delivered |-> TRUE] BY <1>2, <2>7, <3>6, <5>2 DEF Appended
            <6> QED BY <5>1, <6>1, <6>2, RowsOfAttempt
          <5>3. CASE d.answer # "2xx"
            <6>1. d.answer \in {"no_answer", "blocked"} BY <2>7, <3>6, <5>3 DEF Appended
            <6>2. r = [attempt |-> n + 1, status |-> FALSE, delivered |-> FALSE] BY <1>2, <2>7, <3>6, <5>3 DEF Appended
            <6> QED BY <5>1, <6>1, <6>2, RowsOfAttempt
          <5> QED BY <5>2, <5>3
        <4>3. Shows(bs, outs, n + 1) BY <2>6, <3>1, <3>4, <4>2 DEF Shows
        <4>4. new.pc \in {"queued", "ended"} /\ (new.pc = "queued" => new.retries = n + 1) BY <1>2, <3>6 DEF Appended
        <4> QED BY <2>2, <3>3, <4>3, <4>4 DEF Faithful
      <3> QED BY <3>5, <3>6
    <2>8. CASE d.pc = "raised"
      <3>1. /\ outs[n + 1] = "error_status"
            /\ \A x \in RowType : (\E i \in DOMAIN s : s[i] = x) <=> Given(outs, n, x) \/ x = Refused(n + 1)
        BY <1>2, <2>1, <2>8 DEF Faithful
      <3>2. r = [attempt |-> n + 1, status |-> FALSE, delivered |-> FALSE] BY <1>2, <2>8 DEF Appended
      <3>3. r # Refused(n + 1) BY <3>2 DEF Refused
      <3>4. \A i \in DOMAIN s : s[i] # r BY <2>5, <3>1, <3>3
      <3>5. Once(bs) /\ \A x : (\E i \in DOMAIN bs : bs[i] = x) <=> (\E i \in DOMAIN s : s[i] = x) \/ x = r
        <4>1. /\ Once(Append(s, r))
              /\ \A x : (\E i \in DOMAIN Append(s, r) : Append(s, r)[i] = x) <=> (\E i \in DOMAIN s : s[i] = x) \/ x = r
          BY ONLY <2>2, <3>4, AppendRow, s \in Seq(RowType), r \in RowType
        <4> QED BY ONLY <1>3, <4>1
      <3>6. W!RowsOf(n + 1, outs[n + 1]) = {Refused(n + 1), r} BY <2>3, <3>1, <3>2, RowsOfAttempt
      <3>7. Shows(bs, outs, n + 1) BY <2>6, <3>1, <3>5, <3>6 DEF Shows
      <3>8. new.pc \in {"queued", "ended"} /\ (new.pc = "queued" => new.retries = n + 1) BY <1>2, <2>8 DEF Appended
      <3> QED BY <2>2, <3>5, <3>7, <3>8 DEF Faithful
    <2>9. d.pc = "record" \/ d.pc = "raised" BY DEF Appended
    <2> QED BY <2>7, <2>8, <2>9
  <1>a. new.pc # "record" BY DEF Appended
  <1>7. Sound(new, bs, outs, a, u, f, there) BY <1>4, <1>5, <1>6, <1>a DEF Sound
  <1> QED BY <1>3, <1>7

\* A task that ends without its row, its webhook being gone.
LEMMA EndedSound ==
    ASSUME NEW d \in TaskType, NEW new \in TaskType, NEW s, NEW outs \in Seq(Answers), NEW a \in Nat, NEW u \in Nat,
           NEW f \in Nat, NEW there, Sound(d, s, outs, a, u, f, there), ~there, new.pc = "ended", new.retries = d.retries
    PROVE  Sound(new, s, outs, a, u, f, there)
  BY DEF Sound, Open

-----------------------------------------------------------------------------
(***************************************************************************)
(* The actions.                                                            *)
(***************************************************************************)
\* A step of the task of one delivery, which leaves the others and the
\* fan-out alone.
LEMMA TaskStep ==
    ASSUME WebInv, NEW t \in Deliveries, NEW new \in TaskType,
           delivery[t].pc # "none", new.pc # "none", new.hook = delivery[t].hook,
           delivery' = [delivery EXCEPT ![t] = new],
           UNCHANGED <<hook, fan>>, faults' \in {faults, faults + 1},
           NEW s \in Seq(RowType), rows' = [rows EXCEPT ![t] = s],
           NEW outs \in Seq(Answers), answers' = [answers EXCEPT ![t] = outs],
           NEW a \in Nat, told' = [told EXCEPT ![t] = a],
           NEW u \in Nat, unheard' = [unheard EXCEPT ![t] = u],
           Sound(new, s, outs, a, u, faults', hook[new.hook])
    PROVE  WebInv'
  <1>0. /\ delivery \in [Deliveries -> TaskType] /\ faults \in Nat /\ faults' \in Nat
        /\ told \in [Deliveries -> Nat] /\ unheard \in [Deliveries -> Nat]
        /\ rows \in [Deliveries -> Seq(RowType)] /\ answers \in [Deliveries -> Seq(Answers)]
    BY DEF WebInv, WebTypes
  <1>1. delivery' \in [Deliveries -> TaskType] BY <1>0
  <1>2. /\ told' \in [Deliveries -> Nat] /\ unheard' \in [Deliveries -> Nat]
        /\ rows' \in [Deliveries -> Seq(RowType)] /\ answers' \in [Deliveries -> Seq(Answers)]
    BY <1>0
  <1>3. WebTypes' BY <1>0, <1>1, <1>2 DEF WebInv, WebTypes
  <1>4. /\ delivery'[t] = new /\ rows'[t] = s /\ answers'[t] = outs /\ told'[t] = a /\ unheard'[t] = u
        /\ \A v \in Deliveries : v # t => /\ delivery'[v] = delivery[v] /\ rows'[v] = rows[v]
                                          /\ answers'[v] = answers[v] /\ told'[v] = told[v]
                                          /\ unheard'[v] = unheard[v]
    BY <1>0
  <1>5. delivery[t].hook # None BY DEF WebInv, Assigned
  <1>6. Assigned' BY <1>4, <1>5 DEF WebInv, Assigned
  <1>7. Recorded'
    <2> SUFFICES ASSUME NEW v \in Deliveries
                 PROVE  /\ delivery'[v].pc = "none" => Untouched(v)'
                        /\ delivery'[v].pc # "none" =>
                             Sound(delivery'[v], rows'[v], answers'[v], told'[v], unheard'[v], faults',
                                   hook'[delivery'[v].hook])
      BY DEF Recorded, Sound, Faithful, Open
    <2>1. CASE v = t
      <3>1. hook' = hook OBVIOUS
      <3> QED BY <2>1, <3>1, <1>4
    <2>2. CASE v # t
      <3>1. /\ delivery'[v] = delivery[v] /\ rows'[v] = rows[v] /\ answers'[v] = answers[v] /\ told'[v] = told[v]
            /\ unheard'[v] = unheard[v]
        BY <2>2, <1>4
      <3>2. CASE delivery[v].pc = "none" BY <3>1, <3>2 DEF WebInv, Recorded, Untouched
      <3>3. CASE delivery[v].pc # "none"
        <4>1. Sound(delivery[v], rows[v], answers[v], told[v], unheard[v], faults, hook[delivery[v].hook])
          BY <3>3 DEF WebInv, Recorded
        <4>2. PICK d \in TaskType : d = delivery[v] BY <1>0
        <4>3. PICK th : th = hook[delivery[v].hook] OBVIOUS
        <4>4. PICK qs \in Seq(Answers) : qs = answers[v] BY <1>0
        <4>5. PICK b \in Nat : b = told[v] BY <1>0
        <4>6. PICK w \in Nat : w = unheard[v] BY <1>0
        <4>7. Sound(d, rows[v], qs, b, w, faults, th) BY <4>1, <4>2, <4>3, <4>4, <4>5, <4>6
        <4>8. Sound(d, rows[v], qs, b, w, faults', th)
          <5>1. CASE faults' = faults BY <4>7, <5>1
          <5>2. CASE faults' = faults + 1
            <6>1. PICK f \in Nat : f = faults BY <1>0
            <6>2. Sound(d, rows[v], qs, b, w, f, th) BY <4>7, <6>1
            <6>3. Sound(d, rows[v], qs, b, w, f + 1, th) BY <6>2, FaultSound
            <6> QED BY <5>2, <6>1, <6>3
          <5> QED BY <5>1, <5>2
        <4> QED BY <3>1, <3>3, <4>2, <4>3, <4>4, <4>5, <4>6, <4>8
      <3> QED BY <3>2, <3>3
    <2> QED BY <2>1, <2>2
  <1>8. QueuedInTime'
    <2> SUFFICES ASSUME NEW h \in Hooks PROVE Cardinality(W!Of(h)') + Owed(h)' <= 1 + faults'
      BY DEF QueuedInTime
    <2>1. Owed(h)' = Owed(h) /\ Owed(h) \in Nat BY DEF Owed, Pending
    <2>2. W!Of(h)' = {v \in Deliveries : delivery'[v].hook = h} BY DEF W!Of
    <2>3. W!Of(h)' = W!Of(h) BY <1>4, <2>2 DEF W!Of
    <2>4. Cardinality(W!Of(h)) + Owed(h) <= 1 + faults BY DEF WebInv, QueuedInTime
    <2>5. Cardinality(W!Of(h)) \in Nat BY OfFinite
    <2> QED BY <1>0, <2>1, <2>3, <2>4, <2>5
  <1> QED BY <1>3, <1>6, <1>7, <1>8 DEF WebInv

\* The same when only the task and its rows, or the faults, change.
LEMMA QuietStep ==
    ASSUME WebInv, NEW t \in Deliveries, NEW new \in TaskType, NEW s \in Seq(RowType),
           delivery[t].pc # "none", new.pc # "none", new.hook = delivery[t].hook,
           delivery' = [delivery EXCEPT ![t] = new], rows' = [rows EXCEPT ![t] = s],
           UNCHANGED <<hook, fan, answers, told, unheard>>, faults' \in {faults, faults + 1},
           Sound(new, s, answers[t], told[t], unheard[t], faults', hook[new.hook])
    PROVE  WebInv'
  <1>0. /\ told \in [Deliveries -> Nat] /\ unheard \in [Deliveries -> Nat] /\ answers \in [Deliveries -> Seq(Answers)]
    BY DEF WebInv, WebTypes
  <1>1. PICK outs \in Seq(Answers) : outs = answers[t] BY <1>0
  <1>2. PICK a \in Nat : a = told[t] BY <1>0
  <1>3. PICK u \in Nat : u = unheard[t] BY <1>0
  <1>4. answers' = [answers EXCEPT ![t] = outs] BY <1>0, <1>1
  <1>5. told' = [told EXCEPT ![t] = a] BY <1>0, <1>2
  <1>6. unheard' = [unheard EXCEPT ![t] = u] BY <1>0, <1>3
  <1>7. Sound(new, s, outs, a, u, faults', hook[new.hook]) BY <1>1, <1>2, <1>3
  <1>8. UNCHANGED <<hook, fan>> OBVIOUS
  <1> QED BY <1>4, <1>5, <1>6, <1>7, <1>8, TaskStep

\* What the invariant says of a delivery that has been queued.
LEMMA TaskFacts ==
    ASSUME WebInv, NEW t \in Deliveries, delivery[t].pc # "none"
    PROVE  /\ delivery[t] \in TaskType /\ rows[t] \in Seq(RowType) /\ answers[t] \in Seq(Answers)
           /\ told[t] \in Nat /\ unheard[t] \in Nat /\ faults \in Nat
           /\ Sound(delivery[t], rows[t], answers[t], told[t], unheard[t], faults, hook[delivery[t].hook])
           /\ rows = [rows EXCEPT ![t] = rows[t]]
           /\ delivery \in [Deliveries -> TaskType]
  <1>1. /\ delivery \in [Deliveries -> TaskType] /\ rows \in [Deliveries -> Seq(RowType)] /\ faults \in Nat
        /\ told \in [Deliveries -> Nat] /\ unheard \in [Deliveries -> Nat] /\ answers \in [Deliveries -> Seq(Answers)]
    BY DEF WebInv, WebTypes
  <1>2. Sound(delivery[t], rows[t], answers[t], told[t], unheard[t], faults, hook[delivery[t].hook])
    BY DEF WebInv, Recorded
  <1> QED BY <1>1, <1>2

\* A step of the fan-out, or none: the deliveries stay, and what becomes owed
\* is paid for by a fault.
LEMMA FanStep ==
    ASSUME WebInv, fan' \in FanType, UNCHANGED <<hook, delivery, rows, answers, told, unheard>>,
           faults' \in {faults, faults + 1},
           (\A h \in Hooks : Pending(h)' => Pending(h)) \/ faults' = faults + 1
    PROVE  WebInv'
  <1>0. faults \in Nat /\ faults' \in Nat BY DEF WebInv, WebTypes
  <1>1. WebTypes' BY <1>0 DEF WebInv, WebTypes
  <1>2. Assigned' BY DEF WebInv, Assigned
  <1>3. Recorded'
    <2> SUFFICES ASSUME NEW v \in Deliveries
                 PROVE  /\ delivery[v].pc = "none" => Untouched(v)'
                        /\ delivery[v].pc # "none" =>
                             Sound(delivery[v], rows[v], answers[v], told[v], unheard[v], faults',
                                   hook[delivery[v].hook])
      BY DEF Recorded, Sound, Faithful, Open
    <2>1. CASE delivery[v].pc = "none" BY <2>1 DEF WebInv, Recorded, Untouched
    <2>2. CASE delivery[v].pc # "none"
      <3>1. /\ delivery[v] \in TaskType /\ answers[v] \in Seq(Answers) /\ told[v] \in Nat /\ unheard[v] \in Nat
            /\ Sound(delivery[v], rows[v], answers[v], told[v], unheard[v], faults, hook[delivery[v].hook])
        BY <2>2, TaskFacts
      <3>2. CASE faults' = faults BY <2>2, <3>1, <3>2
      <3>3. CASE faults' = faults + 1
        <4>1. PICK d \in TaskType : d = delivery[v] BY <3>1
        <4>2. PICK th : th = hook[delivery[v].hook] OBVIOUS
        <4>3. PICK qs \in Seq(Answers) : qs = answers[v] BY <3>1
        <4>4. PICK b \in Nat : b = told[v] BY <3>1
        <4>5. PICK w \in Nat : w = unheard[v] BY <3>1
        <4>6. PICK f \in Nat : f = faults BY <1>0
        <4>7. Sound(d, rows[v], qs, b, w, f, th) BY <3>1, <4>1, <4>2, <4>3, <4>4, <4>5, <4>6
        <4>8. Sound(d, rows[v], qs, b, w, f + 1, th) BY <4>7, FaultSound
        <4> QED BY <2>2, <3>3, <4>1, <4>2, <4>3, <4>4, <4>5, <4>6, <4>8
      <3> QED BY <3>2, <3>3
    <2> QED BY <2>1, <2>2
  <1>4. QueuedInTime'
    <2> SUFFICES ASSUME NEW h \in Hooks PROVE Cardinality(W!Of(h)') + Owed(h)' <= 1 + faults'
      BY DEF QueuedInTime
    <2>1. W!Of(h)' = W!Of(h) BY DEF W!Of
    <2>2. Cardinality(W!Of(h)) + Owed(h) <= 1 + faults BY DEF WebInv, QueuedInTime
    <2>3. Cardinality(W!Of(h)) \in Nat BY OfFinite
    <2>4. Owed(h) \in {0, 1} /\ Owed(h)' \in {0, 1} BY DEF Owed
    <2>5. Owed(h)' <= Owed(h) \/ faults' = faults + 1 BY DEF Owed
    <2> QED BY <2>1, <2>2, <2>3, <2>4, <2>5, <1>0
  <1> QED BY <1>1, <1>2, <1>3, <1>4 DEF WebInv

LEMMA FanQueuesStep ==
    ASSUME WebInv, NEW h \in Hooks, NEW t \in Deliveries, W!FanQueues(h, t) PROVE WebInv'
  <1> DEFINE new == [pc |-> "queued", hook |-> h, retries |-> 0, answer |-> None]
  <1>0. /\ delivery \in [Deliveries -> TaskType] /\ faults \in Nat /\ fan \in FanType
    BY DEF WebInv, WebTypes
  <1>1. /\ fan.pc = "fan" /\ h \in fan.todo /\ delivery[t].pc = "none"
        /\ UNCHANGED <<hook, rows, answers, told, unheard, faults>>
    BY DEF W!FanQueues, W!schema, W!history
  <1>3. delivery' = [delivery EXCEPT ![t] = new] BY DEF W!FanQueues
  <1>4. fan' = [fan EXCEPT !.todo = @ \ {h}] BY DEF W!FanQueues
  <1>5. fan' \in FanType /\ fan'.pc = "fan" /\ fan'.todo = fan.todo \ {h} BY <1>0, <1>1, <1>4 DEF FanType
  <1>6. new \in TaskType /\ new.pc = "queued" /\ new.hook = h /\ new.retries = 0 BY DEF TaskType
  <1> HIDE DEF new
  <1>7. delivery' \in [Deliveries -> TaskType] BY <1>0, <1>3, <1>6
  <1>8. WebTypes' BY <1>1, <1>5, <1>7 DEF WebInv, WebTypes
  <1>9. delivery'[t] = new /\ \A v \in Deliveries : v # t => delivery'[v] = delivery[v] BY <1>0, <1>3
  <1>10. Assigned' BY <1>6, <1>9, ServicesAssumption DEF WebInv, Assigned
  <1>11. Recorded'
    <2> SUFFICES ASSUME NEW v \in Deliveries
                 PROVE  /\ delivery'[v].pc = "none" => Untouched(v)'
                        /\ delivery'[v].pc # "none" =>
                             Sound(delivery'[v], rows[v], answers[v], told[v], unheard[v], faults,
                                   hook[delivery'[v].hook])
      BY <1>1 DEF Recorded, Sound, Faithful, Open
    <2>1. CASE v = t
      <3>1. rows[t] = <<>> /\ answers[t] = <<>> /\ told[t] = 0 /\ unheard[t] = 0
        BY <1>1 DEF WebInv, Recorded, Untouched
      <3>2. Len(<<>>) = 0 /\ <<>> \in Seq(Answers) /\ DOMAIN <<>> = {} OBVIOUS
      <3>3. Faithful(new, <<>>, <<>>, 0, 0)
        <4>1. Once(<<>>) BY <3>2 DEF Once
        <4>2. ~Heard(<<>>) BY <3>2 DEF Heard
        <4>3. Shows(<<>>, <<>>, 0) BY <3>2 DEF Shows, Given
        <4> QED BY <1>6, <3>2, <4>1, <4>2, <4>3 DEF Faithful
      <3>4. Sound(new, <<>>, <<>>, 0, 0, faults, hook[new.hook])
        BY <1>0, <1>6, <3>2, <3>3, ServicesAssumption DEF Sound
      <3> QED BY <2>1, <1>6, <1>9, <3>1, <3>4
    <2>2. CASE v # t
      <3>1. delivery'[v] = delivery[v] BY <2>2, <1>9
      <3> QED BY <1>1, <3>1 DEF WebInv, Recorded, Untouched
    <2> QED BY <2>1, <2>2
  <1>12. QueuedInTime'
    <2> SUFFICES ASSUME NEW g \in Hooks PROVE Cardinality(W!Of(g)') + Owed(g)' <= 1 + faults'
      BY DEF QueuedInTime
    <2>0. Cardinality(W!Of(g)) + Owed(g) <= 1 + faults BY DEF WebInv, QueuedInTime
    <2>1. W!Of(g)' = {v \in Deliveries : delivery'[v].hook = g} BY DEF W!Of
    <2>2. IsFiniteSet(W!Of(g)) /\ Cardinality(W!Of(g)) \in Nat BY OfFinite
    <2>3. CASE g = h
      <3>1. t \notin W!Of(g) BY <1>1, ServicesAssumption DEF WebInv, Assigned, W!Of
      <3>2. W!Of(g)' = W!Of(g) \cup {t} BY <1>6, <1>9, <2>1, <2>3 DEF W!Of
      <3>3. Cardinality(W!Of(g)') = Cardinality(W!Of(g)) + 1 BY <2>2, <3>1, <3>2, FS_AddElement
      <3>4. Owed(g) = 1 /\ Owed(g)' = 0 BY <1>1, <1>5, <2>3 DEF Owed, Pending
      <3> QED BY <1>0, <1>1, <2>0, <2>2, <3>3, <3>4
    <2>4. CASE g # h
      <3>1. t \notin W!Of(g) BY <1>1, ServicesAssumption DEF WebInv, Assigned, W!Of
      <3>2. W!Of(g)' = W!Of(g) BY <1>6, <1>9, <2>1, <2>4, <3>1 DEF W!Of
      <3>3. Owed(g)' = Owed(g) BY <1>1, <1>5, <2>4 DEF Owed, Pending
      <3> QED BY <1>1, <2>0, <3>2, <3>3
    <2> QED BY <2>3, <2>4
  <1> QED BY <1>8, <1>10, <1>11, <1>12 DEF WebInv

\* The rows go with their webhook, and nothing is claimed of them after that.
LEMMA DeleteWebhookStep ==
    ASSUME WebInv, NEW h \in Hooks, W!DeleteWebhook(h) PROVE WebInv'
  <1>0. /\ delivery \in [Deliveries -> TaskType] /\ faults \in Nat /\ hook \in [Hooks -> BOOLEAN]
        /\ rows \in [Deliveries -> Seq(RowType)]
    BY DEF WebInv, WebTypes
  <1>1. /\ hook' = [hook EXCEPT ![h] = FALSE] /\ UNCHANGED <<fan, delivery, answers, told, unheard, faults>>
        /\ rows' = [t \in Deliveries |-> IF delivery[t].hook = h THEN <<>> ELSE rows[t]]
    BY DEF W!DeleteWebhook, W!history
  <1>2. hook' \in [Hooks -> BOOLEAN] BY <1>0, <1>1
  <1>3. rows' \in [Deliveries -> Seq(RowType)] BY <1>0, <1>1
  <1>4. WebTypes' BY <1>1, <1>2, <1>3 DEF WebInv, WebTypes
  <1>5. Assigned' BY <1>1 DEF WebInv, Assigned
  <1>6. QueuedInTime'
    <2> SUFFICES ASSUME NEW g \in Hooks PROVE Cardinality(W!Of(g)') + Owed(g)' <= 1 + faults'
      BY DEF QueuedInTime
    <2>1. W!Of(g)' = W!Of(g) /\ Owed(g)' = Owed(g) BY <1>1 DEF W!Of, Owed, Pending
    <2> QED BY <1>1, <2>1 DEF WebInv, QueuedInTime
  <1>7. Recorded'
    <2> SUFFICES ASSUME NEW v \in Deliveries
                 PROVE  /\ delivery[v].pc = "none" => Untouched(v)'
                        /\ delivery[v].pc # "none" =>
                             Sound(delivery[v], rows'[v], answers[v], told[v], unheard[v], faults,
                                   hook'[delivery[v].hook])
      BY <1>1 DEF Recorded, Sound, Faithful, Open
    <2>1. CASE delivery[v].hook = h
      <3>1. delivery[v].pc # "none" BY <2>1, ServicesAssumption DEF WebInv, Assigned
      <3>2. Sound(delivery[v], rows[v], answers[v], told[v], unheard[v], faults, hook[delivery[v].hook])
        BY <3>1, TaskFacts
      <3>3. hook'[delivery[v].hook] = FALSE BY <1>0, <1>1, <2>1
      <3>4. Sound(delivery[v], rows'[v], answers[v], told[v], unheard[v], faults, FALSE) BY <3>2 DEF Sound
      <3> QED BY <3>1, <3>3, <3>4
    <2>2. CASE delivery[v].hook # h
      <3>1. rows'[v] = rows[v] BY <1>1, <2>2
      <3>2. CASE delivery[v].pc = "none" BY <1>1, <3>1, <3>2 DEF WebInv, Recorded, Untouched
      <3>3. CASE delivery[v].pc # "none"
        <4>1. delivery[v].hook \in Hooks
          <5>1. delivery[v].hook \in Hooks \cup {None} BY <1>0 DEF TaskType
          <5>2. delivery[v].hook # None BY <3>3 DEF WebInv, Assigned
          <5> QED BY <5>1, <5>2
        <4>2. hook'[delivery[v].hook] = hook[delivery[v].hook] BY <1>0, <1>1, <2>2, <4>1
        <4> QED BY <3>1, <3>3, <4>2, TaskFacts
      <3> QED BY <3>2, <3>3
    <2> QED BY <2>1, <2>2
  <1> QED BY <1>4, <1>5, <1>6, <1>7 DEF WebInv

\* The task moves on to pc: loaded or skipped, or after a fault.
LEMMA PcStep ==
    ASSUME WebInv, NEW t \in Deliveries, NEW pc \in {"queued", "post", "ended"},
           delivery' = [delivery EXCEPT ![t].pc = pc],
           UNCHANGED <<hook, fan, rows, answers, told, unheard>>, delivery[t].pc # "none",
           \/ delivery[t].pc = "queued" /\ pc # "queued" /\ UNCHANGED faults
           \/ delivery[t].pc \in {"record", "raised"} /\ pc = "ended" /\ ~hook[delivery[t].hook] /\ UNCHANGED faults
           \/ faults' = faults + 1
    PROVE  WebInv'
  <1>0. /\ delivery[t] \in TaskType /\ rows[t] \in Seq(RowType) /\ answers[t] \in Seq(Answers)
        /\ told[t] \in Nat /\ unheard[t] \in Nat /\ faults \in Nat
        /\ Sound(delivery[t], rows[t], answers[t], told[t], unheard[t], faults, hook[delivery[t].hook])
        /\ rows = [rows EXCEPT ![t] = rows[t]]
    BY TaskFacts
  <1>1. PICK d \in TaskType : d = delivery[t] BY <1>0
  <1>2. PICK new \in TaskType : /\ new = [d EXCEPT !.pc = pc] /\ new.pc = pc /\ new.hook = d.hook
                                /\ new.retries = d.retries
    <2>1. pc \in {"queued", "post", "record", "raised", "ended"} OBVIOUS
    <2>2. PICK n : n = [d EXCEPT !.pc = pc] OBVIOUS
    <2>3. n \in TaskType /\ n.pc = pc /\ n.hook = d.hook /\ n.retries = d.retries BY <2>1, <2>2, PcOf
    <2> QED BY <2>2, <2>3
  <1>3. delivery' = [delivery EXCEPT ![t] = new] BY <1>1, <1>2
  <1>4. PICK th : th = hook[d.hook] OBVIOUS
  <1>5. PICK outs \in Seq(Answers) : outs = answers[t] BY <1>0
  <1>6. PICK a \in Nat : a = told[t] BY <1>0
  <1>7. PICK u \in Nat : u = unheard[t] BY <1>0
  <1>8. PICK f \in Nat : f = faults BY <1>0
  <1>9. PICK s \in Seq(RowType) : s = rows[t] BY <1>0
  <1>10. Sound(d, s, outs, a, u, f, th) BY <1>0, <1>1, <1>4, <1>5, <1>6, <1>7, <1>8, <1>9
  <1>11. Sound(new, s, outs, a, u, faults', th)
    <2>1. CASE delivery[t].pc = "queued" /\ pc # "queued" /\ UNCHANGED faults
      <3>1. d.pc = "queued" /\ new.pc \in {"post", "ended"} BY <1>1, <1>2, <2>1
      <3>2. Sound(new, s, outs, a, u, f, th) BY <1>2, <1>10, <3>1, QuietSound
      <3> QED BY <1>8, <2>1, <3>2
    <2>2. CASE delivery[t].pc \in {"record", "raised"} /\ pc = "ended" /\ ~hook[delivery[t].hook] /\ UNCHANGED faults
      <3>1. ~th /\ new.pc = "ended" BY <1>1, <1>2, <1>4, <2>2
      <3>2. Sound(new, s, outs, a, u, f, th) BY <1>2, <1>10, <3>1, EndedSound
      <3> QED BY <1>8, <2>2, <3>2
    <2>3. CASE faults' = faults + 1
      <3>1. Sound(new, s, outs, a, u, f + 1, th) BY <1>2, <1>10, FaultSound
      <3> QED BY <1>8, <2>3, <3>1
    <2> QED BY <2>1, <2>2, <2>3
  <1>12. Sound(new, s, answers[t], told[t], unheard[t], faults', hook[new.hook])
    BY <1>2, <1>4, <1>5, <1>6, <1>7, <1>11
  <1>13. /\ new.pc # "none" /\ new.hook = delivery[t].hook /\ faults' \in {faults, faults + 1}
         /\ rows' = [rows EXCEPT ![t] = s] /\ UNCHANGED <<hook, fan, answers, told, unheard>>
    BY <1>0, <1>1, <1>2, <1>9
  <1> QED BY <1>3, <1>12, <1>13, QuietStep

LEMMA PostStep ==
    ASSUME WebInv, NEW t \in Deliveries, W!Post(t) PROVE WebInv'
  <1>a. delivery[t].pc = "post" /\ UNCHANGED <<hook, fan, rows, faults>> BY DEF W!Post, W!schema
  <1>b. delivery[t].pc # "none" BY <1>a
  <1>0. /\ delivery[t] \in TaskType /\ rows[t] \in Seq(RowType) /\ answers[t] \in Seq(Answers)
        /\ told[t] \in Nat /\ unheard[t] \in Nat /\ faults \in Nat
        /\ Sound(delivery[t], rows[t], answers[t], told[t], unheard[t], faults, hook[delivery[t].hook])
        /\ rows = [rows EXCEPT ![t] = rows[t]]
    BY <1>b, TaskFacts
  <1>1. PICK x \in Answers :
           /\ answers' = [answers EXCEPT ![t] = Append(@, x)]
           /\ delivery' = [delivery EXCEPT ![t] =
                  [@ EXCEPT !.pc = IF x = "other_error" THEN "ended" ELSE "record", !.answer = x]]
           /\ \/ W!Success(x) /\ W!Tell(t) /\ UNCHANGED unheard
              \/ x \in {"no_answer", "other_error"} /\ W!Tell(t) /\ unheard' = [unheard EXCEPT ![t] = @ + 1]
              \/ ~W!Success(x) /\ UNCHANGED <<told, unheard>>
    BY DEF W!Post, Answers
  <1>2. PICK d \in TaskType : d = delivery[t] BY <1>0
  <1>3. PICK m \in TaskType : /\ m = [d EXCEPT !.pc = IF x = "other_error" THEN "ended" ELSE "record"]
                              /\ m.pc = (IF x = "other_error" THEN "ended" ELSE "record")
                              /\ m.hook = d.hook /\ m.retries = d.retries
    <2>1. PICK pc \in {"queued", "post", "record", "raised", "ended"} :
             pc = IF x = "other_error" THEN "ended" ELSE "record"
      OBVIOUS
    <2>2. PICK n : n = [d EXCEPT !.pc = pc] OBVIOUS
    <2>3. n \in TaskType /\ n.pc = pc /\ n.hook = d.hook /\ n.retries = d.retries BY <2>2, PcOf
    <2> QED BY <2>1, <2>2, <2>3
  <1>4. PICK new \in TaskType : /\ new = [m EXCEPT !.answer = x] /\ new.pc = m.pc /\ new.hook = d.hook
                                /\ new.retries = d.retries /\ new.answer = x
    <2>1. PICK n : n = [m EXCEPT !.answer = x] OBVIOUS
    <2>2. n \in TaskType /\ n.pc = m.pc /\ n.hook = m.hook /\ n.retries = m.retries /\ n.answer = x
      BY <2>1 DEF TaskType
    <2> QED BY <1>3, <2>1, <2>2
  <1>5. delivery' = [delivery EXCEPT ![t] = new] BY <1>1, <1>2, <1>3, <1>4
  <1>6. Posted(d, new, x) BY <1>3, <1>4 DEF Posted
  <1>7. PICK th : th = hook[d.hook] OBVIOUS
  <1>8. PICK outs \in Seq(Answers) : outs = answers[t] BY <1>0
  <1>9. PICK a \in Nat : a = told[t] BY <1>0
  <1>10. PICK u \in Nat : u = unheard[t] BY <1>0
  <1>11. PICK s \in Seq(RowType) : s = rows[t] BY <1>0
  <1>12. told \in [Deliveries -> Nat] /\ unheard \in [Deliveries -> Nat] BY DEF WebInv, WebTypes
  <1>13. \E b \in Nat, v \in Nat : /\ Accepted(x, a, u, b, v)
                                   /\ told' = [told EXCEPT ![t] = b] /\ unheard' = [unheard EXCEPT ![t] = v]
    <2>0. told = [told EXCEPT ![t] = a] /\ unheard = [unheard EXCEPT ![t] = u] BY <1>9, <1>10, <1>12
    <2>1. CASE W!Success(x) /\ W!Tell(t) /\ UNCHANGED unheard
      <3>1. told' = [told EXCEPT ![t] = a + 1] BY <1>9, <2>1 DEF W!Tell
      <3>2. Accepted(x, a, u, a + 1, u) BY <2>1 DEF Accepted, W!Success
      <3>3. a + 1 \in Nat /\ unheard' = [unheard EXCEPT ![t] = u] BY <2>0, <2>1
      <3> QED BY <3>1, <3>2, <3>3
    <2>2. CASE x \in {"no_answer", "other_error"} /\ W!Tell(t) /\ unheard' = [unheard EXCEPT ![t] = @ + 1]
      <3>1. told' = [told EXCEPT ![t] = a + 1] BY <1>9, <2>2 DEF W!Tell
      <3>2. unheard' = [unheard EXCEPT ![t] = u + 1] BY <1>10, <2>2
      <3>3. Accepted(x, a, u, a + 1, u + 1) BY <2>2 DEF Accepted
      <3>4. a + 1 \in Nat /\ u + 1 \in Nat OBVIOUS
      <3> QED BY <3>1, <3>2, <3>3, <3>4
    <2>3. CASE ~W!Success(x) /\ UNCHANGED <<told, unheard>>
      <3>1. Accepted(x, a, u, a, u) BY <2>3 DEF Accepted, W!Success
      <3>2. told' = [told EXCEPT ![t] = a] /\ unheard' = [unheard EXCEPT ![t] = u] BY <2>0, <2>3
      <3> QED BY <3>1, <3>2
    <2> QED BY <1>1, <2>1, <2>2, <2>3
  <1>14. PICK b \in Nat, v \in Nat : /\ Accepted(x, a, u, b, v)
                                     /\ told' = [told EXCEPT ![t] = b] /\ unheard' = [unheard EXCEPT ![t] = v]
    BY <1>13
  <1>15. PICK bs \in Seq(Answers) : bs = Append(outs, x) BY GivenKeeps
  <1>16. PICK f \in Nat : f = faults BY <1>0
  <1>17. Sound(d, s, outs, a, u, f, th) BY <1>0, <1>2, <1>7, <1>8, <1>9, <1>10, <1>11, <1>16
  <1>18. d.pc = "post" BY <1>a, <1>2
  <1>19. Sound(new, s, Append(outs, x), b, v, f, th) BY <1>6, <1>14, <1>17, <1>18, PostSound
  <1>20. Sound(new, s, bs, b, v, faults', hook[new.hook]) BY <1>a, <1>4, <1>7, <1>15, <1>16, <1>19
  <1>21. answers' = [answers EXCEPT ![t] = bs] BY <1>1, <1>8, <1>15
  <1>22. rows' = [rows EXCEPT ![t] = s] BY <1>a, <1>0, <1>11
  <1>23. new.pc # "none" /\ new.hook = delivery[t].hook BY <1>2, <1>3, <1>4
  <1>24. UNCHANGED <<hook, fan>> /\ faults' \in {faults, faults + 1} BY <1>a
  <1> QED BY <1>b, <1>5, <1>14, <1>20, <1>21, <1>22, <1>23, <1>24, TaskStep

\* A row is appended, and the task goes on as new.
LEMMA RowStep ==
    ASSUME WebInv, NEW t \in Deliveries, NEW new \in TaskType, NEW r \in RowType,
           delivery[t].pc \in {"record", "raised"}, new.hook = delivery[t].hook, new.pc # "none",
           delivery' = [delivery EXCEPT ![t] = new], rows' = [rows EXCEPT ![t] = Append(@, r)],
           UNCHANGED <<hook, fan, answers, told, unheard, faults>>,
           Open(new) => Open(delivery[t]), Appended(delivery[t], new, r)
    PROVE  WebInv'
  <1>b. delivery[t].pc # "none" OBVIOUS
  <1>0. /\ delivery[t] \in TaskType /\ rows[t] \in Seq(RowType) /\ answers[t] \in Seq(Answers)
        /\ told[t] \in Nat /\ unheard[t] \in Nat /\ faults \in Nat
        /\ Sound(delivery[t], rows[t], answers[t], told[t], unheard[t], faults, hook[delivery[t].hook])
    BY <1>b, TaskFacts
  <1>1. PICK d \in TaskType : d = delivery[t] BY <1>0
  <1>2. PICK th : th = hook[d.hook] OBVIOUS
  <1>3. PICK outs \in Seq(Answers) : outs = answers[t] BY <1>0
  <1>4. PICK a \in Nat : a = told[t] BY <1>0
  <1>5. PICK u \in Nat : u = unheard[t] BY <1>0
  <1>6. PICK f \in Nat : f = faults BY <1>0
  <1>7. PICK s \in Seq(RowType) : s = rows[t] BY <1>0
  <1>8. Sound(d, s, outs, a, u, f, th) BY <1>0, <1>1, <1>2, <1>3, <1>4, <1>5, <1>6, <1>7
  <1>9. (Open(new) => Open(d)) /\ Appended(d, new, r) BY <1>1
  <1>10. Append(s, r) \in Seq(RowType) /\ Sound(new, Append(s, r), outs, a, u, f, th) BY <1>8, <1>9, RowSound
  <1>11. PICK bs \in Seq(RowType) : bs = Append(s, r) BY <1>10
  <1>12. Sound(new, bs, answers[t], told[t], unheard[t], faults', hook[new.hook])
    BY <1>1, <1>2, <1>3, <1>4, <1>5, <1>6, <1>10, <1>11
  <1>13. rows' = [rows EXCEPT ![t] = bs] BY <1>7, <1>11
  <1>14. UNCHANGED <<hook, fan, answers, told, unheard>> /\ faults' \in {faults, faults + 1} OBVIOUS
  <1> QED BY <1>b, <1>12, <1>13, <1>14, QuietStep

LEMMA RecordStep ==
    ASSUME WebInv, NEW t \in Deliveries, W!Record(t) PROVE WebInv'
  <1>a. delivery[t].pc = "record" /\ UNCHANGED <<hook, fan, answers, told, unheard, faults>>
    BY DEF W!Record, W!schema, W!history
  <1>b. delivery[t].pc # "none" BY <1>a
  <1>0. delivery[t] \in TaskType BY <1>b, TaskFacts
  <1>1. PICK d \in TaskType : d = delivery[t] BY <1>0
  <1>2. d.pc = "record" /\ d.retries \in Nat BY <1>a, <1>1 DEF TaskType
  <1>3. CASE ~hook[d.hook]
    <2>1. delivery' = [delivery EXCEPT ![t].pc = "ended"] /\ UNCHANGED rows BY <1>1, <1>3 DEF W!Record
    <2>2. PICK pc \in {"queued", "post", "ended"} : pc = "ended" OBVIOUS
    <2>3. delivery' = [delivery EXCEPT ![t].pc = pc] BY <2>1, <2>2
    <2>4. delivery[t].pc \in {"record", "raised"} /\ pc = "ended" /\ ~hook[delivery[t].hook] BY <1>a, <1>1, <1>3, <2>2
    <2> QED BY <1>a, <1>b, <2>1, <2>3, <2>4, PcStep
  <1>4. CASE hook[d.hook]
    <2>1. rows' = [rows EXCEPT ![t] = Append(@, W!Row(t, d.answer \in {"2xx", "error_status"}, W!Success(d.answer)))]
      BY <1>1, <1>4 DEF W!Record
    <2>2. delivery' = [delivery EXCEPT ![t] =
                 CASE W!Success(d.answer) \/ d.answer = "blocked" -> [@ EXCEPT !.pc = "ended"]
                   [] d.answer = "no_answer"             -> W!Retry(@)
                   [] OTHER                       -> [@ EXCEPT !.pc = "raised"]]
      BY <1>1, <1>4 DEF W!Record
    <2>3. ASSUME NEW new \in TaskType, NEW r \in RowType, delivery' = [delivery EXCEPT ![t] = new],
                 rows' = [rows EXCEPT ![t] = Append(@, r)], new.hook = d.hook, new.pc # "none",
                 Open(new) => Open(d), Appended(d, new, r)
          PROVE  WebInv'
      <3>1. delivery[t].pc \in {"record", "raised"} /\ new.hook = delivery[t].hook BY <1>a, <1>1, <2>3
      <3>2. (Open(new) => Open(delivery[t])) /\ Appended(delivery[t], new, r) BY <1>1, <2>3
      <3> QED BY <1>a, <2>3, <3>1, <3>2, RowStep
    <2>4. ASSUME d.answer # "2xx" PROVE Open(d) BY <1>2, <2>4 DEF Open, W!Success
    <2>5. CASE d.answer = "2xx" \/ d.answer = "blocked"
      <3>1. PICK new \in TaskType : /\ new = [d EXCEPT !.pc = "ended"] /\ new.pc = "ended" /\ new.hook = d.hook
                                    /\ new.retries = d.retries
        BY PcOf
      <3>2. delivery' = [delivery EXCEPT ![t] = new] BY <1>1, <2>2, <2>5, <3>1 DEF W!Success
      <3>3. ~Open(new) BY <3>1 DEF Open
      <3>4. CASE d.answer = "2xx"
        <4>1. PICK r \in RowType : r = [attempt |-> d.retries + 1, status |-> TRUE, delivered |-> TRUE]
          BY RowsAreRows
        <4>2. (d.answer \in {"2xx", "error_status"}) = TRUE /\ W!Success(d.answer) = TRUE BY <3>4 DEF W!Success
        <4>3. W!Row(t, TRUE, TRUE) = r BY <1>1, <4>1 DEF W!Row
        <4>4. rows' = [rows EXCEPT ![t] = Append(@, r)] BY <2>1, <4>2, <4>3
        <4>5. Appended(d, new, r) BY <1>2, <3>1, <3>4, <4>1 DEF Appended
        <4> QED BY <2>3, <3>1, <3>2, <3>3, <4>4, <4>5
      <3>5. CASE d.answer = "blocked"
        <4>1. PICK r \in RowType : r = [attempt |-> d.retries + 1, status |-> FALSE, delivered |-> FALSE]
          BY RowsAreRows
        <4>2. (d.answer \in {"2xx", "error_status"}) = FALSE /\ W!Success(d.answer) = FALSE BY <3>5 DEF W!Success
        <4>3. W!Row(t, FALSE, FALSE) = r BY <1>1, <4>1 DEF W!Row
        <4>4. rows' = [rows EXCEPT ![t] = Append(@, r)] BY <2>1, <4>2, <4>3
        <4>5. Appended(d, new, r) BY <1>2, <3>1, <3>5, <4>1 DEF Appended
        <4> QED BY <2>3, <3>1, <3>2, <3>3, <4>4, <4>5
      <3> QED BY <2>5, <3>4, <3>5
    <2>6. CASE d.answer = "no_answer"
      <3>0. ~(W!Success(d.answer) \/ d.answer = "blocked") BY <2>6 DEF W!Success
      <3>1. PICK new \in TaskType : new = W!Retry(d) BY RetryOf
      <3>2. delivery' = [delivery EXCEPT ![t] = new] BY <1>1, <2>2, <2>6, <3>0, <3>1
      <3>3. /\ new.hook = d.hook
            /\ \/ new.pc = "queued" /\ new.retries = d.retries + 1 /\ d.retries < DeliverRetries
               \/ new.pc = "ended" /\ new.retries = d.retries
        BY <3>1, RetryOf
      <3>4. PICK r \in RowType : r = [attempt |-> d.retries + 1, status |-> FALSE, delivered |-> FALSE]
        BY RowsAreRows
      <3>5. (d.answer \in {"2xx", "error_status"}) = FALSE /\ W!Success(d.answer) = FALSE BY <2>6 DEF W!Success
      <3>6. W!Row(t, FALSE, FALSE) = r BY <1>1, <3>4 DEF W!Row
      <3>7. rows' = [rows EXCEPT ![t] = Append(@, r)] BY <2>1, <3>5, <3>6
      <3>8. Appended(d, new, r) BY <1>2, <2>6, <3>3, <3>4 DEF Appended
      <3>9. Open(d) /\ new.pc # "none" BY <2>4, <2>6, <3>3
      <3> QED BY <2>3, <3>2, <3>3, <3>7, <3>8, <3>9
    <2>7. CASE d.answer \notin {"2xx", "blocked", "no_answer"}
      <3>0. ~(W!Success(d.answer) \/ d.answer = "blocked") /\ d.answer # "no_answer" BY <2>7 DEF W!Success
      <3>1. PICK new \in TaskType : /\ new = [d EXCEPT !.pc = "raised"] /\ new.pc = "raised" /\ new.hook = d.hook
                                    /\ new.retries = d.retries
        BY PcOf
      <3>2. delivery' = [delivery EXCEPT ![t] = new] BY <1>1, <2>2, <3>0, <3>1
      <3>3. Open(d) /\ new.pc # "none" BY <2>4, <2>7, <3>1
      <3>4. d.answer = "error_status"
        <4>1. d.answer \in Answers \ {"other_error"} BY <1>b, <1>1, <1>2, TaskFacts DEF Sound
        <4> QED BY <2>7, <4>1 DEF Answers, W!Answers
      <3>5. PICK r \in RowType : r = Refused(d.retries + 1) BY RowsAreRows
      <3>6. (d.answer \in {"2xx", "error_status"}) = TRUE /\ W!Success(d.answer) = FALSE BY <2>7, <3>4 DEF W!Success
      <3>7. W!Row(t, TRUE, FALSE) = r BY <1>1, <3>5 DEF W!Row, Refused
      <3>8. rows' = [rows EXCEPT ![t] = Append(@, r)] BY <2>1, <3>6, <3>7
      <3>9. Appended(d, new, r) BY <1>2, <2>7, <3>1, <3>5 DEF Appended
      <3> QED BY <2>3, <3>1, <3>2, <3>3, <3>8, <3>9
    <2> QED BY <2>5, <2>6, <2>7
  <1> QED BY <1>3, <1>4

LEMMA RecordRaisedStep ==
    ASSUME WebInv, NEW t \in Deliveries, W!RecordRaised(t) PROVE WebInv'
  <1>a. delivery[t].pc = "raised" /\ UNCHANGED <<hook, fan, answers, told, unheard, faults>>
    BY DEF W!RecordRaised, W!schema, W!history
  <1>b. delivery[t].pc # "none" BY <1>a
  <1>0. delivery[t] \in TaskType BY <1>b, TaskFacts
  <1>1. PICK d \in TaskType : d = delivery[t] BY <1>0
  <1>2. d.pc = "raised" /\ d.retries \in Nat BY <1>a, <1>1 DEF TaskType
  <1>3. CASE ~hook[d.hook]
    <2>1. delivery' = [delivery EXCEPT ![t].pc = "ended"] /\ UNCHANGED rows BY <1>1, <1>3 DEF W!RecordRaised
    <2>2. PICK pc \in {"queued", "post", "ended"} : pc = "ended" OBVIOUS
    <2>3. delivery' = [delivery EXCEPT ![t].pc = pc] BY <2>1, <2>2
    <2>4. delivery[t].pc \in {"record", "raised"} /\ pc = "ended" /\ ~hook[delivery[t].hook] BY <1>a, <1>1, <1>3, <2>2
    <2> QED BY <1>a, <1>b, <2>1, <2>3, <2>4, PcStep
  <1>4. CASE hook[d.hook]
    <2>1. rows' = [rows EXCEPT ![t] = Append(@, W!Row(t, FALSE, FALSE))] BY <1>1, <1>4 DEF W!RecordRaised
    <2>2. PICK new \in TaskType : new = W!Retry(d) BY RetryOf
    <2>3. delivery' = [delivery EXCEPT ![t] = new] BY <1>1, <1>4, <2>2 DEF W!RecordRaised
    <2>4. /\ new.hook = d.hook
          /\ \/ new.pc = "queued" /\ new.retries = d.retries + 1 /\ d.retries < DeliverRetries
             \/ new.pc = "ended" /\ new.retries = d.retries
      BY <2>2, RetryOf
    <2>5. PICK r \in RowType : r = [attempt |-> d.retries + 1, status |-> FALSE, delivered |-> FALSE]
      BY RowsAreRows
    <2>6. W!Row(t, FALSE, FALSE) = r BY <1>1, <2>5 DEF W!Row
    <2>7. rows' = [rows EXCEPT ![t] = Append(@, r)] BY <2>1, <2>6
    <2>8. Appended(d, new, r) BY <1>2, <2>4, <2>5 DEF Appended
    <2>9. Open(d) /\ new.pc # "none" BY <1>2, <2>4 DEF Open
    <2>10. /\ delivery[t].pc \in {"record", "raised"} /\ new.hook = delivery[t].hook
           /\ Open(delivery[t]) /\ Appended(delivery[t], new, r)
      BY <1>a, <1>1, <2>4, <2>8, <2>9
    <2> QED BY <1>a, <2>3, <2>7, <2>9, <2>10, RowStep
  <1> QED BY <1>3, <1>4

LEMMA WebInvStep == WebInv /\ [W!Next]_(W!vars) => WebInv'
  <1> SUFFICES ASSUME WebInv, [W!Next]_(W!vars) PROVE WebInv' OBVIOUS
  <1>0. fan \in FanType /\ faults \in Nat BY DEF WebInv, WebTypes
  <1>1. PICK f \in FanType : f = fan BY <1>0
  <1>2. ASSUME UNCHANGED <<hook, fan, delivery, rows, answers, told, unheard>>, faults' \in {faults, faults + 1}
        PROVE WebInv'
    <2>1. \A h \in Hooks : Pending(h)' => Pending(h) BY <1>2 DEF Pending
    <2> QED BY <1>0, <1>2, <2>1, FanStep
  <1>3. CASE UNCHANGED W!vars BY <1>2, <1>3 DEF W!vars
  <1>4. CASE W!NotifyReads \/ W!NotifyRaises \/ W!NotifyEnds
    <2>1. UNCHANGED <<hook, fan, delivery, rows, answers, told, unheard>> /\ faults' \in {faults, faults + 1}
      BY <1>4 DEF W!NotifyReads, W!NotifyRaises, W!NotifyEnds, W!Fault, W!schema, W!history
    <2> QED BY <1>2, <2>1
  <1>5. CASE W!FanReads
    <2>1. /\ fan.pc = "queued" /\ UNCHANGED <<hook, delivery, rows, answers, told, unheard, faults>>
          /\ fan' = [fan EXCEPT !.pc = "fan", !.todo = {h \in Hooks : hook[h]}]
      BY <1>5 DEF W!FanReads, W!schema, W!history
    <2>2. fan' \in FanType BY <1>0, <2>1 DEF FanType
    <2>3. \A h \in Hooks : Pending(h)' => Pending(h) BY <2>1 DEF Pending
    <2> QED BY <2>1, <2>2, <2>3, FanStep
  <1>6. CASE W!FanEnds
    <2>1. /\ fan.pc = "fan" /\ UNCHANGED <<hook, delivery, rows, answers, told, unheard, faults>>
          /\ fan' = [fan EXCEPT !.pc = "ended"]
      BY <1>6 DEF W!FanEnds, W!schema, W!history
    <2>2. fan' \in FanType /\ fan'.pc = "ended" BY <1>0, <2>1 DEF FanType
    <2>3. \A h \in Hooks : Pending(h)' => Pending(h) BY <2>2 DEF Pending
    <2> QED BY <2>1, <2>2, <2>3, FanStep
  <1>7. CASE W!FanFails
    <2>1. fan' = W!RetryTask(f) /\ UNCHANGED <<hook, delivery, rows, answers, told, unheard>> /\ faults' = faults + 1
      BY <1>1, <1>7 DEF W!FanFails, W!Fault, W!schema, W!history
    <2>2. W!RetryTask(f) \in FanType
      <3>1. PICK m \in FanType : m = [f EXCEPT !.pc = "queued"] BY DEF FanType
      <3>2. PICK k \in Nat : k = f.retries + 1 BY DEF FanType
      <3>3. [m EXCEPT !.retries = k] \in FanType BY DEF FanType
      <3>4. W!Again(f) = [f EXCEPT !.pc = "queued", !.retries = @ + 1] BY DEF W!Again
      <3>5. W!Again(f) = [m EXCEPT !.retries = k] BY <3>1, <3>2, <3>4 DEF FanType
      <3>6. [f EXCEPT !.pc = "ended"] \in FanType BY DEF FanType
      <3> QED BY <3>3, <3>5, <3>6 DEF W!RetryTask
    <2> QED BY <2>1, <2>2, FanStep
  <1>8. CASE W!NodeLost
    <2>0. faults' = faults + 1 /\ UNCHANGED <<hook, rows, answers, told, unheard>>
      BY <1>8 DEF W!NodeLost, W!Fault, W!schema, W!history
    <2>1. CASE fan.pc = "fan" /\ fan' = [fan EXCEPT !.pc = "queued"] /\ UNCHANGED <<delivery, notify>>
      <3>1. fan' \in FanType BY <1>0, <2>1 DEF FanType
      <3> QED BY <2>0, <2>1, <3>1, FanStep
    <2>2. CASE UNCHANGED <<fan, delivery>> BY <2>0, <2>2, <1>2
    <2>3. ASSUME NEW t \in Deliveries, delivery[t].pc \in {"post", "record", "raised"},
                 delivery' = [delivery EXCEPT ![t].pc = "queued"], UNCHANGED <<fan, notify>>
          PROVE  WebInv'
      <3>1. PICK pc \in {"queued", "post", "ended"} : pc = "queued" OBVIOUS
      <3>2. delivery' = [delivery EXCEPT ![t].pc = pc] BY <2>3, <3>1
      <3>3. delivery[t].pc # "none" /\ UNCHANGED <<hook, fan, rows, answers, told, unheard>> BY <2>0, <2>3
      <3> QED BY <2>0, <3>2, <3>3, PcStep
    <2> QED BY <1>8, <2>1, <2>2, <2>3 DEF W!NodeLost
  <1>9. ASSUME NEW h \in Hooks, W!DeleteWebhook(h) PROVE WebInv' BY <1>9, DeleteWebhookStep
  <1>10. ASSUME NEW h \in Hooks, NEW t \in Deliveries, W!FanQueues(h, t) PROVE WebInv' BY <1>10, FanQueuesStep
  <1>11. ASSUME NEW t \in Deliveries, W!DeliverSkips(t) \/ W!DeliverLoads(t) PROVE WebInv'
    <2>1. /\ delivery[t].pc = "queued" /\ UNCHANGED <<hook, fan, rows, answers, told, unheard>> /\ UNCHANGED faults
          /\ \E pc \in {"post", "ended"} : delivery' = [delivery EXCEPT ![t].pc = pc]
      BY <1>11 DEF W!DeliverSkips, W!DeliverLoads, W!schema, W!history
    <2>2. PICK pc \in {"queued", "post", "ended"} : pc # "queued" /\ delivery' = [delivery EXCEPT ![t].pc = pc]
      BY <2>1
    <2>3. delivery[t].pc # "none" BY <2>1
    <2> QED BY <2>1, <2>2, <2>3, PcStep
  <1>12. ASSUME NEW t \in Deliveries, W!DeliverFails(t) PROVE WebInv'
    <2>1. /\ delivery[t].pc \in {"post", "record", "raised"} /\ faults' = faults + 1
          /\ UNCHANGED <<hook, fan, rows, answers, told, unheard>>
          /\ delivery' = [delivery EXCEPT ![t].pc = "ended"]
      BY <1>12 DEF W!DeliverFails, W!Fault, W!schema, W!history
    <2>2. PICK pc \in {"queued", "post", "ended"} : pc = "ended" OBVIOUS
    <2>3. delivery[t].pc # "none" /\ delivery' = [delivery EXCEPT ![t].pc = pc] BY <2>1, <2>2
    <2> QED BY <2>1, <2>3, PcStep
  <1>13. ASSUME NEW t \in Deliveries, W!Post(t) PROVE WebInv' BY <1>13, PostStep
  <1>14. ASSUME NEW t \in Deliveries, W!Record(t) PROVE WebInv' BY <1>14, RecordStep
  <1>15. ASSUME NEW t \in Deliveries, W!RecordRaised(t) PROVE WebInv' BY <1>15, RecordRaisedStep
  <1> QED BY <1>3, <1>4, <1>5, <1>6, <1>7, <1>8, <1>9, <1>10, <1>11, <1>12, <1>13, <1>14, <1>15 DEF W!Next

LEMMA WebInvTellsOnce == WebInv => W!ToldOnce
  <1> SUFFICES ASSUME WebInv PROVE W!ToldOnce OBVIOUS
  <1>0. /\ told \in [Deliveries -> Nat] /\ unheard \in [Deliveries -> Nat] /\ faults \in Nat
        /\ answers \in [Deliveries -> Seq(Answers)] /\ delivery \in [Deliveries -> TaskType]
    BY DEF WebInv, WebTypes
  <1>1. ASSUME NEW h \in Hooks PROVE Cardinality({t \in W!Of(h) : told[t] > 0}) <= 1 + faults
    <2>1. PICK S : S = {t \in W!Of(h) : told[t] > 0} OBVIOUS
    <2>2. S \subseteq W!Of(h) BY <2>1
    <2>3. IsFiniteSet(W!Of(h)) /\ Cardinality(W!Of(h)) \in Nat BY OfFinite
    <2>4. Cardinality(S) \in Nat /\ Cardinality(S) <= Cardinality(W!Of(h))
      BY <2>2, <2>3, FS_Subset, FS_CardinalityType
    <2>5. Cardinality(W!Of(h)) + Owed(h) <= 1 + faults BY DEF WebInv, QueuedInTime
    <2>6. Owed(h) \in {0, 1} BY DEF Owed
    <2>7. Cardinality(S) <= 1 + faults BY <1>0, <2>3, <2>4, <2>5, <2>6
    <2> QED BY <2>1, <2>7
  <1>2. ASSUME NEW t \in Deliveries
        PROVE  told[t] <= 1 + unheard[t] + faults /\ told[t] <= 1 + DeliverRetries + faults
    <2>1. CASE delivery[t].pc = "none"
      <3>1. told[t] = 0 /\ unheard[t] = 0 BY <2>1 DEF WebInv, Recorded, Untouched
      <3> QED BY <1>0, <3>1, ServicesAssumption
    <2>2. CASE delivery[t].pc # "none"
      <3>1. Sound(delivery[t], rows[t], answers[t], told[t], unheard[t], faults, hook[delivery[t].hook])
        BY <2>2, TaskFacts
      <3>2. /\ told[t] <= 1 + unheard[t] + faults /\ told[t] <= Len(answers[t])
            /\ Len(answers[t]) <= 1 + delivery[t].retries + faults /\ delivery[t].retries <= DeliverRetries
        BY <3>1 DEF Sound
      <3>3. Len(answers[t]) \in Nat /\ told[t] \in Nat BY <1>0
      <3>4. delivery[t].retries \in Nat BY <1>0 DEF TaskType
      <3> QED BY <1>0, <3>2, <3>3, <3>4, ServicesAssumption
    <2> QED BY <2>1, <2>2
  <1>3. \A c \in {} : told[c] <= 1 + faults OBVIOUS
  <1>4. \A h \in Hooks : Cardinality({t \in W!Of(h) : told[t] > 0}) <= 1 + faults BY ONLY <1>1, Zenon
  <1>5. \A t \in Deliveries : told[t] <= 1 + unheard[t] + faults /\ told[t] <= 1 + DeliverRetries + faults BY <1>2
  <1>6. \A S : W!Cardinality(S) = Cardinality(S) BY DEF W!Cardinality, Cardinality
  <1> QED BY <1>3, <1>4, <1>5, <1>6 DEF W!ToldOnce

\* The rows shown are those of the attempts.
LEMMA FaithfulIsExact ==
    ASSUME NEW s \in Seq(RowType), NEW outs \in Seq(Answers), Shows(s, outs, Len(outs))
    PROVE  /\ {s[i] : i \in DOMAIN s} = UNION {W!RowsOf(n, outs[n]) : n \in DOMAIN outs}
           /\ (\E i \in DOMAIN s : s[i].delivered) <=> Heard(outs)
  <1>1. DOMAIN outs = 1..Len(outs) /\ Len(outs) \in Nat /\ \A n \in 1..Len(outs) : n \in Nat /\ outs[n] \in Answers OBVIOUS
  <1>2. \A i \in DOMAIN s : s[i] \in RowType OBVIOUS
  <1>3. \A r : Given(outs, Len(outs), r) <=> r \in UNION {W!RowsOf(n, outs[n]) : n \in DOMAIN outs}
    BY <1>1 DEF Given
  <1>4. \A r : Given(outs, Len(outs), r) => r \in RowType BY <1>1, GivenAttempts
  <1>5. \A r : (\E i \in DOMAIN s : s[i] = r) <=> Given(outs, Len(outs), r) BY <1>2, <1>4 DEF Shows
  <1>6. {s[i] : i \in DOMAIN s} = UNION {W!RowsOf(n, outs[n]) : n \in DOMAIN outs} BY <1>3, <1>5
  <1>7. ASSUME NEW i \in DOMAIN s, s[i].delivered PROVE Heard(outs)
    <2>1. PICK r : r = s[i] OBVIOUS
    <2>2. Given(outs, Len(outs), r) BY <1>5, <2>1
    <2>3. PICK n \in 1..Len(outs) : r \in W!RowsOf(n, outs[n]) BY <2>2 DEF Given
    <2>4. r.delivered <=> W!Success(outs[n]) BY <1>1, <2>3, RowsOfAttempt
    <2> QED BY <1>1, <1>7, <2>1, <2>4 DEF Heard
  <1>8. ASSUME Heard(outs) PROVE \E i \in DOMAIN s : s[i].delivered
    <2>1. PICK n \in 1..Len(outs) : W!Success(outs[n]) BY <1>1, <1>8 DEF Heard
    <2>2. PICK r : r = [attempt |-> n, status |-> TRUE, delivered |-> TRUE] OBVIOUS
    <2>3. r \in W!RowsOf(n, outs[n]) BY <1>1, <2>1, <2>2, RowsOfAttempt
    <2>4. Given(outs, Len(outs), r) BY <2>3 DEF Given
    <2>5. PICK i \in DOMAIN s : s[i] = r BY <1>5, <2>4
    <2>6. s[i].delivered = TRUE BY <2>2, <2>5
    <2> QED BY <2>6
  <1> QED BY <1>6, <1>7, <1>8

LEMMA WebInvShows == WebInv => W!HistoryIsTruthful
  <1> SUFFICES ASSUME WebInv, faults = 0
               PROVE  /\ \A h \in Hooks : \A t \in DOMAIN W!list_deliveries(h) :
                           LET shown == W!list_deliveries(h)[t] IN
                           delivery[t].pc \in {"queued", "ended"} =>
                             /\ {shown[i] : i \in DOMAIN shown} = UNION {W!RowsOf(n, answers[t][n]) : n \in DOMAIN answers[t]}
                             /\ \A i, j \in DOMAIN shown : shown[i] = shown[j] => i = j
                             /\ (\E i \in DOMAIN shown : shown[i].delivered) <=> told[t] > unheard[t]
                      /\ \A c \in {} : told[c] = 1 \/ c \notin notify.sent \cup notify.failed \cup notify.skipped
    BY DEF W!HistoryIsTruthful
  <1>1. ASSUME NEW h \in Hooks, NEW t \in {d \in W!Of(h) : hook[h]}, delivery[t].pc \in {"queued", "ended"}
        PROVE  /\ {rows[t][i] : i \in DOMAIN rows[t]} = UNION {W!RowsOf(n, answers[t][n]) : n \in DOMAIN answers[t]}
               /\ \A i, j \in DOMAIN rows[t] : rows[t][i] = rows[t][j] => i = j
               /\ (\E i \in DOMAIN rows[t] : rows[t][i].delivered) <=> told[t] > unheard[t]
    <2>1. t \in Deliveries /\ delivery[t].hook = h /\ hook[h] BY <1>1 DEF W!Of
    <2>2. delivery[t].pc # "none" BY <1>1
    <2>3. /\ rows[t] \in Seq(RowType) /\ answers[t] \in Seq(Answers)
          /\ Sound(delivery[t], rows[t], answers[t], told[t], unheard[t], faults, hook[delivery[t].hook])
      BY <2>1, <2>2, TaskFacts
    <2>4. Faithful(delivery[t], rows[t], answers[t], told[t], unheard[t]) BY <2>1, <2>3 DEF Sound
    <2>5. PICK s \in Seq(RowType) : s = rows[t] BY <2>3
    <2>6. PICK outs \in Seq(Answers) : outs = answers[t] BY <2>3
    <2>7. Once(s) /\ Shows(s, outs, Len(outs)) /\ (told[t] > unheard[t] <=> Heard(outs))
      BY <1>1, <2>4, <2>5, <2>6 DEF Faithful
    <2>8. /\ {s[i] : i \in DOMAIN s} = UNION {W!RowsOf(n, outs[n]) : n \in DOMAIN outs}
          /\ (\E i \in DOMAIN s : s[i].delivered) <=> Heard(outs)
      BY <2>7, FaithfulIsExact
    <2> QED BY <2>5, <2>6, <2>7, <2>8 DEF Once
  <1>2. ASSUME NEW h \in Hooks, NEW t \in DOMAIN W!list_deliveries(h)
        PROVE  t \in {d \in W!Of(h) : hook[h]} /\ W!list_deliveries(h)[t] = rows[t]
    BY <1>2 DEF W!list_deliveries
  <1> QED BY <1>1, <1>2

LEMMA WebInvHolds == WebInv => W!ToldOnce /\ W!HistoryIsTruthful
  BY WebInvTellsOnce, WebInvShows

\* Outbound's properties of webhooks, for any webhooks, deliveries, retries
\* and faults, on both schemas: a webhook accepts the end of a run under one
\* delivery id and one more for each fault, again under the same id only for an
\* answer that did not arrive or a fault, and without a fault
\* webhook_deliveries has exactly the rows of the attempts.
THEOREM WebhooksHold == W!Spec => [](W!ToldOnce /\ W!HistoryIsTruthful)
  <1>1. W!Init => WebInv BY WebInvInit
  <1>2. WebInv /\ [W!Next]_(W!vars) => WebInv' BY WebInvStep
  <1>3. WebInv => W!ToldOnce /\ W!HistoryIsTruthful BY WebInvHolds
  <1> QED BY <1>1, <1>2, <1>3, PTL DEF W!Spec

-----------------------------------------------------------------------------
(***************************************************************************)
(* Files.  As long as requests neither overlap nor break off, one request  *)
(* at most is under way and each of its steps finds what the one before it *)
(* left; a pending key outlives the row only until the request that        *)
(* inserts the row has ended; and once a file is deleted its id is spent,  *)
(* so that what its tasks still do is not taken for another content.       *)
(***************************************************************************)
Held == F!Contents \cup {"torn", None}
CallType == [pc : {"idle", "put", "finalize", "snapshot", "delete"}, of : Held, direct : BOOLEAN]
ProfileTaskType == [pc : {"none", "queued", "loaded", "running"}, of : Held, tries : Nat]
ProfileType == [status : {"pending", "running", "complete", "failed"}, of : Held]

FileTypes ==
    /\ object \in Held /\ row \in Held /\ snapshots \in Seq(Held)
    /\ call \in [Clients -> CallType] /\ task \in [Tasks -> ProfileTaskType]
    /\ profile # None => profile \in ProfileType

OneRequest == \A j, k \in Clients : call[j].pc # "idle" /\ call[k].pc # "idle" => j = k

Deleting == \E k \in Clients : call[k].pc = "delete"

IdIsFresh == ~used => ~pending /\ row = None /\ \A k \in Clients : call[k].pc # "finalize"

RequestsAgree ==
    \A k \in Clients :
        /\ call[k].pc = "put" => row = None
        /\ call[k].pc = "finalize" => row = None /\ object = call[k].of /\ object # None /\ (pending => call[k].direct)
        /\ call[k].pc = "snapshot" => row = call[k].of /\ row # None /\ (pending => call[k].direct)
        /\ call[k].pc = "delete" => row # None /\ object = None /\ ~pending

DataAgrees == row # None => Deleting \/ (object # None /\ (~replaced => object = row))

KeyAgrees == row # None /\ pending => \E k \in Clients : call[k].pc = "snapshot"

RowAgrees ==
    /\ \A i \in DOMAIN snapshots : snapshots[i] = row
    /\ row = None => snapshots = <<>> /\ profile = None
    /\ ~replaced /\ profile # None => profile.of \in {None, row}

TasksAgree ==
    \A t \in Tasks :
        /\ ~replaced /\ task[t].pc \in {"loaded", "running"} /\ row # None => task[t].of = row
        /\ task[t].pc # "none" /\ row = None => used /\ ~pending /\ \A k \in Clients : call[k].pc # "finalize"

SomeTask == \E t \in Tasks : task[t].pc # "none"

NotStuck == ~lost /\ profile # None /\ ~Deleting /\ profile.status = "running" => SomeTask

Calm ==
    /\ OneRequest /\ IdIsFresh /\ RequestsAgree /\ DataAgrees /\ KeyAgrees
    /\ RowAgrees /\ TasksAgree /\ NotStuck

FileInv == FileTypes /\ (calm => Calm)

LEMMA FileInvInit == F!Init \/ Uploaded => FileInv
  <1>1. F!Idle \in CallType /\ F!Idle.pc = "idle" /\ F!NoTask \in ProfileTaskType /\ F!NoTask.pc = "none"
    BY DEF F!Idle, F!NoTask, CallType, ProfileTaskType, Held
  <1>2. ASSUME F!Init PROVE FileInv
    <2>1. <<>> \in Seq(Held) OBVIOUS
    <2>2. FileTypes BY <1>1, <1>2, <2>1 DEF F!Init, FileTypes, Held
    <2>3. Calm
      BY <1>1, <1>2 DEF F!Init, Calm, OneRequest, IdIsFresh, RequestsAgree, DataAgrees, KeyAgrees, RowAgrees,
                        TasksAgree, NotStuck
    <2> QED BY <2>2, <2>3 DEF FileInv
  <1>3. ASSUME Uploaded PROVE FileInv
    <2>1. "good" \in Held /\ "good" # None BY ServicesAssumption DEF Held, F!Contents
    <2>2. <<"good">> \in Seq(Held) /\ DOMAIN <<"good">> = {1} /\ <<"good">>[1] = "good" BY <2>1
    <2>3. task \in [Tasks -> ProfileTaskType] /\ \A t \in Tasks : task[t].pc \in {"none", "queued"}
      <3>1. PICK queued : task = [t \in Tasks |-> [pc |-> IF t \in queued THEN "queued" ELSE "none",
                                                    of |-> None, tries |-> 0]]
        BY <1>3 DEF Uploaded
      <3>2. \A pc \in {"none", "queued"} : [pc |-> pc, of |-> None, tries |-> 0] \in ProfileTaskType
        BY DEF ProfileTaskType, Held
      <3>3. \A t \in Tasks : (IF t \in queued THEN "queued" ELSE "none") \in {"none", "queued"} OBVIOUS
      <3>4. \A t \in Tasks : [pc |-> IF t \in queued THEN "queued" ELSE "none", of |-> None, tries |-> 0]
                               \in ProfileTaskType
        BY <3>2, <3>3
      <3> QED BY <3>1, <3>3, <3>4
    <2>4. FileTypes BY <1>1, <1>3, <2>1, <2>2, <2>3 DEF Uploaded, FileTypes
    <2>5. Calm
      BY <1>1, <1>3, <2>1, <2>2, <2>3
         DEF Uploaded, Calm, OneRequest, IdIsFresh, RequestsAgree, DataAgrees, KeyAgrees, RowAgrees, TasksAgree, NotStuck
    <2> QED BY <2>4, <2>5 DEF FileInv
  <1> QED BY <1>2, <1>3

LEMMA IdleCall == F!Idle \in CallType /\ F!Idle.pc = "idle"
  BY DEF F!Idle, CallType, Held

LEMMA SetEffect ==
    ASSUME FileInv, NEW k \in Clients, NEW c \in CallType, F!Set(k, c)
    PROVE  call' \in [Clients -> CallType] /\ call'[k] = c /\ \A j \in Clients : j # k => call'[j] = call[j]
  BY DEF F!Set, FileInv, FileTypes

LEMMA RequestUploadUrlStep ==
    ASSUME FileInv, NEW k \in Clients, F!RequestUploadUrl(k) PROVE FileInv'
  <1>0. FileTypes BY DEF FileInv
  <1>1. /\ ~used /\ used' = TRUE /\ call[k].pc = "idle" /\ (calm' => calm /\ F!Alone(k))
        /\ UNCHANGED <<object, row, snapshots, profile, call, task, lost, replaced>>
    BY DEF F!RequestUploadUrl, F!presigned, F!Arrives
  <1>2. call' = call BY <1>1
  <1>3. FileTypes' BY <1>0, <1>1, <1>2 DEF FileTypes
  <1>4. ASSUME calm' PROVE Calm'
    <2>0. calm /\ Calm BY <1>1, <1>4 DEF FileInv
    <2>1. \A j \in Clients : call[j].pc = "idle" BY <1>1, <1>4 DEF F!Alone
    <2>2. row = None /\ \A t \in Tasks : task[t].pc = "none" BY <1>1, <2>0 DEF Calm, IdIsFresh, TasksAgree
    <2>3. OneRequest' BY <1>1, <1>2, <2>0, <2>1, <2>2 DEF Calm, OneRequest
    <2>4. IdIsFresh' BY <1>1, <1>2, <2>0, <2>1, <2>2 DEF Calm, IdIsFresh
    <2>5. RequestsAgree' BY <1>1, <1>2, <2>0, <2>1, <2>2 DEF Calm, RequestsAgree
    <2>6. DataAgrees' BY <1>1, <1>2, <2>0, <2>1, <2>2 DEF Calm, DataAgrees, Deleting
    <2>7. KeyAgrees' BY <1>1, <1>2, <2>0, <2>1, <2>2 DEF Calm, KeyAgrees
    <2>8. RowAgrees' BY <1>1, <1>2, <2>0, <2>1, <2>2 DEF Calm, RowAgrees
    <2>9. TasksAgree' BY <1>1, <1>2, <2>0, <2>1, <2>2 DEF Calm, TasksAgree
    <2>10. NotStuck' BY <1>1, <1>2, <2>0, <2>1, <2>2 DEF Calm, NotStuck, Deleting, SomeTask
    <2> QED BY <2>3, <2>4, <2>5, <2>6, <2>7, <2>8, <2>9, <2>10 DEF Calm
  <1> QED BY <1>3, <1>4 DEF FileInv

LEMMA DirectUploadStartsStep ==
    ASSUME FileInv, NEW k \in Clients, NEW c \in F!Contents, F!DirectUploadStarts(k, c) PROVE FileInv'
  <1>0. FileTypes BY DEF FileInv
  <1>1. /\ pending /\ call[k].pc = "idle" /\ (calm' => calm /\ F!Alone(k))
        /\ F!Set(k, [pc |-> "put", of |-> c, direct |-> TRUE])
        /\ object' \in {"torn", object} /\ UNCHANGED <<pending, row, snapshots, profile, task, used, lost, replaced>>
    BY DEF F!DirectUploadStarts, F!presigned, F!Arrives
  <1> DEFINE c1 == [pc |-> "put", of |-> c, direct |-> TRUE]
  <1>a. c1 \in CallType /\ c1.pc = "put" BY <1>0, <1>1, ServicesAssumption DEF FileTypes, CallType, Held, F!Contents
  <1>b. F!Set(k, c1) BY <1>1
  <1> HIDE DEF c1
  <1>2. call' \in [Clients -> CallType] /\ call'[k] = c1 /\ \A j \in Clients : j # k => call'[j] = call[j]
    BY <1>a, <1>b, SetEffect
  <1>3. FileTypes' BY <1>0, <1>1, <1>2 DEF FileTypes, Held
  <1>4. ASSUME calm' PROVE Calm'
    <2>0. calm /\ Calm BY <1>1, <1>4 DEF FileInv
    <2>1. \A j \in Clients : call[j].pc = "idle" BY <1>1, <1>4 DEF F!Alone
    <2>2. \A j \in Clients : j # k => call'[j].pc = "idle" BY <1>2, <2>1
    <2>a. row = None BY <1>1, <2>0, <2>1 DEF Calm, KeyAgrees, IdIsFresh, RequestsAgree
    <2>3. OneRequest' BY <1>1, <1>2, <2>0, <1>a, <2>1, <2>2, <2>a DEF Calm, OneRequest
    <2>4. IdIsFresh' BY <1>1, <1>2, <2>0, <1>a, <2>1, <2>2, <2>a DEF Calm, IdIsFresh
    <2>5. RequestsAgree' BY <1>1, <1>2, <2>0, <1>a, <2>1, <2>2, <2>a DEF Calm, RequestsAgree
    <2>6. DataAgrees' BY <1>1, <1>2, <2>0, <1>a, <2>1, <2>2, <2>a DEF Calm, DataAgrees, Deleting
    <2>7. KeyAgrees' BY <1>1, <1>2, <2>0, <1>a, <2>1, <2>2, <2>a DEF Calm, KeyAgrees
    <2>8. RowAgrees' BY <1>1, <1>2, <2>0, <1>a, <2>1, <2>2, <2>a DEF Calm, RowAgrees
    <2>9. TasksAgree' BY <1>1, <1>2, <2>0, <1>a, <2>1, <2>2, <2>a DEF Calm, TasksAgree
    <2>10. NotStuck' BY <1>1, <1>2, <2>0, <1>a, <2>1, <2>2, <2>a DEF Calm, NotStuck, Deleting, SomeTask
    <2> QED BY <2>3, <2>4, <2>5, <2>6, <2>7, <2>8, <2>9, <2>10 DEF Calm
  <1> QED BY <1>3, <1>4 DEF FileInv

LEMMA DirectUploadEndsStep ==
    ASSUME FileInv, NEW k \in Clients, F!DirectUploadEnds(k) PROVE FileInv'
  <1>0. FileTypes BY DEF FileInv
  <1>1. /\ call[k].pc = "put" /\ F!Set(k, F!Idle)
        /\ object' \in {call[k].of, None, object}
        /\ UNCHANGED <<pending, row, snapshots, profile, task, used, calm, lost, replaced>>
    BY DEF F!DirectUploadEnds, F!presigned
  <1>2. /\ call' \in [Clients -> CallType] /\ call'[k].pc = "idle"
        /\ \A j \in Clients : j # k => call'[j] = call[j]
    BY <1>1, IdleCall, SetEffect
  <1>3. FileTypes' BY <1>0, <1>1, <1>2 DEF FileTypes, CallType, Held
  <1>4. ASSUME calm' PROVE Calm'
    <2>0. calm /\ Calm BY <1>1, <1>4 DEF FileInv
    <2>1. \A j \in Clients : j # k => call[j].pc = "idle" BY <1>1, <2>0 DEF Calm, OneRequest
    <2>2. \A j \in Clients : j # k => call'[j].pc = "idle" BY <1>2, <2>1
    <2>a. row = None BY <1>1, <2>0, <2>1 DEF Calm, KeyAgrees, IdIsFresh, RequestsAgree
    <2>3. OneRequest' BY <1>1, <1>2, <2>0, <2>1, <2>2, <2>a DEF Calm, OneRequest
    <2>4. IdIsFresh' BY <1>1, <1>2, <2>0, <2>1, <2>2, <2>a DEF Calm, IdIsFresh
    <2>5. RequestsAgree' BY <1>1, <1>2, <2>0, <2>1, <2>2, <2>a DEF Calm, RequestsAgree
    <2>6. DataAgrees' BY <1>1, <1>2, <2>0, <2>1, <2>2, <2>a DEF Calm, DataAgrees, Deleting
    <2>7. KeyAgrees' BY <1>1, <1>2, <2>0, <2>1, <2>2, <2>a DEF Calm, KeyAgrees
    <2>8. RowAgrees' BY <1>1, <1>2, <2>0, <2>1, <2>2, <2>a DEF Calm, RowAgrees
    <2>9. TasksAgree' BY <1>1, <1>2, <2>0, <2>1, <2>2, <2>a DEF Calm, TasksAgree
    <2>10. NotStuck' BY <1>1, <1>2, <2>0, <2>1, <2>2, <2>a DEF Calm, NotStuck, Deleting, SomeTask
    <2> QED BY <2>3, <2>4, <2>5, <2>6, <2>7, <2>8, <2>9, <2>10 DEF Calm
  <1> QED BY <1>3, <1>4 DEF FileInv

LEMMA UploadFileStep ==
    ASSUME FileInv, NEW k \in Clients, NEW c \in F!Contents, F!UploadFile(k, c) PROVE FileInv'
  <1>0. FileTypes BY DEF FileInv
  <1>1. /\ ~used /\ used' = TRUE /\ call[k].pc = "idle" /\ (calm' => calm /\ F!Alone(k))
        /\ F!Set(k, [pc |-> "finalize", of |-> c, direct |-> FALSE])
        /\ object' = c /\ UNCHANGED <<pending, row, snapshots, profile, task, lost, replaced>>
    BY DEF F!UploadFile, F!presigned, F!Arrives
  <1> DEFINE c1 == [pc |-> "finalize", of |-> c, direct |-> FALSE]
  <1>a. c1 \in CallType /\ c1.pc = "finalize" /\ c1.of = c /\ c # None BY <1>0, <1>1, ServicesAssumption DEF FileTypes, CallType, Held, F!Contents
  <1>b. F!Set(k, c1) BY <1>1
  <1> HIDE DEF c1
  <1>2. call' \in [Clients -> CallType] /\ call'[k] = c1 /\ \A j \in Clients : j # k => call'[j] = call[j]
    BY <1>a, <1>b, SetEffect
  <1>3. FileTypes' BY <1>0, <1>1, <1>2 DEF FileTypes, Held
  <1>4. ASSUME calm' PROVE Calm'
    <2>0. calm /\ Calm BY <1>1, <1>4 DEF FileInv
    <2>1. \A j \in Clients : call[j].pc = "idle" BY <1>1, <1>4 DEF F!Alone
    <2>2. \A j \in Clients : j # k => call'[j].pc = "idle" BY <1>2, <2>1
    <2>a. row = None /\ ~pending /\ \A t \in Tasks : task[t].pc = "none"
      BY <1>1, <2>0 DEF Calm, IdIsFresh, TasksAgree
    <2>3. OneRequest' BY <1>1, <1>2, <2>0, <1>a, <2>1, <2>2, <2>a DEF Calm, OneRequest
    <2>4. IdIsFresh' BY <1>1, <1>2, <2>0, <1>a, <2>1, <2>2, <2>a DEF Calm, IdIsFresh
    <2>5. RequestsAgree' BY <1>1, <1>2, <2>0, <1>a, <2>1, <2>2, <2>a DEF Calm, RequestsAgree
    <2>6. DataAgrees' BY <1>1, <1>2, <2>0, <1>a, <2>1, <2>2, <2>a DEF Calm, DataAgrees, Deleting
    <2>7. KeyAgrees' BY <1>1, <1>2, <2>0, <1>a, <2>1, <2>2, <2>a DEF Calm, KeyAgrees
    <2>8. RowAgrees' BY <1>1, <1>2, <2>0, <1>a, <2>1, <2>2, <2>a DEF Calm, RowAgrees
    <2>9. TasksAgree' BY <1>1, <1>2, <2>0, <1>a, <2>1, <2>2, <2>a DEF Calm, TasksAgree
    <2>10. NotStuck' BY <1>1, <1>2, <2>0, <1>a, <2>1, <2>2, <2>a DEF Calm, NotStuck, Deleting, SomeTask
    <2> QED BY <2>3, <2>4, <2>5, <2>6, <2>7, <2>8, <2>9, <2>10 DEF Calm
  <1> QED BY <1>3, <1>4 DEF FileInv

LEMMA ConfirmDirectUploadStep ==
    ASSUME FileInv, NEW k \in Clients, F!ConfirmDirectUpload(k) PROVE FileInv'
  <1>0. FileTypes BY DEF FileInv
  <1>1. /\ pending /\ object # None /\ call[k].pc = "idle" /\ (calm' => calm /\ F!Alone(k))
        /\ F!Set(k, [pc |-> "finalize", of |-> object, direct |-> TRUE])
        /\ UNCHANGED <<pending, object, row, snapshots, profile, task, used, lost, replaced>>
    BY DEF F!ConfirmDirectUpload, F!presigned, F!Arrives
  <1> DEFINE c1 == [pc |-> "finalize", of |-> object, direct |-> TRUE]
  <1>a. c1 \in CallType /\ c1.pc = "finalize" /\ c1.of = object /\ c1.direct = TRUE BY <1>0, <1>1, ServicesAssumption DEF FileTypes, CallType, Held, F!Contents
  <1>b. F!Set(k, c1) BY <1>1
  <1> HIDE DEF c1
  <1>2. call' \in [Clients -> CallType] /\ call'[k] = c1 /\ \A j \in Clients : j # k => call'[j] = call[j]
    BY <1>a, <1>b, SetEffect
  <1>3. FileTypes' BY <1>0, <1>1, <1>2 DEF FileTypes
  <1>4. ASSUME calm' PROVE Calm'
    <2>0. calm /\ Calm BY <1>1, <1>4 DEF FileInv
    <2>1. \A j \in Clients : call[j].pc = "idle" BY <1>1, <1>4 DEF F!Alone
    <2>2. \A j \in Clients : j # k => call'[j].pc = "idle" BY <1>2, <2>1
    <2>a. row = None BY <1>1, <2>0, <2>1 DEF Calm, KeyAgrees, IdIsFresh, RequestsAgree
    <2>b. \A t \in Tasks : task[t].pc = "none" BY <1>1, <2>0, <2>a DEF Calm, TasksAgree
    <2>3. OneRequest' BY <1>1, <1>2, <2>0, <1>a, <2>1, <2>2, <2>a, <2>b DEF Calm, OneRequest
    <2>4. IdIsFresh' BY <1>1, <1>2, <2>0, <1>a, <2>1, <2>2, <2>a, <2>b DEF Calm, IdIsFresh
    <2>5. RequestsAgree' BY <1>1, <1>2, <2>0, <1>a, <2>1, <2>2, <2>a, <2>b DEF Calm, RequestsAgree
    <2>6. DataAgrees' BY <1>1, <1>2, <2>0, <1>a, <2>1, <2>2, <2>a, <2>b DEF Calm, DataAgrees, Deleting
    <2>7. KeyAgrees' BY <1>1, <1>2, <2>0, <1>a, <2>1, <2>2, <2>a, <2>b DEF Calm, KeyAgrees
    <2>8. RowAgrees' BY <1>1, <1>2, <2>0, <1>a, <2>1, <2>2, <2>a, <2>b DEF Calm, RowAgrees
    <2>9. TasksAgree' BY <1>1, <1>2, <2>0, <1>a, <2>1, <2>2, <2>a, <2>b DEF Calm, TasksAgree
    <2>10. NotStuck' BY <1>1, <1>2, <2>0, <1>a, <2>1, <2>2, <2>a, <2>b DEF Calm, NotStuck, Deleting, SomeTask
    <2> QED BY <2>3, <2>4, <2>5, <2>6, <2>7, <2>8, <2>9, <2>10 DEF Calm
  <1> QED BY <1>3, <1>4 DEF FileInv

LEMMA FinalizeRejectsStep ==
    ASSUME FileInv, NEW k \in Clients, F!FinalizeRejects(k) PROVE FileInv'
  <1>0. FileTypes BY DEF FileInv
  <1>1. /\ call[k].pc = "finalize" /\ F!Set(k, F!Idle) /\ object' \in {object, None}
        /\ UNCHANGED <<pending, row, snapshots, profile, task, used, calm, lost, replaced>>
    BY DEF F!FinalizeRejects, F!presigned
  <1>2. /\ call' \in [Clients -> CallType] /\ call'[k].pc = "idle"
        /\ \A j \in Clients : j # k => call'[j] = call[j]
    BY <1>1, IdleCall, SetEffect
  <1>3. FileTypes' BY <1>0, <1>1, <1>2 DEF FileTypes, Held
  <1>4. ASSUME calm' PROVE Calm'
    <2>0. calm /\ Calm BY <1>1, <1>4 DEF FileInv
    <2>1. \A j \in Clients : j # k => call[j].pc = "idle" BY <1>1, <2>0 DEF Calm, OneRequest
    <2>2. \A j \in Clients : j # k => call'[j].pc = "idle" BY <1>2, <2>1
    <2>a. row = None BY <1>1, <2>0, <2>1 DEF Calm, KeyAgrees, IdIsFresh, RequestsAgree
    <2>3. OneRequest' BY <1>1, <1>2, <2>0, <2>1, <2>2, <2>a DEF Calm, OneRequest
    <2>4. IdIsFresh' BY <1>1, <1>2, <2>0, <2>1, <2>2, <2>a DEF Calm, IdIsFresh
    <2>5. RequestsAgree' BY <1>1, <1>2, <2>0, <2>1, <2>2, <2>a DEF Calm, RequestsAgree
    <2>6. DataAgrees' BY <1>1, <1>2, <2>0, <2>1, <2>2, <2>a DEF Calm, DataAgrees, Deleting
    <2>7. KeyAgrees' BY <1>1, <1>2, <2>0, <2>1, <2>2, <2>a DEF Calm, KeyAgrees
    <2>8. RowAgrees' BY <1>1, <1>2, <2>0, <2>1, <2>2, <2>a DEF Calm, RowAgrees
    <2>9. TasksAgree' BY <1>1, <1>2, <2>0, <2>1, <2>2, <2>a DEF Calm, TasksAgree
    <2>10. NotStuck' BY <1>1, <1>2, <2>0, <2>1, <2>2, <2>a DEF Calm, NotStuck, Deleting, SomeTask
    <2> QED BY <2>3, <2>4, <2>5, <2>6, <2>7, <2>8, <2>9, <2>10 DEF Calm
  <1> QED BY <1>3, <1>4 DEF FileInv

LEMMA RequestDiesStep ==
    ASSUME FileInv, NEW k \in Clients, F!RequestDies(k) PROVE FileInv'
  <1>0. FileTypes BY DEF FileInv
  <1>1. /\ F!Set(k, F!Idle) /\ calm' = FALSE
        /\ UNCHANGED <<object, row, snapshots, profile, task, replaced>>
    BY DEF F!RequestDies, F!presigned
  <1>2. /\ call' \in [Clients -> CallType] /\ call'[k].pc = "idle"
        /\ \A j \in Clients : j # k => call'[j] = call[j]
    BY <1>1, IdleCall, SetEffect
  <1>3. FileTypes' BY <1>0, <1>1, <1>2 DEF FileTypes
  <1> QED BY <1>1, <1>3 DEF FileInv

LEMMA PendingExpiresStep ==
    ASSUME FileInv, F!PendingExpires PROVE FileInv'
  <1>0. FileTypes BY DEF FileInv
  <1>1. /\ pending' = FALSE
        /\ UNCHANGED <<object, row, snapshots, profile, call, task, used, calm, lost, replaced>>
    BY DEF F!PendingExpires, F!presigned
  <1>2. call' = call BY <1>1
  <1>3. FileTypes' BY <1>0, <1>1, <1>2 DEF FileTypes
  <1>4. ASSUME calm' PROVE Calm'
    <2>0. calm /\ Calm BY <1>1, <1>4 DEF FileInv
    <2>3. OneRequest' BY <1>1, <1>2, <2>0, <1>4 DEF Calm, OneRequest
    <2>4. IdIsFresh' BY <1>1, <1>2, <2>0, <1>4 DEF Calm, IdIsFresh
    <2>5. RequestsAgree' BY <1>1, <1>2, <2>0, <1>4 DEF Calm, RequestsAgree
    <2>6. DataAgrees' BY <1>1, <1>2, <2>0, <1>4 DEF Calm, DataAgrees, Deleting
    <2>7. KeyAgrees' BY <1>1, <1>2, <2>0, <1>4 DEF Calm, KeyAgrees
    <2>8. RowAgrees' BY <1>1, <1>2, <2>0, <1>4 DEF Calm, RowAgrees
    <2>9. TasksAgree' BY <1>1, <1>2, <2>0, <1>4 DEF Calm, TasksAgree
    <2>10. NotStuck' BY <1>1, <1>2, <2>0, <1>4 DEF Calm, NotStuck, Deleting, SomeTask
    <2> QED BY <2>3, <2>4, <2>5, <2>6, <2>7, <2>8, <2>9, <2>10 DEF Calm
  <1> QED BY <1>3, <1>4 DEF FileInv

LEMMA PresignedPutStep ==
    ASSUME FileInv, NEW c \in F!Contents, F!PresignedPut(c) PROVE FileInv'
  <1>0. FileTypes BY DEF FileInv
  <1>1. /\ object' = c /\ (calm' => calm /\ \A j \in Clients : call[j].pc = "idle")
        /\ replaced' = (replaced \/ row # None)
        /\ UNCHANGED <<pending, row, snapshots, profile, call, task, used, lost>>
    BY DEF F!PresignedPut
  <1>2. call' = call BY <1>1
  <1>3. FileTypes' BY <1>0, <1>1, <1>2 DEF FileTypes, Held
  <1>4. ASSUME calm' PROVE Calm'
    <2>0. calm /\ Calm /\ object' # None BY <1>1, <1>4, ServicesAssumption DEF FileInv, F!Contents
    <2>3. OneRequest' BY <1>1, <1>2, <2>0, <1>4 DEF Calm, OneRequest
    <2>4. IdIsFresh' BY <1>1, <1>2, <2>0, <1>4 DEF Calm, IdIsFresh
    <2>5. RequestsAgree' BY <1>1, <1>2, <2>0, <1>4 DEF Calm, RequestsAgree
    <2>6. DataAgrees' BY <1>1, <1>2, <2>0, <1>4 DEF Calm, DataAgrees, Deleting
    <2>7. KeyAgrees' BY <1>1, <1>2, <2>0, <1>4 DEF Calm, KeyAgrees
    <2>8. RowAgrees' BY <1>1, <1>2, <2>0, <1>4 DEF Calm, RowAgrees
    <2>9. TasksAgree' BY <1>1, <1>2, <2>0, <1>4 DEF Calm, TasksAgree
    <2>10. NotStuck' BY <1>1, <1>2, <2>0, <1>4 DEF Calm, NotStuck, Deleting, SomeTask
    <2> QED BY <2>3, <2>4, <2>5, <2>6, <2>7, <2>8, <2>9, <2>10 DEF Calm
  <1> QED BY <1>3, <1>4 DEF FileInv

LEMMA UrlExpiresStep ==
    ASSUME FileInv, F!UrlExpires PROVE FileInv'
  <1>0. FileTypes BY DEF FileInv
  <1>1. /\ UNCHANGED <<pending, object, row, snapshots, profile, call, task, used, calm, lost, replaced>>
    BY DEF F!UrlExpires
  <1>2. call' = call BY <1>1
  <1>3. FileTypes' BY <1>0, <1>1, <1>2 DEF FileTypes
  <1>4. ASSUME calm' PROVE Calm'
    <2>0. calm /\ Calm BY <1>1, <1>4 DEF FileInv
    <2>3. OneRequest' BY <1>1, <1>2, <2>0, <1>4 DEF Calm, OneRequest
    <2>4. IdIsFresh' BY <1>1, <1>2, <2>0, <1>4 DEF Calm, IdIsFresh
    <2>5. RequestsAgree' BY <1>1, <1>2, <2>0, <1>4 DEF Calm, RequestsAgree
    <2>6. DataAgrees' BY <1>1, <1>2, <2>0, <1>4 DEF Calm, DataAgrees, Deleting
    <2>7. KeyAgrees' BY <1>1, <1>2, <2>0, <1>4 DEF Calm, KeyAgrees
    <2>8. RowAgrees' BY <1>1, <1>2, <2>0, <1>4 DEF Calm, RowAgrees
    <2>9. TasksAgree' BY <1>1, <1>2, <2>0, <1>4 DEF Calm, TasksAgree
    <2>10. NotStuck' BY <1>1, <1>2, <2>0, <1>4 DEF Calm, NotStuck, Deleting, SomeTask
    <2> QED BY <2>3, <2>4, <2>5, <2>6, <2>7, <2>8, <2>9, <2>10 DEF Calm
  <1> QED BY <1>3, <1>4 DEF FileInv

LEMMA DeleteFileObjectStep ==
    ASSUME FileInv, NEW k \in Clients, F!DeleteFileObject(k) PROVE FileInv'
  <1>0. FileTypes BY DEF FileInv
  <1>1. /\ row # None /\ call[k].pc = "idle" /\ (calm' => calm /\ F!Alone(k))
        /\ F!Set(k, [pc |-> "delete", of |-> None, direct |-> FALSE])
        /\ object' = None /\ UNCHANGED <<pending, row, snapshots, profile, task, used, lost, replaced>>
    BY DEF F!DeleteFileObject, F!presigned, F!Arrives
  <1> DEFINE c1 == [pc |-> "delete", of |-> None, direct |-> FALSE]
  <1>a. c1 \in CallType /\ c1.pc = "delete" BY <1>0, <1>1, ServicesAssumption DEF FileTypes, CallType, Held, F!Contents
  <1>b. F!Set(k, c1) BY <1>1
  <1> HIDE DEF c1
  <1>2. call' \in [Clients -> CallType] /\ call'[k] = c1 /\ \A j \in Clients : j # k => call'[j] = call[j]
    BY <1>a, <1>b, SetEffect
  <1>3. FileTypes' BY <1>0, <1>1, <1>2 DEF FileTypes, Held
  <1>4. ASSUME calm' PROVE Calm'
    <2>0. calm /\ Calm BY <1>1, <1>4 DEF FileInv
    <2>1. \A j \in Clients : call[j].pc = "idle" BY <1>1, <1>4 DEF F!Alone
    <2>2. \A j \in Clients : j # k => call'[j].pc = "idle" BY <1>2, <2>1
    <2>a. ~pending BY <1>1, <2>0, <2>1 DEF Calm, KeyAgrees
    <2>b. Deleting' BY <1>2, <1>a DEF Deleting
    <2>3. OneRequest' BY <1>1, <1>2, <2>0, <1>a, <2>1, <2>2, <2>a, <2>b DEF Calm, OneRequest
    <2>4. IdIsFresh' BY <1>1, <1>2, <2>0, <1>a, <2>1, <2>2, <2>a, <2>b DEF Calm, IdIsFresh
    <2>5. RequestsAgree' BY <1>1, <1>2, <2>0, <1>a, <2>1, <2>2, <2>a, <2>b DEF Calm, RequestsAgree
    <2>6. DataAgrees' BY <1>1, <1>2, <2>0, <1>a, <2>1, <2>2, <2>a, <2>b DEF Calm, DataAgrees, Deleting
    <2>7. KeyAgrees' BY <1>1, <1>2, <2>0, <1>a, <2>1, <2>2, <2>a, <2>b DEF Calm, KeyAgrees
    <2>8. RowAgrees' BY <1>1, <1>2, <2>0, <1>a, <2>1, <2>2, <2>a, <2>b DEF Calm, RowAgrees
    <2>9. TasksAgree' BY <1>1, <1>2, <2>0, <1>a, <2>1, <2>2, <2>a, <2>b DEF Calm, TasksAgree
    <2>10. NotStuck' BY <1>1, <1>2, <2>0, <1>a, <2>1, <2>2, <2>a, <2>b DEF Calm, NotStuck, Deleting, SomeTask
    <2> QED BY <2>3, <2>4, <2>5, <2>6, <2>7, <2>8, <2>9, <2>10 DEF Calm
  <1> QED BY <1>3, <1>4 DEF FileInv

LEMMA CreateRunSchemaSnapshotStep ==
    ASSUME FileInv, F!CreateRunSchemaSnapshot PROVE FileInv'
  <1>0. FileTypes BY DEF FileInv
  <1>1. /\ row # None /\ snapshots' = Append(snapshots, row)
        /\ UNCHANGED <<pending, object, row, profile, call, task, used, calm, lost, replaced>>
    BY DEF F!CreateRunSchemaSnapshot, F!presigned
  <1>2. call' = call BY <1>1
  <1>3. FileTypes' BY <1>0, <1>1, <1>2 DEF FileTypes
  <1>4. ASSUME calm' PROVE Calm'
    <2>0. calm /\ Calm BY <1>1, <1>4 DEF FileInv
    <2>3. OneRequest' BY <1>1, <1>2, <2>0, <1>4 DEF Calm, OneRequest
    <2>4. IdIsFresh' BY <1>1, <1>2, <2>0, <1>4 DEF Calm, IdIsFresh
    <2>5. RequestsAgree' BY <1>1, <1>2, <2>0, <1>4 DEF Calm, RequestsAgree
    <2>6. DataAgrees' BY <1>1, <1>2, <2>0, <1>4 DEF Calm, DataAgrees, Deleting
    <2>7. KeyAgrees' BY <1>1, <1>2, <2>0, <1>4 DEF Calm, KeyAgrees
    <2>8. RowAgrees' BY <1>1, <1>2, <2>0, <1>4, <1>0 DEF Calm, RowAgrees, FileTypes
    <2>9. TasksAgree' BY <1>1, <1>2, <2>0, <1>4 DEF Calm, TasksAgree
    <2>10. NotStuck' BY <1>1, <1>2, <2>0, <1>4 DEF Calm, NotStuck, Deleting, SomeTask
    <2> QED BY <2>3, <2>4, <2>5, <2>6, <2>7, <2>8, <2>9, <2>10 DEF Calm
  <1> QED BY <1>3, <1>4 DEF FileInv

LEMMA FinalizeInsertsStep ==
    ASSUME FileInv, NEW k \in Clients, F!FinalizeInserts(k) PROVE FileInv'
  <1>0. FileTypes /\ call[k] \in CallType BY DEF FileInv, FileTypes
  <1>1. call[k].pc = "finalize" /\ UNCHANGED <<pending, object, snapshots, profile, task, used, calm, lost, replaced>>
    BY DEF F!FinalizeInserts, F!presigned
  <1>2. CASE row # None
    <2>1. F!Set(k, F!Idle) /\ row' = row BY <1>2 DEF F!FinalizeInserts
    <2>2. call' \in [Clients -> CallType] BY <2>1, IdleCall, SetEffect
    <2>3. FileTypes' BY <1>0, <1>1, <2>1, <2>2 DEF FileTypes
    <2>4. ~calm BY <1>1, <1>2 DEF FileInv, Calm, RequestsAgree
    <2> QED BY <1>1, <2>3, <2>4 DEF FileInv
  <1>3. CASE row = None
    <2>1. F!Set(k, [call[k] EXCEPT !.pc = "snapshot"]) /\ row' = call[k].of
      BY <1>3 DEF F!FinalizeInserts, F!ExtractFileMetadata
    <2> DEFINE c1 == [call[k] EXCEPT !.pc = "snapshot"]
    <2>2. c1 \in CallType /\ c1.pc = "snapshot" /\ c1.of = call[k].of /\ c1.direct = call[k].direct
      BY <1>0 DEF CallType
    <2>3. F!Set(k, c1) BY <2>1
    <2> HIDE DEF c1
    <2>4. call' \in [Clients -> CallType] /\ call'[k] = c1 /\ \A j \in Clients : j # k => call'[j] = call[j]
      BY <2>2, <2>3, SetEffect
    <2>5. call[k].of \in Held BY <1>0 DEF CallType
    <2>6. FileTypes' BY <1>0, <1>1, <2>1, <2>4, <2>5 DEF FileTypes
    <2>7. ASSUME calm PROVE Calm'
      <3>0. Calm BY <2>7 DEF FileInv
      <3>1. \A j \in Clients : j # k => call[j].pc = "idle" /\ call'[j].pc = "idle"
        BY <1>1, <2>4, <3>0 DEF Calm, OneRequest
      <3>2. object = call[k].of /\ object # None /\ (pending => call[k].direct)
        BY <1>1, <3>0 DEF Calm, RequestsAgree
      <3>3. snapshots = <<>> /\ profile = None BY <1>3, <3>0 DEF Calm, RowAgrees
      <3>4. \A t \in Tasks : task[t].pc = "none" BY <1>1, <1>3, <3>0 DEF Calm, TasksAgree
      <3>5. used BY <1>1, <3>0 DEF Calm, IdIsFresh
      <3>6. OneRequest' BY <3>1 DEF OneRequest
      <3>7. IdIsFresh' BY <1>1, <3>5 DEF IdIsFresh
      <3>8. RequestsAgree' BY <1>1, <2>1, <2>2, <2>4, <3>1, <3>2 DEF RequestsAgree
      <3>9. DataAgrees' BY <1>1, <2>1, <3>2 DEF DataAgrees
      <3>10. KeyAgrees' BY <2>2, <2>4 DEF KeyAgrees
      <3>11. RowAgrees' BY <1>1, <2>1, <3>2, <3>3 DEF RowAgrees
      <3>12. TasksAgree' BY <1>1, <3>4 DEF TasksAgree
      <3>13. NotStuck' BY <1>1, <3>3 DEF NotStuck
      <3> QED BY <3>6, <3>7, <3>8, <3>9, <3>10, <3>11, <3>12, <3>13 DEF Calm
    <2> QED BY <1>1, <2>6, <2>7 DEF FileInv
  <1> QED BY <1>2, <1>3

LEMMA EnqueueEffect ==
    ASSUME FileInv, F!EnqueueProfileTask
    PROVE  /\ task' \in [Tasks -> ProfileTaskType]
           /\ \A t \in Tasks : task'[t] = task[t] \/ (task[t].pc = "none" /\ task'[t].pc = "queued")
  <1>0. task \in [Tasks -> ProfileTaskType] BY DEF FileInv, FileTypes
  <1>1. CASE UNCHANGED task BY <1>0, <1>1
  <1>2. ASSUME NEW t \in Tasks, task[t].pc = "none", task' = [task EXCEPT ![t].pc = "queued"]
        PROVE  /\ task' \in [Tasks -> ProfileTaskType]
               /\ \A u \in Tasks : task'[u] = task[u] \/ (task[u].pc = "none" /\ task'[u].pc = "queued")
    <2> DEFINE new == [task[t] EXCEPT !.pc = "queued"]
    <2>1. task' = [task EXCEPT ![t] = new] BY <1>2
    <2>2. new \in ProfileTaskType /\ new.pc = "queued" BY <1>0 DEF ProfileTaskType
    <2> HIDE DEF new
    <2> QED BY <1>0, <1>2, <2>1, <2>2
  <1> QED BY <1>1, <1>2 DEF F!EnqueueProfileTask

LEMMA FinalizeEndsStep ==
    ASSUME FileInv, NEW k \in Clients, F!FinalizeEnds(k) PROVE FileInv'
  <1>0. FileTypes /\ call[k] \in CallType BY DEF FileInv, FileTypes
  <1>1. call[k].pc = "snapshot" /\ F!Set(k, F!Idle) /\ UNCHANGED <<object, row, profile, used, lost, replaced>>
    BY DEF F!FinalizeEnds, F!presigned
  <1>2. /\ call' \in [Clients -> CallType] /\ call'[k].pc = "idle"
        /\ \A j \in Clients : j # k => call'[j] = call[j]
    BY <1>1, IdleCall, SetEffect
  <1>3. CASE row = None
    <2>1. UNCHANGED <<snapshots, task, pending, calm>> BY <1>3 DEF F!FinalizeEnds
    <2>2. ~calm BY <1>1, <1>3 DEF FileInv, Calm, RequestsAgree
    <2>3. FileTypes' BY <1>0, <1>1, <1>2, <2>1 DEF FileTypes
    <2> QED BY <2>1, <2>2, <2>3 DEF FileInv
  <1>4. CASE row # None
    <2>1. /\ snapshots' = Append(snapshots, call[k].of) /\ F!EnqueueProfileTask
          /\ \/ pending' = (pending /\ ~call[k].direct) /\ UNCHANGED calm
             \/ calm' = FALSE
      BY <1>4 DEF F!FinalizeEnds
    <2>2. /\ task' \in [Tasks -> ProfileTaskType]
          /\ \A t \in Tasks : task'[t] = task[t] \/ (task[t].pc = "none" /\ task'[t].pc = "queued")
      BY <2>1, EnqueueEffect
    <2>3. call[k].of \in Held BY <1>0 DEF CallType
    <2>4. FileTypes' BY <1>0, <1>1, <1>2, <2>1, <2>2, <2>3 DEF FileTypes
    <2>5. ASSUME calm' PROVE Calm'
      <3>0. calm /\ Calm BY <2>1, <2>5 DEF FileInv
      <3>1. \A j \in Clients : call'[j].pc = "idle" BY <1>1, <1>2, <3>0 DEF Calm, OneRequest
      <3>2. row = call[k].of /\ (pending => call[k].direct) BY <1>1, <3>0 DEF Calm, RequestsAgree
      <3>3. ~pending' BY <2>1, <2>5, <3>2
      <3>4. \A j \in Clients : call[j].pc # "delete" BY <1>1, <3>0 DEF Calm, OneRequest
      <3>5. object # None /\ (~replaced => object = row) BY <1>4, <3>0, <3>4 DEF Calm, DataAgrees, Deleting
      <3>6. OneRequest' BY <3>1 DEF OneRequest
      <3>7. IdIsFresh' BY <1>1, <1>4, <3>0 DEF Calm, IdIsFresh
      <3>8. RequestsAgree' BY <3>1 DEF RequestsAgree
      <3>9. DataAgrees' BY <1>1, <3>5 DEF DataAgrees
      <3>10. KeyAgrees' BY <3>3 DEF KeyAgrees
      <3>11. RowAgrees'
        <4>1. \A i \in DOMAIN snapshots' : snapshots'[i] = row
          BY <1>0, <2>1, <2>3, <3>0, <3>2 DEF FileTypes, Calm, RowAgrees
        <4> QED BY <1>1, <1>4, <3>0, <4>1 DEF Calm, RowAgrees
      <3>12. TasksAgree' BY <1>1, <1>4, <2>2, <3>0 DEF Calm, TasksAgree
      <3>13. NotStuck' BY <1>1, <2>2, <3>0, <3>4 DEF Calm, NotStuck, Deleting, SomeTask
      <3> QED BY <3>6, <3>7, <3>8, <3>9, <3>10, <3>11, <3>12, <3>13 DEF Calm
    <2> QED BY <2>4, <2>5 DEF FileInv
  <1> QED BY <1>3, <1>4

LEMMA DeleteFileRowStep ==
    ASSUME FileInv, NEW k \in Clients, F!DeleteFileRow(k) PROVE FileInv'
  <1>0. FileTypes BY DEF FileInv
  <1>1. call[k].pc = "delete" /\ F!Set(k, F!Idle) /\ UNCHANGED <<pending, object, task, used, lost, replaced>>
    BY DEF F!DeleteFileRow, F!presigned
  <1>2. /\ call' \in [Clients -> CallType] /\ call'[k].pc = "idle"
        /\ \A j \in Clients : j # k => call'[j] = call[j]
    BY <1>1, IdleCall, SetEffect
  <1>3. CASE calm' = FALSE /\ UNCHANGED <<row, snapshots, profile>>
    <2>1. FileTypes' BY <1>0, <1>1, <1>2, <1>3 DEF FileTypes
    <2> QED BY <1>3, <2>1 DEF FileInv
  <1>4. CASE row' = None /\ snapshots' = <<>> /\ profile' = None /\ UNCHANGED calm
    <2>1. FileTypes' BY <1>0, <1>1, <1>2, <1>4 DEF FileTypes, Held
    <2>2. ASSUME calm PROVE Calm'
      <3>0. Calm BY <2>2 DEF FileInv
      <3>1. \A j \in Clients : call'[j].pc = "idle" BY <1>1, <1>2, <3>0 DEF Calm, OneRequest
      <3>2. row # None /\ ~pending BY <1>1, <3>0 DEF Calm, RequestsAgree
      <3>3. used BY <3>0, <3>2 DEF Calm, IdIsFresh
      <3>4. OneRequest' /\ RequestsAgree' BY <3>1 DEF OneRequest, RequestsAgree
      <3>5. IdIsFresh' /\ DataAgrees' /\ KeyAgrees' BY <1>1, <1>4, <3>3 DEF IdIsFresh, DataAgrees, KeyAgrees
      <3>6. RowAgrees' BY <1>4 DEF RowAgrees
      <3>7. TasksAgree' BY <1>1, <1>4, <3>1, <3>2, <3>3 DEF TasksAgree
      <3>8. NotStuck' BY <1>4 DEF NotStuck
      <3> QED BY <3>4, <3>5, <3>6, <3>7, <3>8 DEF Calm
    <2> QED BY <1>4, <2>1, <2>2 DEF FileInv
  <1> QED BY <1>3, <1>4 DEF F!DeleteFileRow

\* A step of the profile tasks leaves requests, data, row and snapshots alone.
ProfileFrame == UNCHANGED <<pending, object, row, snapshots, call, used, calm, replaced>>

LEMMA ProfileStep ==
    ASSUME FileInv, ProfileFrame,
           task' \in [Tasks -> ProfileTaskType], profile' # None => profile' \in ProfileType,
           calm => \A t \in Tasks :
                     /\ ~replaced /\ task'[t].pc \in {"loaded", "running"} /\ row # None => task'[t].of = row
                     /\ row = None /\ task'[t].pc # "none" => task[t].pc # "none",
           calm => (row = None => profile' = None) /\ (~replaced /\ profile' # None => profile'.of \in {None, row}),
           calm => NotStuck'
    PROVE  FileInv'
  <1>1. FileTypes' BY DEF FileInv, FileTypes, ProfileFrame
  <1>2. ASSUME calm PROVE Calm'
    <2>0. Calm BY <1>2 DEF FileInv
    <2>1. OneRequest' /\ IdIsFresh' BY <2>0 DEF Calm, OneRequest, IdIsFresh, ProfileFrame
    <2>2. RequestsAgree' BY <2>0 DEF Calm, RequestsAgree, ProfileFrame
    <2>3. DataAgrees' /\ KeyAgrees' BY <2>0 DEF Calm, DataAgrees, Deleting, KeyAgrees, ProfileFrame
    <2>4. RowAgrees' BY <1>2, <2>0 DEF Calm, RowAgrees, ProfileFrame
    <2>5. TasksAgree' BY <1>2, <2>0 DEF Calm, TasksAgree, ProfileFrame
    <2> QED BY <1>2, <2>1, <2>2, <2>3, <2>4, <2>5 DEF Calm
  <1> QED BY <1>1, <1>2 DEF FileInv, ProfileFrame

LEMMA UpdateEffect ==
    ASSUME FileInv, NEW status \in {"running", "failed"}, F!UpdateProfileStatus(status)
    PROVE  /\ row = None => profile' = profile
           /\ row # None => profile' \in ProfileType /\ profile'.status = status
           /\ profile' # None => profile' \in ProfileType
           /\ calm => (row = None => profile' = None) /\ (~replaced /\ profile' # None => profile'.of \in {None, row})
  <1>1. CASE row = None
    <2>1. profile' = profile BY <1>1 DEF F!UpdateProfileStatus
    <2> QED BY <1>1, <2>1 DEF FileInv, FileTypes, Calm, RowAgrees
  <1>2. CASE row # None
    <2>1. PICK of : of = IF profile = None THEN None ELSE profile.of OBVIOUS
    <2>2. profile' = [status |-> status, of |-> of] BY <1>2, <2>1 DEF F!UpdateProfileStatus
    <2>3. of \in Held /\ (calm /\ ~replaced => of \in {None, row})
      BY <2>1 DEF FileInv, FileTypes, ProfileType, Held, Calm, RowAgrees
    <2>4. [status |-> status, of |-> of] \in ProfileType BY <2>3 DEF ProfileType
    <2> QED BY <1>2, <2>2, <2>3, <2>4
  <1> QED BY <1>1, <1>2

LEMMA RefreshFileProfileStep ==
    ASSUME FileInv, F!RefreshFileProfile PROVE FileInv'
  <1>1. row # None /\ F!EnqueueProfileTask /\ ProfileFrame /\ lost' = lost
    BY DEF F!RefreshFileProfile, F!presigned, ProfileFrame
  <1>2. /\ task' \in [Tasks -> ProfileTaskType]
        /\ \A t \in Tasks : task'[t] = task[t] \/ (task[t].pc = "none" /\ task'[t].pc = "queued")
    BY <1>1, EnqueueEffect
  <1>3. \/ profile' = None
        \/ profile # None /\ profile' = [profile EXCEPT !.status = "pending"]
    BY DEF F!RefreshFileProfile
  <1>4. profile' # None => profile' \in ProfileType /\ profile'.status = "pending" /\ profile'.of = profile.of /\ profile # None
    BY <1>3 DEF FileInv, FileTypes, ProfileType
  <1>5. calm => (row = None => profile' = None) /\ (~replaced /\ profile' # None => profile'.of \in {None, row})
    BY <1>1, <1>4 DEF FileInv, Calm, RowAgrees
  <1>6. NotStuck' BY <1>4 DEF NotStuck
  <1>7. calm => \A t \in Tasks :
                  /\ ~replaced /\ task'[t].pc \in {"loaded", "running"} /\ row # None => task'[t].of = row
                  /\ row = None /\ task'[t].pc # "none" => task[t].pc # "none"
    BY <1>1, <1>2 DEF FileInv, Calm, TasksAgree
  <1> QED BY <1>1, <1>2, <1>4, <1>5, <1>6, <1>7, ProfileStep

\* The task t becomes new.
LEMMA BecomesEffect ==
    ASSUME FileInv, NEW t \in Tasks, NEW new \in ProfileTaskType, task' = [task EXCEPT ![t] = new]
    PROVE  task' \in [Tasks -> ProfileTaskType] /\ task'[t] = new /\ \A u \in Tasks : u # t => task'[u] = task[u]
  BY DEF FileInv, FileTypes

LEMMA NoTaskType == F!NoTask \in ProfileTaskType /\ F!NoTask.pc = "none"
  BY DEF F!NoTask, ProfileTaskType, Held

LEMMA LoadFileFromDiskStep ==
    ASSUME FileInv, NEW t \in Tasks, F!LoadFileFromDisk(t) PROVE FileInv'
  <1>0. task[t] \in ProfileTaskType /\ object \in Held BY DEF FileInv, FileTypes
  <1>1. task[t].pc = "queued" /\ ProfileFrame /\ UNCHANGED <<profile, lost, replaced>> BY DEF F!LoadFileFromDisk, F!presigned, ProfileFrame
  <1>2. PICK new \in ProfileTaskType :
           /\ task' = [task EXCEPT ![t] = new]
           /\ \/ new.pc = "none" /\ (row = None \/ object = None)
              \/ new.pc = "loaded" /\ new.of = object /\ row # None /\ object # None
    <2>1. CASE row = None \/ object = None
      <3>1. task' = [task EXCEPT ![t] = F!NoTask] BY <2>1 DEF F!LoadFileFromDisk
      <3> QED BY <2>1, <3>1, NoTaskType
    <2>2. CASE ~(row = None \/ object = None)
      <3> DEFINE new == [pc |-> "loaded", of |-> object, tries |-> task[t].tries]
      <3>2. task' = [task EXCEPT ![t] = new] BY <2>2 DEF F!LoadFileFromDisk
      <3>3. new \in ProfileTaskType /\ new.pc = "loaded" /\ new.of = object BY <1>0 DEF ProfileTaskType
      <3> QED BY <2>2, <3>2, <3>3
    <2> QED BY <2>1, <2>2
  <1>3. task' \in [Tasks -> ProfileTaskType] /\ task'[t] = new /\ \A u \in Tasks : u # t => task'[u] = task[u]
    BY <1>2, BecomesEffect
  <1>4. ASSUME calm PROVE ~replaced /\ object # None /\ row # None => object = row
    BY <1>4 DEF FileInv, Calm, DataAgrees, Deleting, RequestsAgree
  <1>5. calm => \A u \in Tasks :
                  /\ ~replaced /\ task'[u].pc \in {"loaded", "running"} /\ row # None => task'[u].of = row
                  /\ row = None /\ task'[u].pc # "none" => task[u].pc # "none"
    BY <1>1, <1>2, <1>3, <1>4 DEF FileInv, Calm, TasksAgree
  <1>6. ASSUME calm, ~lost, profile # None, ~Deleting PROVE task'[t].pc # "none"
    <2>1. row # None /\ object # None BY <1>6 DEF FileInv, Calm, RowAgrees, DataAgrees
    <2> QED BY <1>2, <1>3, <2>1
  <1>7. calm => NotStuck' BY <1>1, <1>6 DEF NotStuck, Deleting, SomeTask, ProfileFrame
  <1>8. (profile' # None => profile' \in ProfileType)
        /\ (calm => (row = None => profile' = None) /\ (~replaced /\ profile' # None => profile'.of \in {None, row}))
    BY <1>1 DEF FileInv, FileTypes, Calm, RowAgrees
  <1> QED BY <1>1, <1>3, <1>5, <1>7, <1>8, ProfileStep

LEMMA ProfileStartsStep ==
    ASSUME FileInv, NEW t \in Tasks, F!ProfileStarts(t) PROVE FileInv'
  <1>0. task[t] \in ProfileTaskType BY DEF FileInv, FileTypes
  <1>1. /\ task[t].pc = "loaded" /\ F!UpdateProfileStatus("running") /\ ProfileFrame
        /\ task' = [task EXCEPT ![t].pc = "running"]
    BY DEF F!ProfileStarts, F!presigned, ProfileFrame
  <1> DEFINE new == [task[t] EXCEPT !.pc = "running"]
  <1>2. task' = [task EXCEPT ![t] = new] BY <1>1
  <1>3. new \in ProfileTaskType /\ new.pc = "running" /\ new.of = task[t].of BY <1>0 DEF ProfileTaskType
  <1> HIDE DEF new
  <1>4. task' \in [Tasks -> ProfileTaskType] /\ task'[t] = new /\ \A u \in Tasks : u # t => task'[u] = task[u]
    BY <1>2, <1>3, BecomesEffect
  <1>5. calm => \A u \in Tasks :
                  /\ ~replaced /\ task'[u].pc \in {"loaded", "running"} /\ row # None => task'[u].of = row
                  /\ row = None /\ task'[u].pc # "none" => task[u].pc # "none"
    BY <1>1, <1>3, <1>4 DEF FileInv, Calm, TasksAgree
  <1>6. NotStuck' BY <1>3, <1>4 DEF NotStuck, SomeTask
  <1>7. /\ profile' # None => profile' \in ProfileType
        /\ calm => (row = None => profile' = None) /\ (~replaced /\ profile' # None => profile'.of \in {None, row})
    BY <1>1, UpdateEffect
  <1> QED BY <1>1, <1>4, <1>5, <1>6, <1>7, ProfileStep

LEMMA SaveProfileStep ==
    ASSUME FileInv, NEW t \in Tasks, F!SaveProfile(t) PROVE FileInv'
  <1>0. task[t] \in ProfileTaskType BY DEF FileInv, FileTypes
  <1>1. /\ task[t].pc = "running" /\ row # None /\ ProfileFrame
        /\ profile' = [status |-> "complete", of |-> task[t].of] /\ task' = [task EXCEPT ![t] = F!NoTask]
    BY DEF F!SaveProfile, F!presigned, ProfileFrame
  <1>2. /\ task' \in [Tasks -> ProfileTaskType] /\ task'[t].pc = "none"
        /\ \A u \in Tasks : u # t => task'[u] = task[u]
    BY <1>1, NoTaskType, BecomesEffect
  <1>3. profile' \in ProfileType /\ profile'.status = "complete" /\ profile'.of = task[t].of
    BY <1>0, <1>1 DEF ProfileType, ProfileTaskType
  <1>4. calm /\ ~replaced => task[t].of = row BY <1>1 DEF FileInv, Calm, TasksAgree
  <1>5. calm => \A u \in Tasks :
                  /\ ~replaced /\ task'[u].pc \in {"loaded", "running"} /\ row # None => task'[u].of = row
                  /\ row = None /\ task'[u].pc # "none" => task[u].pc # "none"
    BY <1>1, <1>2 DEF FileInv, Calm, TasksAgree
  <1>6. NotStuck' BY <1>3 DEF NotStuck
  <1> QED BY <1>1, <1>2, <1>3, <1>4, <1>5, <1>6, ProfileStep

LEMMA ProfileFailsStep ==
    ASSUME FileInv, NEW t \in Tasks, F!ProfileFails(t) PROVE FileInv'
  <1>0. task[t] \in ProfileTaskType BY DEF FileInv, FileTypes
  <1>1. task[t].pc \in {"queued", "loaded", "running"} /\ F!Retry(t) /\ ProfileFrame
    BY DEF F!ProfileFails, F!presigned, ProfileFrame
  <1>2. PICK new \in ProfileTaskType : task' = [task EXCEPT ![t] = new] /\ new.pc \in {"none", "queued"}
    <2>1. CASE task[t].tries = ProfileRetries
      <3>1. task' = [task EXCEPT ![t] = F!NoTask] BY <1>1, <2>1 DEF F!Retry
      <3> QED BY <3>1, NoTaskType
    <2>2. CASE task[t].tries # ProfileRetries
      <3> DEFINE new == [pc |-> "queued", of |-> None, tries |-> task[t].tries + 1]
      <3>1. task' = [task EXCEPT ![t] = new] BY <1>1, <2>2 DEF F!Retry
      <3>2. new \in ProfileTaskType /\ new.pc = "queued" BY <1>0 DEF ProfileTaskType, Held
      <3> QED BY <3>1, <3>2
    <2> QED BY <2>1, <2>2
  <1>3. task' \in [Tasks -> ProfileTaskType] /\ task'[t] = new /\ \A u \in Tasks : u # t => task'[u] = task[u]
    BY <1>2, BecomesEffect
  <1>4. calm => \A u \in Tasks :
                  /\ ~replaced /\ task'[u].pc \in {"loaded", "running"} /\ row # None => task'[u].of = row
                  /\ row = None /\ task'[u].pc # "none" => task[u].pc # "none"
    BY <1>1, <1>2, <1>3 DEF FileInv, Calm, TasksAgree
  <1>5. CASE F!UpdateProfileStatus("failed") /\ UNCHANGED lost
    <2>1. /\ profile' # None => profile' \in ProfileType
          /\ calm => (row = None => profile' = None) /\ (~replaced /\ profile' # None => profile'.of \in {None, row})
          /\ row # None => profile'.status = "failed"
      BY <1>5, UpdateEffect
    <2>2. calm => NotStuck' BY <2>1 DEF NotStuck
    <2> QED BY <1>1, <1>3, <1>4, <2>1, <2>2, ProfileStep
  <1>6. CASE UNCHANGED profile /\ lost' = TRUE
    <2>1. (profile' # None => profile' \in ProfileType)
          /\ (calm => (row = None => profile' = None) /\ (~replaced /\ profile' # None => profile'.of \in {None, row}))
      BY <1>6 DEF FileInv, FileTypes, Calm, RowAgrees
    <2>2. NotStuck' BY <1>6 DEF NotStuck
    <2> QED BY <1>1, <1>3, <1>4, <2>1, <2>2, ProfileStep
  <1> QED BY <1>5, <1>6 DEF F!ProfileFails

LEMMA WorkerDiesStep ==
    ASSUME FileInv, NEW t \in Tasks, F!WorkerDies(t) PROVE FileInv'
  <1>0. task[t] \in ProfileTaskType BY DEF FileInv, FileTypes
  <1>1. task[t].pc \in {"loaded", "running"} /\ ProfileFrame /\ UNCHANGED profile
    BY DEF F!WorkerDies, F!presigned, ProfileFrame
  <1>2. PICK new \in ProfileTaskType :
           task' = [task EXCEPT ![t] = new] /\ ((new.pc = "none" /\ lost' = TRUE) \/ (new.pc = "queued" /\ lost' = lost))
    <2>1. CASE task' = [task EXCEPT ![t] = F!NoTask] /\ lost' = TRUE BY <2>1, NoTaskType
    <2>2. CASE task' = [task EXCEPT ![t].pc = "queued"] /\ UNCHANGED lost
      <3> DEFINE new == [task[t] EXCEPT !.pc = "queued"]
      <3>1. task' = [task EXCEPT ![t] = new] BY <2>2
      <3>2. new \in ProfileTaskType /\ new.pc = "queued" BY <1>0 DEF ProfileTaskType
      <3> HIDE DEF new
      <3> QED BY <2>2, <3>1, <3>2
    <2> QED BY <2>1, <2>2 DEF F!WorkerDies
  <1>3. task' \in [Tasks -> ProfileTaskType] /\ task'[t] = new /\ \A u \in Tasks : u # t => task'[u] = task[u]
    BY <1>2, BecomesEffect
  <1>4. calm => \A u \in Tasks :
                  /\ ~replaced /\ task'[u].pc \in {"loaded", "running"} /\ row # None => task'[u].of = row
                  /\ row = None /\ task'[u].pc # "none" => task[u].pc # "none"
    BY <1>1, <1>2, <1>3 DEF FileInv, Calm, TasksAgree
  <1>5. NotStuck' BY <1>2, <1>3 DEF NotStuck, SomeTask
  <1>6. (profile' # None => profile' \in ProfileType)
        /\ (calm => (row = None => profile' = None) /\ (~replaced /\ profile' # None => profile'.of \in {None, row}))
    BY <1>1 DEF FileInv, FileTypes, Calm, RowAgrees
  <1> QED BY <1>1, <1>3, <1>4, <1>5, <1>6, ProfileStep

LEMMA FileInvStep == FileInv /\ [F!Next]_(F!vars) => FileInv'
  <1> SUFFICES ASSUME FileInv, [F!Next]_(F!vars) PROVE FileInv' OBVIOUS
  <1>1. CASE UNCHANGED F!vars
    <2>1. FileTypes' BY <1>1 DEF F!vars, FileInv, FileTypes
    <2>2. calm => Calm'
      BY <1>1 DEF F!vars, FileInv, Calm, OneRequest, IdIsFresh, RequestsAgree, DataAgrees, Deleting, KeyAgrees,
                  RowAgrees, TasksAgree, NotStuck, SomeTask
    <2> QED BY <1>1, <2>1, <2>2 DEF F!vars, FileInv
  <1>2. ASSUME NEW k \in Clients,
               \/ F!RequestUploadUrl(k) \/ F!DirectUploadEnds(k) \/ F!ConfirmDirectUpload(k)
               \/ F!FinalizeRejects(k) \/ F!FinalizeInserts(k) \/ F!FinalizeEnds(k) \/ F!RequestDies(k)
               \/ F!DeleteFileObject(k) \/ F!DeleteFileRow(k)
        PROVE  FileInv'
    BY <1>2, RequestUploadUrlStep, DirectUploadEndsStep, ConfirmDirectUploadStep, FinalizeRejectsStep,
       FinalizeInsertsStep, FinalizeEndsStep, RequestDiesStep, DeleteFileObjectStep, DeleteFileRowStep
  <1>3. ASSUME NEW k \in Clients, NEW c \in F!Contents, F!DirectUploadStarts(k, c) \/ F!UploadFile(k, c) PROVE FileInv'
    BY <1>3, DirectUploadStartsStep, UploadFileStep
  <1>4. ASSUME NEW c \in F!Contents, F!PresignedPut(c) PROVE FileInv' BY <1>4, PresignedPutStep
  <1>5. CASE F!PendingExpires \/ F!UrlExpires \/ F!CreateRunSchemaSnapshot \/ F!RefreshFileProfile
    BY <1>5, PendingExpiresStep, UrlExpiresStep, CreateRunSchemaSnapshotStep, RefreshFileProfileStep
  <1>6. ASSUME NEW t \in Tasks,
               F!LoadFileFromDisk(t) \/ F!ProfileStarts(t) \/ F!SaveProfile(t) \/ F!ProfileFails(t) \/ F!WorkerDies(t)
        PROVE  FileInv'
    BY <1>6, LoadFileFromDiskStep, ProfileStartsStep, SaveProfileStep, ProfileFailsStep, WorkerDiesStep
  <1> QED BY <1>1, <1>2, <1>3, <1>4, <1>5, <1>6 DEF F!Next

LEMMA FileInvHolds == FileInv => FileIsConsistent
  <1> SUFFICES ASSUME FileInv, calm PROVE F!Shown /\ F!Profiled
    BY DEF FileIsConsistent, F!FileIsConsistent
  <1>0. Calm /\ snapshots \in Seq(Held) BY DEF FileInv, FileTypes
  <1>1. ASSUME ~replaced, row # None, \A k \in Clients : call[k].pc # "delete" PROVE object = row
    BY <1>0, <1>1 DEF Calm, DataAgrees, Deleting
  <1>2. \A i \in DOMAIN snapshots : snapshots[i] = row BY <1>0 DEF Calm, RowAgrees
  <1>3. ~(Len(snapshots) >= 2 /\ snapshots[Len(snapshots)] # snapshots[Len(snapshots) - 1])
    BY <1>0, <1>2
  <1>4. ~replaced /\ profile # None => profile.of \in {None, row} BY <1>0 DEF Calm, RowAgrees
  <1>5. F!Shown
    BY <1>1, <1>2, <1>3, <1>4 DEF F!Shown, F!preview_file, F!get_file, F!get_schema_history, F!get_schema_diff,
                                  F!get_file_profile
  <1>6. F!Profiled BY <1>0 DEF Calm, NotStuck, Deleting, SomeTask, F!Profiled
  <1> QED BY <1>5, <1>6

\* Files.FileIsConsistent for every number of requests and profile tasks, on
\* both storage providers: as long as requests for a file neither overlap nor
\* break off, its row and snapshots agree, its data and profile agree with them
\* unless the data was sent again at the presigned URL after the confirmation,
\* and no profile is left running by retries, redelivery or a deletion.
THEOREM FilesAgree == F!Spec => []FileIsConsistent
  <1>1. F!Init => FileInv BY FileInvInit
  <1>2. FileInv /\ [F!Next]_(F!vars) => FileInv' BY FileInvStep
  <1>3. FileInv => FileIsConsistent BY FileInvHolds
  <1> QED BY <1>1, <1>2, <1>3, PTL DEF F!Spec

-----------------------------------------------------------------------------
(***************************************************************************)
(* A step of one part leaves the variables of the others alone.            *)
(***************************************************************************)
ServicesInv ==
    /\ FileInv /\ BudgetInv
    /\ part = "notifications" => NotifyInv
    /\ part # "notifications" => WebInv

LEMMA ServicesInvInit == Init => ServicesInv
  <1> SUFFICES ASSUME Init PROVE ServicesInv OBVIOUS
  <1>1. BudgetInv BY BudgetInvInit DEF Init
  <1>2. part = "notifications" => NotifyInv BY NotifyInvInit DEF Init
  <1>3. part # "notifications" => WebInv BY WebInvInit DEF Init
  <1>4. FileInv BY FileInvInit DEF Init
  <1> QED BY <1>1, <1>2, <1>3, <1>4 DEF ServicesInv

LEMMA ServicesInvStep == ServicesInv /\ [Next]_vars => ServicesInv'
  <1> SUFFICES ASSUME ServicesInv, [Next]_vars PROVE ServicesInv' OBVIOUS
  <1>0. UNCHANGED part BY DEF Next, vars
  <1>1. [B!Next]_(B!vars) BY DEF Next, vars, budgetVars, B!vars
  <1>2. part = "notifications" => [N!Next]_(N!vars)
    <2>1. CASE OutboundNext
      BY <2>1 DEF OutboundNext
    <2>2. CASE ~OutboundNext
      BY <2>2 DEF Next, vars, outboundVars, N!vars
    <2> QED BY <2>1, <2>2
  <1>3. part # "notifications" => [W!Next]_(W!vars)
    <2>1. CASE OutboundNext
      BY <2>1 DEF OutboundNext
    <2>2. CASE ~OutboundNext
      BY <2>2 DEF Next, vars, outboundVars, W!vars
    <2> QED BY <2>1, <2>2
  <1>4. [F!Next]_(F!vars)
    <2>1. CASE FilesNext BY <2>1 DEF FilesNext
    <2>2. CASE ~FilesNext BY <2>2 DEF Next, vars, fileVars, F!vars
    <2> QED BY <2>1, <2>2
  <1>5. BudgetInv' BY <1>1, BudgetInvStep DEF ServicesInv
  <1>6. part' = "notifications" => NotifyInv' BY <1>0, <1>2, NotifyInvStep DEF ServicesInv
  <1>7. part' # "notifications" => WebInv' BY <1>0, <1>3, WebInvStep DEF ServicesInv
  <1>8. FileInv' BY <1>4, FileInvStep DEF ServicesInv
  <1> QED BY <1>5, <1>6, <1>7, <1>8 DEF ServicesInv

\* Of the services together: what is shown of a file agrees, messages are
\* accepted once but for faults and lost answers, their history is truthful and
\* the token budget is kept.
THEOREM ServicesHold == Spec => [](FileIsConsistent /\ ToldOnce /\ HistoryIsTruthful /\ BudgetHolds)
  <1>1. Init => ServicesInv BY ServicesInvInit
  <1>2. ServicesInv /\ [Next]_vars => ServicesInv' BY ServicesInvStep
  <1>3. ServicesInv => FileIsConsistent /\ ToldOnce /\ HistoryIsTruthful /\ BudgetHolds
    BY FileInvHolds, BudgetInvHolds, NotifyInvHolds, WebInvHolds DEF ServicesInv, ToldOnce, HistoryIsTruthful
  <1> QED BY <1>1, <1>2, <1>3, PTL DEF Spec

\* However deliveries and notifications are retried or repeated, the end of a
\* run is accepted under one delivery id and one more for each fault, and under
\* one id again only after an answer that did not arrive or a fault.
THEOREM EndsAreToldOnce == Spec => []ToldOnce
  BY ServicesHold, PTL

\* Without faults, the delivery history of a webhook has exactly the rows of its
\* attempts, and the report of the notifications leaves nobody out.
THEOREM HistoryIsTrue == Spec => []HistoryIsTruthful
  BY ServicesHold, PTL
=============================================================================
