------------------------------ MODULE Accounts ------------------------------
(***************************************************************************)
(* User accounts (auth.py, api/auth.py): registration, which makes the     *)
(* first user the administrator, login, logout, role changes, and the      *)
(* tokens that authenticate a request.  The handlers are coroutines; a     *)
(* database call is synchronous, so a coroutine that waits for the lock of *)
(* the users table holds up the event loop of its API worker, while one    *)
(* that waits for a password hash gives the loop to others, with the lock  *)
(* still held.  Audit records are written by a session of their own that   *)
(* never fails the request, and are left out.                              *)
(***************************************************************************)
EXTENDS Naturals, FiniteSets

CONSTANTS
  Users,      \* identities: an e-mail address and a user name
  Workers,    \* API worker processes, one event loop each
  Requests,   \* requests that write the users table
  WorkerOf,   \* the worker each request is served by
  Tokens,     \* the JWTs that can be issued, one jti each
  NoUser, NoRequest

VARIABLES
  role,     \* the role of each user's row, "absent" before registration
  born,     \* the role the row was inserted with
  lock,     \* the request holding the EXCLUSIVE lock on users
  req,      \* the state of each request
  pool,     \* the bcrypt process pool of each worker
  holder,   \* the subject of each token, NoUser before it is issued
  expired,  \* the tokens past their exp claim
  revoked,  \* the jtis with an auth:revoked key
  redis     \* is the cache Redis reachable?

vars == <<role, born, lock, req, pool, holder, expired, revoked, redis>>
tokenVars == <<holder, expired, revoked, redis>>

Roles == {"admin", "viewer"}
Ended == {"done", "refused", "failed"}
Idle == [pc |-> "idle", user |-> NoUser, role |-> "absent"]

Init ==
  /\ role = [u \in Users |-> "absent"]
  /\ born = [u \in Users |-> "absent"]
  /\ lock = NoRequest
  /\ req = [c \in Requests |-> Idle]
  /\ pool = [w \in Workers |-> "none"]
  /\ holder = [t \in Tokens |-> NoUser]
  /\ expired = {} /\ revoked = {} /\ redis = TRUE

Registered == {u \in Users : role[u] # "absent"}

\* A coroutine of the worker is inside a statement that waits for the lock.
Blocked(w) == \E c \in Requests : WorkerOf[c] = w /\ req[c].pc \in {"locking", "updating"}

(***************************************************************************)
(* The bcrypt pool: created on first use, broken when one of its processes *)
(* dies, replaced when a call finds it broken.                             *)
(***************************************************************************)
GetBcryptPool(w) == IF pool[w] = "none" THEN "up" ELSE pool[w]

ResetBcryptPool(w) == "up"

\* A call on the pool ends with the pool in state p, in success or not: a
\* broken pool is replaced and the call made once more.
BcryptCall(w, p, ok) ==
  \/ p = GetBcryptPool(w) /\ p = "up" /\ ok
  \/ GetBcryptPool(w) = "broken" /\ p = ResetBcryptPool(w) /\ ok
  \/ p \in {"up", "broken"} /\ ~ok

PoolBreaks(w) ==
  /\ pool[w] = "up"
  /\ pool' = [pool EXCEPT ![w] = "broken"]
  /\ UNCHANGED <<role, born, lock, req, tokenVars>>

(***************************************************************************)
(* Registration.                                                           *)
(***************************************************************************)
\* With the lock: refuse a known name, else fix the role and start hashing.
\* A refusal rolls the transaction back, which releases the lock.
Locked(c, u) ==
  IF u \in Registered
  THEN /\ req' = [req EXCEPT ![c] = [@ EXCEPT !.pc = "refused", !.user = u]]
       /\ lock' = NoRequest
  ELSE /\ req' = [req EXCEPT ![c] =
              [pc |-> "hashing", user |-> u,
               role |-> IF Registered = {} THEN "admin" ELSE "viewer"]]
       /\ lock' = c

\* Mutant: registration without LOCK TABLE.
LockTableLeftOut(c, u) == Locked(c, u)

LockTable(c, u) ==
  IF lock = NoRequest THEN Locked(c, u)
  ELSE req' = [req EXCEPT ![c] = [@ EXCEPT !.pc = "locking", !.user = u]] /\ UNCHANGED lock

Register(c, u) ==
  /\ req[c].pc = "idle" /\ ~Blocked(WorkerOf[c])
  /\ LockTable(c, u)
  /\ UNCHANGED <<role, born, pool, tokenVars>>

LockGranted(c) ==
  /\ req[c].pc = "locking" /\ lock = NoRequest
  /\ Locked(c, req[c].user)
  /\ UNCHANGED <<role, born, pool, tokenVars>>

HashPassword(c) ==
  LET w == WorkerOf[c] IN
  /\ req[c].pc = "hashing" /\ ~Blocked(w)
  /\ \E p \in {"up", "broken"}, ok \in BOOLEAN :
       /\ BcryptCall(w, p, ok)
       /\ pool' = [pool EXCEPT ![w] = p]
       /\ IF ok THEN /\ role' = [role EXCEPT ![req[c].user] = req[c].role]
                     /\ born' = [born EXCEPT ![req[c].user] = req[c].role]
                     /\ req' = [req EXCEPT ![c].pc = "done"]
                ELSE req' = [req EXCEPT ![c].pc = "failed"] /\ UNCHANGED <<role, born>>
  /\ lock' = IF lock = c THEN NoRequest ELSE lock
  /\ UNCHANGED tokenVars

\* Mutant: no statement_timeout.
NeverTimesOut(c) == FALSE /\ UNCHANGED vars

\* The server's statement_timeout ends a statement that waits for the lock.
StatementTimesOut(c) ==
  /\ req[c].pc \in {"locking", "updating"} /\ lock # NoRequest
  /\ req' = [req EXCEPT ![c].pc = "failed"]
  /\ UNCHANGED <<role, born, lock, pool, tokenVars>>

(***************************************************************************)
(* Tokens.                                                                 *)
(***************************************************************************)
IsTokenRevoked(t) == ~redis \/ t \in revoked

VerifyToken(t) == holder[t] # NoUser /\ t \notin expired /\ ~IsTokenRevoked(t)

GetCurrentUser(t) == VerifyToken(t) /\ holder[t] \in Registered

GetCurrentAdmin(t) == GetCurrentUser(t) /\ role[holder[t]] = "admin"

CreateAccessToken(t, u) == holder' = [holder EXCEPT ![t] = u]

Login(w, t, u) ==
  /\ holder[t] = NoUser /\ u \in Registered /\ ~Blocked(w)
  /\ \E p \in {"up", "broken"}, ok \in BOOLEAN :
       /\ BcryptCall(w, p, ok)
       /\ pool' = [pool EXCEPT ![w] = p]
       /\ IF ok THEN CreateAccessToken(t, u) ELSE UNCHANGED holder
  /\ UNCHANGED <<role, born, lock, req, expired, revoked, redis>>

\* Best effort: an error of Redis leaves the token in force.
RevokeToken(t) == revoked' \in {revoked \cup {t}, revoked}

Logout(t) ==
  /\ GetCurrentUser(t)
  /\ RevokeToken(t)
  /\ UNCHANGED <<role, born, lock, req, pool, holder, expired, redis>>

\* The key lives as long as the token would.
TokenExpires(t) ==
  /\ holder[t] # NoUser /\ t \notin expired
  /\ expired' = expired \cup {t} /\ revoked' = revoked \ {t}
  /\ UNCHANGED <<role, born, lock, req, pool, holder, redis>>

RedisToggles ==
  /\ redis' = ~redis
  /\ UNCHANGED <<role, born, lock, req, pool, holder, expired, revoked>>

(***************************************************************************)
(* Role changes: the UPDATE waits for the table lock like a registration.  *)
(***************************************************************************)
SetRole(c, u, r) ==
  IF lock = NoRequest
  THEN role' = [role EXCEPT ![u] = r] /\ req' = [req EXCEPT ![c] = [pc |-> "done", user |-> u, role |-> r]]
  ELSE req' = [req EXCEPT ![c] = [pc |-> "updating", user |-> u, role |-> r]] /\ UNCHANGED role

UpdateUserRole(c, t, u, r) ==
  /\ req[c].pc = "idle" /\ ~Blocked(WorkerOf[c])
  /\ GetCurrentAdmin(t) /\ u \in Registered
  /\ SetRole(c, u, r)
  /\ UNCHANGED <<born, lock, pool, tokenVars>>

RoleUpdateGranted(c) ==
  /\ req[c].pc = "updating" /\ lock = NoRequest
  /\ SetRole(c, req[c].user, req[c].role)
  /\ UNCHANGED <<born, lock, pool, tokenVars>>

Next ==
  \/ \E c \in Requests : \/ LockGranted(c) \/ HashPassword(c) \/ StatementTimesOut(c)
                         \/ RoleUpdateGranted(c)
                         \/ \E u \in Users : Register(c, u)
                         \/ \E t \in Tokens, u \in Users, r \in Roles : UpdateUserRole(c, t, u, r)
  \/ \E w \in Workers : PoolBreaks(w) \/ \E t \in Tokens, u \in Users : Login(w, t, u)
  \/ \E t \in Tokens : Logout(t) \/ TokenExpires(t)
  \/ RedisToggles

\* The database serves a waiting statement or ends it; a loop that is not
\* blocked resumes a coroutine whose hash is there.
Fairness ==
  \A c \in Requests :
    WF_vars(LockGranted(c) \/ RoleUpdateGranted(c) \/ StatementTimesOut(c)) /\ WF_vars(HashPassword(c))

Spec == Init /\ [][Next]_vars /\ Fairness

-----------------------------------------------------------------------------
\* Registration makes exactly one administrator, the first user: concurrent
\* registrations, each counting the rows before it hashes and inserts, never
\* both find the table empty (register's LOCK TABLE users).
OneFirstAdmin ==
  Cardinality({u \in Users : born[u] = "admin"}) = IF Registered = {} THEN 0 ELSE 1

\* Every registration or role change that began ends: a coroutine that waits
\* for the lock of another coroutine of its own worker, which cannot be
\* resumed meanwhile, is freed by the statement timeout of the server.
WritesEnd == \A c \in Requests : req[c].pc # "idle" ~> req[c].pc \in Ended

-----------------------------------------------------------------------------
(* What documentation or comments say and this model refutes (see README).  *)

\* The comment on the bcrypt pool (auth.py) says that the event loop stays
\* responsive: no worker's loop waits for a lock that is held by a coroutine
\* of the same worker.
LoopStaysResponsive ==
  \A w \in Workers : Blocked(w) => (lock # NoRequest => WorkerOf[lock] # w)
=============================================================================
