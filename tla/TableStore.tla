----------------------------- MODULE TableStore -----------------------------
(* What the Arrow bus promises its users: a run reads under a key a table it *)
(* has put there itself, or nothing.  Tables are numbered as they are put.   *)
EXTENDS Naturals

CONSTANTS Runs, Keys,
    Tables   \* the numbers of the tables; 0 is not one of them

VARIABLES
    val,      \* per run and key: the table a get returns, 0 when it raises KeyError
    written   \* per run and key: the tables put there

vars == <<val, written>>

Init ==
    /\ val = [r \in Runs |-> [k \in Keys |-> 0]]
    /\ written = [r \in Runs |-> [k \in Keys |-> {}]]

\* A table not put before; an eviction that was under way may take it away
\* or put an earlier one in its place before it is read.
Put(r, k, v) ==
    /\ \A s \in Runs, j \in Keys : v \notin written[s][j]
    /\ written' = [written EXCEPT ![r][k] = @ \union {v}]
    /\ \E w \in written'[r][k] \union {0} : val' = [val EXCEPT ![r][k] = w]

\* Expiry, eviction, clean-up and the loss of a process take tables away; a
\* late eviction may also bring an earlier table of the same run and key back.
Shift ==
    /\ val' \in [Runs -> [Keys -> Tables \union {0}]]
    /\ \A r \in Runs, k \in Keys : val'[r][k] \in written[r][k] \union {0}
    /\ UNCHANGED written

Next == Shift \/ \E r \in Runs, k \in Keys, v \in Tables : Put(r, k, v)

Spec == Init /\ [][Next]_vars
=============================================================================
