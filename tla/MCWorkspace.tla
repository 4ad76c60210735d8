----------------------------- MODULE MCWorkspace -----------------------------
(* A small instance of Workspace. *)
EXTENDS Workspace

\* Two requests are served by one worker, the others by a second.
OtherRequest == CHOOSE c \in Requests : TRUE
MCWorkerOf == [c \in Requests |-> IF c = OtherRequest THEN 2 ELSE 1]
MCAdmins == {CHOOSE u \in Users : TRUE}
MCLevel == [u \in Users |-> IF u \in MCAdmins THEN "none" ELSE "viewer"]
\* Definitions with one or two steps, that differ in a step's configuration
\* and in the steps they have.
MCDefinitions == {[a |-> 1], [a |-> 2], [a |-> 1, b |-> 1]}
==============================================================================
