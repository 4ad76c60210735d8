---------------------------- MODULE PipelineRun ----------------------------
(***************************************************************************)
(* What a pipeline run promises to whoever reads its row: an abstract      *)
(* specification without workers, messages, database sessions and sweeps,  *)
(* which RunLifecycle implements.                                          *)
(***************************************************************************)
EXTENDS Naturals

CONSTANTS
    Runs,       \* run ids
    Repeats     \* may a run be started a second time?

VARIABLES
    status,     \* the status in the row, "none" before there is one
    starts,     \* how often the steps of the run were started
    repaired,   \* was a patch of its pipeline applied and run?
    stored,     \* are its step results and lineage stored?
    vetoed,     \* was it cancelled before anything could start it?
    closed      \* is nobody working on it any more?

vars == <<status, starts, repaired, stored, vetoed, closed>>

Terminal == {"HEALED", "COMPLETED", "CONTRACT_VIOLATION", "FAILED",
             "CANCELLED", "TIMEOUT"}

Init ==
    /\ status   = [r \in Runs |-> "none"]
    /\ starts   = [r \in Runs |-> 0]
    /\ repaired = [r \in Runs |-> FALSE]
    /\ stored   = [r \in Runs |-> FALSE]
    /\ vetoed   = [r \in Runs |-> FALSE]
    /\ closed   = [r \in Runs |-> FALSE]

Open(r) == status[r] # "none" /\ ~closed[r]

Becomes(r, new) == status' = [status EXCEPT ![r] = new]

Create(r) ==
    /\ status[r] = "none"
    /\ Becomes(r, "PENDING")
    /\ UNCHANGED <<starts, repaired, stored, vetoed, closed>>

\* Never after a veto, and a second time only with duplicate messages.
Start(r) ==
    /\ Open(r)
    /\ ~vetoed[r]
    /\ Repeats \/ starts[r] = 0
    /\ Becomes(r, "RUNNING")
    /\ starts' = [starts EXCEPT ![r] = @ + 1]
    /\ UNCHANGED <<repaired, stored, vetoed, closed>>

\* Someone stops the run, or gives it up; only a run that has not started is
\* vetoed by that.  It may be the last that is ever done to the run.
Interrupt(r) ==
    /\ Open(r)
    /\ \E new \in {"CANCELLED", "TIMEOUT", "FAILED"} :
          /\ Becomes(r, new)
          /\ \/ UNCHANGED vetoed
             \/ /\ new = "CANCELLED" /\ status[r] = "PENDING" /\ starts[r] = 0
                /\ vetoed' = [vetoed EXCEPT ![r] = TRUE]
    /\ \E last \in {closed[r], TRUE} : closed' = [closed EXCEPT ![r] = last]
    /\ UNCHANGED <<starts, repaired, stored>>

\* A run that has started is being repaired, ...
Heal(r) ==
    /\ Open(r)
    /\ starts[r] > 0
    /\ Becomes(r, "HEALING")
    /\ UNCHANGED <<starts, repaired, stored, vetoed, closed>>

\* ... has its pipeline patched, ...
Repair(r) ==
    /\ Open(r)
    /\ starts[r] > 0
    /\ repaired' = [repaired EXCEPT ![r] = TRUE]
    /\ UNCHANGED <<status, starts, stored, vetoed, closed>>

\* ... and is HEALED once the patched pipeline has run.
Healed(r) ==
    /\ Open(r)
    /\ repaired[r]
    /\ Becomes(r, "HEALED")
    /\ UNCHANGED <<starts, repaired, stored, vetoed, closed>>

\* The results are stored once, in one step with the verdict on them; a
\* repaired run never passes for one that completed as it was.
Store(r) ==
    /\ Open(r)
    /\ starts[r] > 0
    /\ ~stored[r]
    /\ stored' = [stored EXCEPT ![r] = TRUE]
    /\ \E new \in {status[r], "FAILED", "CONTRACT_VIOLATION",
                   IF repaired[r] THEN "HEALED" ELSE "COMPLETED"} : Becomes(r, new)
    /\ UNCHANGED <<starts, repaired, vetoed, closed>>

\* The last party lets go of a run that has ended; nothing follows.
Close(r) ==
    /\ Open(r)
    /\ status[r] \in Terminal
    /\ closed' = [closed EXCEPT ![r] = TRUE]
    /\ UNCHANGED <<status, starts, repaired, stored, vetoed>>

Next == \E r \in Runs :
    \/ Create(r) \/ Start(r) \/ Interrupt(r) \/ Heal(r) \/ Repair(r)
    \/ Healed(r) \/ Store(r) \/ Close(r)

Spec == Init /\ [][Next]_vars
=============================================================================
