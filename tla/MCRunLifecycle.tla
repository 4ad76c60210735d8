--------------------------- MODULE MCRunLifecycle ---------------------------
(* Instances of RunLifecycle for TLC: one run, as runs share nothing but the *)
(* workers and the sweep, and two workers, as many as can race for it.       *)
EXTENDS RunLifecycle

CONSTANTS r1, w1, w2
=============================================================================
