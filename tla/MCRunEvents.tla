---------------------------- MODULE MCRunEvents ----------------------------
(* Instances of RunEvents for TLC.  Clients only read what the others write, *)
(* so that one client sees every order of events that any of many would.     *)
EXTENDS RunEvents

CONSTANT c1
=============================================================================
