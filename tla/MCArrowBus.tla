----------------------------- MODULE MCArrowBus -----------------------------
(* A small instance of ArrowBus. *)
EXTENDS ArrowBus, TLC

Symmetric == Permutations(Runs) \union Permutations(Workers)
=============================================================================
