----------------------------- MODULE MCServices ------------------------------
(* A small instance of Services. *)
EXTENDS Services

\* A description asks for fewer tokens and has fewer retries.
MCDescribes == {CHOOSE t \in Calls : TRUE}
MCEstimate == [t \in Calls |-> IF t \in MCDescribes THEN 2 ELSE 3]
MCMaxRetries == [t \in Calls |-> IF t \in MCDescribes THEN 1 ELSE 2]
==============================================================================
