---------------------------- MODULE MCStreaming ----------------------------
(* A small instance of Streaming. *)
EXTENDS Streaming

\* The second message of one partition cannot be decoded, that of the others holds
\* no record.
MCMalformed == {<<CHOOSE p \in Partitions : TRUE, 1>>}
MCVoid == (Partitions \X {1}) \ MCMalformed
=============================================================================
