------------------------- MODULE MCExecutionTopology -------------------------
(* ExecutionTopology for TLC. *)
EXTENDS ExecutionTopology, TLC
=============================================================================
