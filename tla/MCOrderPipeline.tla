--------------------------- MODULE MCOrderPipeline ---------------------------
(* OrderPipeline for TLC. *)
EXTENDS OrderPipeline, TLC
=============================================================================
