--------------------------- MODULE MCOrderContract ---------------------------
(* OrderContract for TLC. *)
EXTENDS OrderContract, TLC
=============================================================================
