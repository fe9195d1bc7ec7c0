---------------------------- MODULE MCOrderStore -----------------------------
(* OrderStore for TLC. *)
EXTENDS OrderStore, TLC
=============================================================================
