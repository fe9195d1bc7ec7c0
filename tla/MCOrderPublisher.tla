-------------------------- MODULE MCOrderPublisher ---------------------------
(* OrderPublisher for TLC. *)
EXTENDS OrderPublisher, TLC
=============================================================================
