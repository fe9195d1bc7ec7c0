--------------------------- MODULE MCOrderListing ----------------------------
(* OrderListing for TLC. *)
EXTENDS OrderListing, TLC
=============================================================================
