------------------------------ MODULE OrderIds -------------------------------
(* The identifiers that the database, the broker and the processes share. *)
CONSTANT Orders        \* order identifiers (UUIDs)
=============================================================================
