----------------------------- MODULE OrderLedger -----------------------------
(***************************************************************************)
(* What the database promises the rest of the system: the committed rows   *)
(* of the tables orders and executions (schema.sql), and the two atomic    *)
(* changes that internal/order/store.go makes to them.  OrderStore shows   *)
(* that the transactions of the code implement this module; the consumer   *)
(* and the pipeline are built on it.                                       *)
(*                                                                         *)
(* CANCELLED and REJECTED are allowed by the schema but no code writes     *)
(* them, so an order is absent, PENDING or EXECUTED.                       *)
(***************************************************************************)
EXTENDS Naturals, OrderIds

VARIABLES status,      \* committed orders.status, or "ABSENT" without a row
          executions   \* number of committed executions rows of each order

ledgerVars == <<status, executions>>

OrderStatus == {"ABSENT", "PENDING", "EXECUTED"}

LedgerTypeOK ==
  /\ status \in [Orders -> OrderStatus]
  /\ executions \in [Orders -> Nat]

LedgerInit ==
  /\ status = [o \in Orders |-> "ABSENT"]
  /\ executions = [o \in Orders |-> 0]

(* Create: INSERT INTO orders, always with status PENDING. *)
InsertOrder(o) ==
  /\ status[o] = "ABSENT"
  /\ status' = [status EXCEPT ![o] = "PENDING"]
  /\ UNCHANGED executions

(* ExecuteOrder: the transition and its execution row, or neither. *)
ClaimOrder(o) ==
  /\ status[o] = "PENDING"
  /\ status' = [status EXCEPT ![o] = "EXECUTED"]
  /\ executions' = [executions EXCEPT ![o] = @ + 1]

LedgerNext == \E o \in Orders : InsertOrder(o) \/ ClaimOrder(o)

LedgerSpec == LedgerInit /\ [][LedgerNext]_ledgerVars
=============================================================================
