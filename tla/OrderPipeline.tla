---------------------------- MODULE OrderPipeline ----------------------------
(***************************************************************************)
(* The whole flow: the API inserts orders and publishes their events, the  *)
(* broker routes them, the consumers execute the orders.  Composes         *)
(* OrderApi and ExecutionConsumer, which share the database of OrderLedger *)
(* and the queues of ExecutionBroker and nothing else.  Every process may  *)
(* start first.                                                            *)
(***************************************************************************)
EXTENDS ExecutionConsumer, OrderApi

pipelineVars == <<vars, apiVars>>

PipelineInit ==
  /\ LedgerInit
  /\ BrokerInit
  /\ ApiStateInit
  /\ ConsumerStateInit

(* All requests were answered and all their events settled. *)
PipelineIdle ==
  /\ \A o \in Orders : req[o] \in {"201", "500", "cut"}
  /\ apiWire = {} /\ Waiting
  /\ UNCHANGED pipelineVars

PipelineNext ==
  \/ ApiStep /\ UNCHANGED consumerVars
  \/ ConsumerStep /\ UNCHANGED apiVars
  \/ PipelineIdle

PipelineSpec == PipelineInit /\ [][PipelineNext]_pipelineVars

FairPipelineSpec == PipelineSpec /\ Fairness /\ ApiFairness

-----------------------------------------------------------------------------
(* Properties. *)

(* Between the INSERT and the execution a PENDING order always has its event
   somewhere, across both processes, the wires and the queues; it may be gone
   only through a fault of the API, or as unroutable.  Faults of consumers do
   not matter. *)
AcceptedAccounted ==
  \A o \in Orders : status[o] = "PENDING" /\ apiFaults = 0 =>
    \/ req[o] = "publishing"
    \/ o \in apiWire \cup unroutable
    \/ \E m \in Kept : m.order = o

(* A consumer never handles an event of an order without a row: for events of
   the API, ErrOrderNotFound does not happen. *)
HandledAfterRow ==
  \A c \in Consumers :
    pc[c] \in Handling => status[current[c].order] # "ABSENT"

(* Where order o is in its life cycle, across both processes, the wires and
   the queues. *)
Phase(o) ==
  CASE status[o] = "ABSENT" -> "none"
    [] status[o] = "EXECUTED" -> "executed"
    [] OTHER ->
         IF \E m \in deadLetterQueue : m.order = o THEN "parked"
         ELSE IF req[o] = "publishing" \/ o \in apiWire \/ \E m \in Kept : m.order = o
              THEN "accepted" ELSE "stranded"

Lifecycle ==
  INSTANCE OrderLifecycle
    WITH phase <- [o \in Orders |-> Phase(o)],
         exposed <- IF apiFaults > 0 THEN Orders ELSE unroutable

(* However the processes start, stop, crash and lose their connections, the
   pipeline takes every order through its life cycle: executed for good, or
   parked, and stranded only by a fault of the API or a missing queue. *)
ImplementsLifecycle == Lifecycle!LifecycleSafety

(* The rows as the consumers take them: an order has its row before any
   message of it, so they may as well all be there from the start. *)
RowsAhead == [o \in Orders |-> IF status[o] = "ABSENT" THEN "PENDING" ELSE status[o]]

Consumption ==
  INSTANCE ExecutionConsumer WITH status <- RowsAhead, Ghosts <- {}

(* The API is the publisher that the consumers rely on: it announces an order
   once at most, whatever fails, and not before its row is there.  So all that
   holds of ExecutionConsumer on its own holds of the pipeline. *)
ImplementsConsumption == Consumption!Spec

(* No order is parked for want of patience: with a symbol that has a price,
   every one of its attempts was made and failed. *)
ParkedForCause ==
  \A m \in deadLetterQueue :
    m.order \in UnknownSymbols \/ failures[m.order] >= MaxDeliveryAttempts

(* Every accepted order settles: what is left of it is where an operator can
   find it. *)
AcceptedSettles == Lifecycle!Settles

(* "The start order of the processes does not matter" (DECISIONS.md,
   ADR-006): with no fault at all, every event finds its queue. *)
StartOrderIrrelevant ==
  apiFaults = 0 /\ faults = 0 => unroutable = {}
=============================================================================
