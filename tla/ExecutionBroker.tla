--------------------------- MODULE ExecutionBroker ---------------------------
(***************************************************************************)
(* RabbitMQ as the execution consumer uses it: the queues SetupTopology    *)
(* declares (internal/execution/topology.go), the dead-lettering they are  *)
(* configured with, and one AMQP session per consumer process.             *)
(*                                                                         *)
(* A session is what the broker knows of a connection.  The frames a       *)
(* client sends are in flight (wire) until the broker handles them, in     *)
(* order; when the session ends the rest is dropped and the deliveries     *)
(* without a settlement go back to the queue.                              *)
(*                                                                         *)
(* Queues are sets of messages: redelivery, requeue and several consumers  *)
(* leave no order the code could rely on.  Queues are durable and messages *)
(* persistent; loss of the broker's own disk is not modelled.              *)
(***************************************************************************)
EXTENDS Naturals, Sequences, OrderIds

CONSTANTS Bodies,               \* what the event of an order may turn out to be
          Consumers,            \* consumer processes, one AMQP session each
          MessageIds,           \* bound: messages alive at the same time
          MaxDeliveryAttempts   \* maxDeliveryAttempts (3 in the code)

ASSUME BrokerAssumption ==
  /\ Bodies \subseteq {"valid", "malformed", "unknownSymbol"}
  /\ MaxDeliveryAttempts \in Nat \ {0}

VARIABLES bound,            \* OrderQueue is bound to the events exchange
          orderQueue,       \* order_execution
          retryQueue,       \* order_execution.retry
          deadLetterQueue,  \* order_execution.dlq
          session,          \* the broker has an open session with a consumer
          unacked,          \* deliveries of a session that await settlement
          wire,             \* frames of a session not handled yet
          routed            \* history: orders whose event reached OrderQueue

brokerVars == <<bound, orderQueue, retryQueue, deadLetterQueue,
                session, unacked, wire, routed>>

(* A message carries the order's event and x-retry-count.  A malformed body
   does not decode or validate; the price service has no quote for an unknown
   symbol.  The identity tells the copies of one event apart; no message
   carries it. *)
Attempt == 0 .. MaxDeliveryAttempts - 1
Message == [id : MessageIds, order : Orders, body : Bodies, attempt : Attempt]

(* ack: Ack; reject: Reject(false); requeue: Reject(true); publish: a publish
   to RetryQueue through the default exchange. *)
Frame == [op : {"publish", "ack", "reject", "requeue"}, msg : Message]

BrokerTypeOK ==
  /\ bound \in BOOLEAN
  /\ orderQueue \subseteq Message
  /\ retryQueue \subseteq Message
  /\ deadLetterQueue \subseteq Message
  /\ session \in [Consumers -> BOOLEAN]
  /\ unacked \in [Consumers -> SUBSET Message]
  /\ wire \in [Consumers -> Seq(Frame)]
  /\ routed \subseteq Orders

BrokerInit ==
  /\ bound = FALSE
  /\ orderQueue = {}
  /\ retryQueue = {}
  /\ deadLetterQueue = {}
  /\ session = [c \in Consumers |-> FALSE]
  /\ unacked = [c \in Consumers |-> {}]
  /\ wire = [c \in Consumers |-> <<>>]
  /\ routed = {}

-----------------------------------------------------------------------------
FramesOf(c) == {wire[c][i] : i \in DOMAIN wire[c]}

(* The messages the broker keeps: queued, dead-lettered, or delivered and not
   settled. *)
Kept == orderQueue \cup retryQueue \cup deadLetterQueue
          \cup UNION {unacked[c] : c \in Consumers}

(* No message has identity i. *)
Unused(i) ==
  /\ \A m \in Kept : m.id # i
  /\ \A c \in Consumers : \A f \in FramesOf(c) : f.msg.id # i

(* MessageIds is a bound: one more message can be made. *)
Room == \E i \in MessageIds : Unused(i)

FreshId == CHOOSE i \in MessageIds : Unused(i)

(* A client connects, declares the topology and consumes. *)
OpenSession(c) ==
  /\ ~session[c]
  /\ session' = [session EXCEPT ![c] = TRUE]
  /\ bound' = TRUE
  /\ UNCHANGED <<orderQueue, retryQueue, deadLetterQueue, unacked, wire, routed>>

(* The event of order o reaches OrderQueue through the events exchange. *)
RouteEvent(o, body) ==
  /\ bound /\ Room
  /\ orderQueue' = orderQueue \cup {[id |-> FreshId, order |-> o, body |-> body,
                                  attempt |-> 0]}
  /\ routed' = routed \cup {o}
  /\ UNCHANGED <<bound, retryQueue, deadLetterQueue, session, unacked, wire>>

(* basic.deliver, under a prefetch count of 1. *)
Push(c, m) ==
  /\ session[c] /\ unacked[c] = {}
  /\ m \in orderQueue
  /\ orderQueue' = orderQueue \ {m}
  /\ unacked' = [unacked EXCEPT ![c] = {m}]
  /\ UNCHANGED <<bound, retryQueue, deadLetterQueue, session, wire, routed>>

Enqueue(c, op, m) == wire' = [wire EXCEPT ![c] = Append(@, [op |-> op, msg |-> m])]

(* The broker handles the oldest frame of a session. *)
HandleFrame(c) ==
  /\ session[c] /\ wire[c] # <<>>
  /\ LET op == Head(wire[c]).op
         m == Head(wire[c]).msg
     IN /\ retryQueue' = retryQueue \cup {x \in {m} : op = "publish"}
        /\ deadLetterQueue' = deadLetterQueue \cup {x \in {m} : op = "reject"}
        /\ orderQueue' = orderQueue \cup {x \in {m} : op = "requeue"}
        /\ unacked' = [unacked EXCEPT ![c] = @ \ {x \in {m} : op # "publish"}]
  /\ wire' = [wire EXCEPT ![c] = Tail(@)]
  /\ UNCHANGED <<bound, session, routed>>

(* The TTL of a copy expires: it is dead-lettered to OrderQueue by name. *)
RetryExpires(m) ==
  /\ m \in retryQueue
  /\ retryQueue' = retryQueue \ {m}
  /\ orderQueue' = orderQueue \cup {m}
  /\ UNCHANGED <<bound, deadLetterQueue, session, unacked, wire, routed>>

(* The session ends: what was not settled returns to OrderQueue. *)
EndSession(c) ==
  /\ session[c]
  /\ session' = [session EXCEPT ![c] = FALSE]
  /\ orderQueue' = orderQueue \cup unacked[c]
  /\ unacked' = [unacked EXCEPT ![c] = {}]
  /\ wire' = [wire EXCEPT ![c] = <<>>]
  /\ UNCHANGED <<bound, retryQueue, deadLetterQueue, routed>>
=============================================================================
