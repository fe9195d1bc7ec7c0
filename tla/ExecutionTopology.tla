-------------------------- MODULE ExecutionTopology --------------------------
(***************************************************************************)
(* SetupTopology (internal/execution/topology.go) declaration by           *)
(* declaration, by several consumers at once and beside the API, on a      *)
(* broker that may hold an older version of the work queue, where an       *)
(* operator deletes queues (their arguments are immutable) and which       *)
(* restarts.                                                               *)
(*                                                                         *)
(* ExecutionBroker takes the whole topology as one step; this module shows *)
(* what that rests on: where an event can go while part of it is missing.  *)
(* Handling is reduced to its endings, as the broker sees them;            *)
(* ExecutionConsumer details them.                                         *)
(***************************************************************************)
EXTENDS Naturals, Sequences, FiniteSets, OrderIds

CONSTANTS Consumers,     \* consumer processes
          MaxCopies,     \* bound: retry copies made of the event of an order
          MaxDeletions,  \* bound: queues the operator deletes, each once
          MaxCrashes     \* bound: crashes of a process or of the broker

ASSUME TopologyAssumption ==
  MaxCopies \in Nat /\ MaxDeletions \in Nat /\ MaxCrashes \in Nat

VARIABLES exchanges,   \* exchanges that exist
          queue,       \* whether each queue exists, and with which arguments
          bindings,    \* queues bound to their exchange
          place,       \* the declaration each consumer makes next; 0: down
          cancelled,   \* consumers whose queue was deleted under them
          holding,     \* deliveries each consumer has in hand
          api,         \* the API process serves requests
          event,       \* where each message is
          stored,      \* messages the broker has written to disk
          deleted,     \* history: queues the operator has deleted
          crashes      \* crashes so far

topology == <<exchanges, queue, bindings>>
processes == <<place, cancelled, holding, api>>
topologyVars == <<topology, processes, event, stored, deleted, crashes>>

(* dlq: DeadLetterQueue; work: OrderQueue; retry: RetryQueue. *)
Queues == {"dlq", "work", "retry"}

(* "legacy": the arguments of an older version, without a dead letter
   exchange. *)
Arguments == {"none", "declared", "legacy"}

(* The event that the API publishes (copy = 0) and its retry copies. *)
Message == [order : Orders, copy : 0 .. MaxCopies]

(* held: delivered; copied: delivered, and its retry copy went ahead of its
   ack; returned: no queue was bound; dropped: dead-lettered, or published
   through the default exchange, with no queue to take it; lost: with its
   connection or by the broker; deleted: with its queue. *)
Spots == Queues \cup {"none", "wire", "held", "copied", "executed", "acked",
                      "returned", "dropped", "lost", "deleted"}

-----------------------------------------------------------------------------
(* SetupTopology and the Consume that follows it. *)

Call(op, name) == [op |-> op, name |-> name]

(* Faulty: the work queue before its dead letter destination. *)
MutWorkQueueFirst ==
  << Call("exchange", "events"), Call("exchange", "dlx"), Call("queue", "work"),
     Call("queue", "dlq"), Call("bind", "dlq"),
     Call("queue", "retry"), Call("bind", "work"), Call("consume", "work") >>

(* Faulty: the events exchange is left to the API. *)
MutExchangeByApi ==
  << Call("exchange", "dlx"), Call("queue", "dlq"), Call("bind", "dlq"),
     Call("queue", "work"), Call("queue", "retry"), Call("bind", "work"),
     Call("consume", "work") >>

(* Faulty: the retry queue is bound to the events exchange as well. *)
MutBindRetry ==
  << Call("exchange", "events"), Call("exchange", "dlx"), Call("queue", "dlq"),
     Call("bind", "dlq"), Call("queue", "work"), Call("queue", "retry"),
     Call("bind", "retry"), Call("bind", "work"), Call("consume", "work") >>

Setup ==
  << Call("exchange", "events"), Call("exchange", "dlx"), Call("queue", "dlq"),
     Call("bind", "dlq"), Call("queue", "work"), Call("queue", "retry"),
     Call("bind", "work"), Call("consume", "work") >>

ExchangeOf(q) == IF q = "dlq" THEN "dlx" ELSE "events"

(* Declaring what exists is a no-op, unless its arguments differ
   (PRECONDITION_FAILED); using what does not exist is NOT_FOUND. *)
Accepted(call) ==
  \/ call.op = "exchange"
  \/ call.op = "queue" /\ queue[call.name] # "legacy"
  \/ call.op = "bind" /\ queue[call.name] # "none" /\ ExchangeOf(call.name) \in exchanges
  \/ call.op = "consume" /\ queue[call.name] # "none"

Consuming(c) == place[c] = Len(Setup) + 1 /\ c \notin cancelled

TypeOK ==
  /\ exchanges \subseteq {"events", "dlx"}
  /\ queue \in [Queues -> Arguments]
  /\ bindings \subseteq {"dlq", "work"}
  /\ place \in [Consumers -> 0 .. Len(Setup) + 1]
  /\ cancelled \subseteq Consumers
  /\ holding \in [Consumers -> SUBSET Message]
  /\ api \in BOOLEAN
  /\ event \in [Message -> Spots]
  /\ stored \subseteq Message
  /\ deleted \subseteq Queues
  /\ crashes \in 0 .. MaxCrashes

(* A broker without any declaration, or one an older version has used. *)
Init ==
  /\ \/ /\ exchanges = {} /\ bindings = {}
        /\ queue = [q \in Queues |-> "none"]
     \/ /\ exchanges = {"events"} /\ bindings = {"work"}
        /\ queue = [q \in Queues |-> IF q = "work" THEN "legacy" ELSE "none"]
  /\ place = [c \in Consumers |-> 0]
  /\ cancelled = {}
  /\ holding = [c \in Consumers |-> {}]
  /\ api = FALSE
  /\ event = [m \in Message |-> "none"]
  /\ stored = {}
  /\ deleted = {}
  /\ crashes = 0

-----------------------------------------------------------------------------
Moves(m, to) == event' = [event EXCEPT ![m] = to]

Crash == crashes < MaxCrashes /\ crashes' = crashes + 1

(* main dials and calls Run. *)
Start(c) ==
  /\ place[c] = 0
  /\ place' = [place EXCEPT ![c] = 1]
  /\ UNCHANGED <<topology, cancelled, holding, api, event, stored, deleted, crashes>>

(* The broker accepts the next call of SetupTopology and Run. *)
Declare(c) ==
  /\ place[c] \in DOMAIN Setup
  /\ LET call == Setup[place[c]]
     IN /\ Accepted(call)
        /\ exchanges' = exchanges \cup {x \in {call.name} : call.op = "exchange"}
        /\ queue' = [q \in Queues |-> IF call = Call("queue", q) THEN "declared" ELSE queue[q]]
        /\ bindings' = bindings \cup {q \in {call.name} : call.op = "bind"}
  /\ place' = [place EXCEPT ![c] = @ + 1]
  /\ UNCHANGED <<cancelled, holding, api, event, stored, deleted, crashes>>

(* The broker closes the channel: Run returns the error, the process exits. *)
DeclareFails(c) ==
  /\ place[c] \in DOMAIN Setup /\ ~Accepted(Setup[place[c]])
  /\ place' = [place EXCEPT ![c] = 0]
  /\ UNCHANGED <<topology, cancelled, holding, api, event, stored, deleted, crashes>>

(* The deliveries channel of a cancelled consumer is closed; Run returns
   ErrDeliveriesClosed after the delivery in hand. *)
CancelledExits(c) ==
  /\ c \in cancelled /\ holding[c] = {}
  /\ place' = [place EXCEPT ![c] = 0]
  /\ cancelled' = cancelled \ {c}
  /\ UNCHANGED <<topology, holding, api, event, stored, deleted, crashes>>

(* The API dials and declares its exchange. *)
ApiStarts ==
  /\ ~api
  /\ api' = TRUE
  /\ exchanges' = exchanges \cup {"events"}
  /\ UNCHANGED <<queue, bindings, place, cancelled, holding, event, stored, deleted, crashes>>

-----------------------------------------------------------------------------
(* The way of an event. *)

Publish(m) ==
  /\ api /\ m.copy = 0 /\ event[m] = "none"
  /\ Moves(m, "wire")
  /\ UNCHANGED <<topology, processes, stored, deleted, crashes>>

Route(m) ==
  /\ event[m] = "wire"
  /\ Moves(m, IF "work" \in bindings THEN "work" ELSE "returned")
  /\ UNCHANGED <<topology, processes, stored, deleted, crashes>>

(* basic.deliver, under a prefetch count of 1. *)
Deliver(c, m) ==
  /\ Consuming(c) /\ holding[c] = {}
  /\ event[m] = "work"
  /\ Moves(m, "held")
  /\ holding' = [holding EXCEPT ![c] = {m}]
  /\ UNCHANGED <<topology, place, cancelled, api, stored, deleted, crashes>>

Settle(c, m, from, to) ==
  /\ m \in holding[c] /\ event[m] \in from
  /\ holding' = [holding EXCEPT ![c] = {}]
  /\ Moves(m, to)
  /\ UNCHANGED <<topology, place, cancelled, api, stored, deleted, crashes>>

Executes(c, m) == Settle(c, m, {"held"}, "executed")

(* The work queue a delivery came from dead-letters it, if it still exists
   and its arguments say so. *)
DeadLetters(c) ==
  /\ c \notin cancelled
  /\ queue["work"] = "declared"
  /\ "dlx" \in exchanges /\ "dlq" \in bindings

Rejects(c, m) == Settle(c, m, {"held"}, IF DeadLetters(c) THEN "dlq" ELSE "dropped")

(* What a connection held unsettled, or rejects with requeue, goes back to its
   queue, if that is still there. *)
Requeued(c) == IF c \in cancelled THEN "deleted" ELSE "work"

(* The retry publish fails: Reject(true). *)
RequeuesUncopied(c, m) == Settle(c, m, {"held"}, Requeued(c))

(* The broker handles the retry copy n of m.  It is mandatory, but nothing
   listens for its return. *)
CopiesForRetry(c, m, n) ==
  /\ m \in holding[c] /\ event[m] = "held"
  /\ n.order = m.order /\ n.copy > m.copy /\ event[n] = "none"
  /\ event' =
       [event EXCEPT ![m] = "copied",
                     ![n] = IF queue["retry"] # "none" THEN "retry" ELSE "dropped"]
  /\ UNCHANGED <<topology, processes, stored, deleted, crashes>>

(* Faulty: the original is acked first. *)
MutAcksUncopied(c, m) == Settle(c, m, {"held", "copied"}, "acked")

(* The broker handles the ack that follows the copy on the same channel, and
   need not have stored the copy by then. *)
AcksCopied(c, m) == Settle(c, m, {"copied"}, "acked")

(* A queue writes a persistent message at any time after it has taken it. *)
Store(m) ==
  /\ event[m] \in Queues \cup {"held", "copied"} /\ m \notin stored
  /\ stored' = stored \cup {m}
  /\ UNCHANGED <<topology, processes, event, deleted, crashes>>

(* The TTL expires: dead-lettered to the work queue by name. *)
Expire(m) ==
  /\ event[m] = "retry"
  /\ Moves(m, IF queue["work"] # "none" THEN "work" ELSE "dropped")
  /\ UNCHANGED <<topology, processes, stored, deleted, crashes>>

-----------------------------------------------------------------------------
(* Deletions and crashes. *)

(* "The old queue has to be deleted first": with its messages.  Its consumers
   are cancelled and keep the delivery they have in hand. *)
DeleteQueue(q) ==
  /\ queue[q] # "none" /\ q \notin deleted /\ Cardinality(deleted) < MaxDeletions
  /\ queue' = [queue EXCEPT ![q] = "none"]
  /\ bindings' = bindings \ {q}
  /\ event' = [m \in Message |-> IF event[m] = q THEN "deleted" ELSE event[m]]
  /\ cancelled' = cancelled \cup {c \in Consumers : q = "work" /\ Consuming(c)}
  /\ deleted' = deleted \cup {q}
  /\ UNCHANGED <<exchanges, place, holding, api, stored, crashes>>

ConsumerDies(c) ==
  /\ place[c] # 0 /\ Crash
  /\ place' = [place EXCEPT ![c] = 0]
  /\ cancelled' = cancelled \ {c}
  /\ holding' = [holding EXCEPT ![c] = {}]
  /\ event' = [m \in Message |-> IF m \in holding[c] THEN Requeued(c) ELSE event[m]]
  /\ UNCHANGED <<topology, api, stored, deleted>>

(* The API dies; an event on its way may be lost with its connection. *)
ApiDies ==
  /\ api /\ Crash
  /\ api' = FALSE
  /\ \E gone \in SUBSET {m \in Message : event[m] = "wire"} :
       event' = [m \in Message |-> IF m \in gone THEN "lost" ELSE event[m]]
  /\ UNCHANGED <<topology, place, cancelled, holding, stored, deleted>>

(* Faulty: only the dead letter queue is durable. *)
MutTransientQueues == {"dlq"}

(* DeclareDurableQueue; the events in them are persistent. *)
DurableQueues == Queues

(* What a restart of the broker takes with it: an event on the wire, a message
   it has not written, and what a queue that is not durable holds. *)
Volatile(m) ==
  \/ event[m] \in {"wire"} \cup (Queues \ DurableQueues)
  \/ event[m] \in Queues \cup {"held", "copied"} /\ m \notin stored

(* The broker restarts with what is durable.  Every process loses its
   connection and exits; without publisher confirms nobody knows of an event
   or a retry copy that is gone. *)
BrokerRestarts ==
  /\ Crash
  /\ queue' = [q \in Queues |-> IF q \in DurableQueues THEN queue[q] ELSE "none"]
  /\ bindings' = bindings \cap DurableQueues
  /\ event' = [m \in Message |->
       IF Volatile(m) THEN "lost"
       ELSE IF event[m] \in {"held", "copied"}
            THEN Requeued(CHOOSE c \in Consumers : m \in holding[c])
       ELSE event[m]]
  /\ place' = [c \in Consumers |-> 0]
  /\ cancelled' = {}
  /\ holding' = [c \in Consumers |-> {}]
  /\ api' = FALSE
  /\ UNCHANGED <<exchanges, stored, deleted>>

-----------------------------------------------------------------------------
RunStep(c) ==
  \/ Start(c)
  \/ Declare(c)
  \/ DeclareFails(c)
  \/ CancelledExits(c)

HandlerStep(c, m) ==
  \/ Executes(c, m)
  \/ Rejects(c, m)
  \/ RequeuesUncopied(c, m)
  \/ \E n \in Message : CopiesForRetry(c, m, n)
  \/ AcksCopied(c, m)

(* Every consumer consumes and every event has reached its end. *)
Idle ==
  /\ \A c \in Consumers : Consuming(c)
  /\ \A m \in Message :
       /\ event[m] \notin {"wire", "work", "held", "copied", "retry"}
       /\ m.copy = 0 => event[m] # "none"
  /\ UNCHANGED topologyVars

Next ==
  \/ ApiStarts
  \/ ApiDies
  \/ BrokerRestarts
  \/ \E q \in Queues : DeleteQueue(q)
  \/ \E c \in Consumers : RunStep(c) \/ ConsumerDies(c)
  \/ \E m \in Message : Publish(m) \/ Route(m) \/ Store(m) \/ Expire(m)
  \/ \E c \in Consumers, m \in Message : Deliver(c, m) \/ HandlerStep(c, m)
  \/ Idle

(* A consumer that stopped is replaced and goes on; a handler ends.  The API
   need not run, and the operator need not delete anything. *)
Fairness ==
  \A c \in Consumers :
    /\ WF_topologyVars(RunStep(c))
    /\ WF_topologyVars(\E m \in Message : HandlerStep(c, m))

Spec == Init /\ [][Next]_topologyVars /\ Fairness

-----------------------------------------------------------------------------
(* Properties. *)

(* "The dead letter destination is declared before OrderQueue, so it already
   exists by the time any message can be dead-lettered": whoever declares,
   dies half way or declares again, a work queue is not there before it.  And
   a consumer consumes only when everything it relies on is in place.  Only
   the operator can break this. *)
TopologyReady ==
  /\ queue["work"] = "declared" /\ "dlq" \notin deleted =>
       "dlx" \in exchanges /\ "dlq" \in bindings
  /\ \A c \in Consumers : Consuming(c) =>
       /\ "retry" \notin deleted => queue["retry"] # "none"
       /\ "work" \notin deleted => "work" \in bindings
       /\ queue["work"] = "declared"

(* An order whose event the broker has taken is executed, or one of its
   messages is in a queue or in the hands of a consumer. *)
Remaining == Queues \cup {"held", "copied", "executed"}

Remains(o) == \E m \in Message : m.order = o /\ event[m] \in Remaining

(* A message is dropped on its way only after a queue was deleted, and never
   lost once it is stored.  And nothing else takes the last message of an
   order away: not concurrent set-ups, crashes half way through SetupTopology
   or between a retry copy and the ack of its original, nor an older queue
   that is still there; but the loss of an unstored copy whose original is
   acked does. *)
EventsKept ==
  [][/\ \A m \in Message :
          /\ event'[m] = "dropped" /\ event[m] # "dropped" => deleted # {}
          /\ event'[m] = "lost" /\ event[m] # "lost" => m \notin stored
     /\ \A o \in Orders : Remains(o) /\ ~Remains(o)' =>
          \/ deleted' # {}
          \/ \E m \in Message :
               m.order = o /\ event'[m] = "lost" /\ event[m] # "lost"]_topologyVars

(* Once the first consumer has bound the work queue, every event is routed,
   whether or not a consumer runs, unless the operator deletes that queue. *)
RoutedOnceBound ==
  [][\A m \in Message :
       "work" \in bindings /\ "work" \notin deleted' =>
         "work" \in bindings' /\ (event'[m] = "returned" => event[m] = "returned")]_topologyVars

(* "The consumer cannot assume it [the API] started first": every consumer
   gets to consume by itself, whatever is missing, was deleted or is declared
   by others meanwhile, unless a queue of an older version stays. *)
SetupCompletes ==
  <>[](queue["work"] # "legacy") => \A c \in Consumers : <>[]Consuming(c)
=============================================================================
