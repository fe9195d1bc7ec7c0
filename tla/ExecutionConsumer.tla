-------------------------- MODULE ExecutionConsumer --------------------------
(***************************************************************************)
(* The execution consumer: Consumer.Run and its handler                    *)
(* (internal/execution/consumer.go, handler.go, failure.go), as several    *)
(* processes that share the queues of ExecutionBroker and the database of  *)
(* OrderLedger, with crashes, lost connections, shutdown signals and       *)
(* failing dependencies.                                                   *)
(*                                                                         *)
(* A call of ExecuteOrder is one step here: OrderStore shows that its      *)
(* transactions implement OrderLedger's ClaimOrder and that its answers    *)
(* are sound.  A call that fails, or whose caller dies, may leave a COMMIT *)
(* under way that takes effect at any later time (LateOutcome).            *)
(***************************************************************************)
EXTENDS ExecutionBroker, OrderLedger

CONSTANTS Ghosts,      \* orders that may have no row
          NoMessage,   \* no delivery in hand
          MaxFaults,   \* bound: crashes, lost connections, unheard commits
          MaxStops     \* bound: shutdown signals

ASSUME ConsumerAssumption ==
  /\ Ghosts \subseteq Orders
  /\ NoMessage \notin Message
  /\ MaxFaults \in Nat
  /\ MaxStops \in Nat

VARIABLES pc,         \* where each process is in Run
          inbox,      \* deliveries the client library has buffered
          current,    \* delivery in hand
          linkUp,     \* the process can still send on its connection
          ctxDone,    \* the shutdown signal was received
          faults,     \* faults so far
          stops,      \* shutdown signals so far
          unheard,    \* orders with a COMMIT under way that nobody waits for
          failures    \* history: transient failures of each order

processVars == <<pc, inbox, current, linkUp, ctxDone>>
boundVars == <<faults, stops>>
incidentVars == <<boundVars, unheard>>
consumerVars == <<processVars, incidentVars, failures>>
vars == <<brokerVars, ledgerVars, consumerVars>>

Handling == {"pricing", "executing"}
Place == {"down", "select", "received", "succeeded", "permanent", "transient",
          "copied", "closing"} \cup Handling

TypeOK ==
  /\ BrokerTypeOK
  /\ LedgerTypeOK
  /\ pc \in [Consumers -> Place]
  /\ inbox \in [Consumers -> SUBSET Message]
  /\ current \in [Consumers -> Message \cup {NoMessage}]
  /\ linkUp \in [Consumers -> BOOLEAN]
  /\ ctxDone \in [Consumers -> BOOLEAN]
  /\ faults \in 0 .. MaxFaults
  /\ stops \in 0 .. MaxStops
  /\ unheard \subseteq Orders
  /\ failures \in [Orders -> Nat]

ConsumerStateInit ==
  /\ pc = [c \in Consumers |-> "down"]
  /\ inbox = [c \in Consumers |-> {}]
  /\ current = [c \in Consumers |-> NoMessage]
  /\ linkUp = [c \in Consumers |-> FALSE]
  /\ ctxDone = [c \in Consumers |-> FALSE]
  /\ faults = 0
  /\ stops = 0
  /\ unheard = {}
  /\ failures = [o \in Orders |-> 0]

(* On its own: every order that will be announced has its row, as the API
   inserts it before it publishes the event, except some ghosts. *)
Init ==
  /\ BrokerInit
  /\ \E missing \in SUBSET Ghosts :
       status = [o \in Orders |-> IF o \in missing THEN "ABSENT" ELSE "PENDING"]
  /\ executions = [o \in Orders |-> 0]
  /\ ConsumerStateInit

-----------------------------------------------------------------------------
(* The loop. *)

Goto(c, place) == pc' = [pc EXCEPT ![c] = place]

(* A settlement or publish on a connection that is gone reaches nobody; the
   error is logged and the loop goes on. *)
Send(c, op, m) == IF linkUp[c] THEN Enqueue(c, op, m) ELSE UNCHANGED wire

QueuesUnchanged ==
  UNCHANGED <<bound, orderQueue, retryQueue, deadLetterQueue, session, unacked, routed>>

(* main dials, Run opens the channel, declares the topology and consumes. *)
Start(c) ==
  /\ pc[c] = "down"
  /\ OpenSession(c)
  /\ Goto(c, "select")
  /\ linkUp' = [linkUp EXCEPT ![c] = TRUE]
  /\ ctxDone' = [ctxDone EXCEPT ![c] = FALSE]
  /\ UNCHANGED <<ledgerVars, inbox, current, incidentVars, failures>>

(* A delivery travels to the client library's buffer. *)
Deliver(c, m) ==
  /\ linkUp[c]
  /\ Push(c, m)
  /\ inbox' = [inbox EXCEPT ![c] = {m}]
  /\ UNCHANGED <<ledgerVars, pc, current, linkUp, ctxDone, incidentVars, failures>>

(* select: the deliveries case. *)
Receive(c) ==
  /\ pc[c] = "select"
  /\ \E m \in inbox[c] : current' = [current EXCEPT ![c] = m]
  /\ inbox' = [inbox EXCEPT ![c] = {}]
  /\ Goto(c, "received")
  /\ UNCHANGED <<brokerVars, ledgerVars, linkUp, ctxDone, incidentVars, failures>>

(* Faulty: the loop waits for a delivery before it looks at the signal. *)
MutNoShutdownCase(c) == FALSE

(* select: the ctx.Done case. *)
SeeShutdown(c) ==
  /\ pc[c] = "select" /\ ctxDone[c]
  /\ Goto(c, "closing")
  /\ UNCHANGED <<brokerVars, ledgerVars, inbox, current, linkUp, ctxDone,
                 incidentVars, failures>>

(* select: deliveries is closed and drained; Run returns ErrDeliveriesClosed. *)
SeeClosed(c) ==
  /\ pc[c] = "select" /\ ~linkUp[c] /\ inbox[c] = {}
  /\ Goto(c, "closing")
  /\ UNCHANGED <<brokerVars, ledgerVars, inbox, current, linkUp, ctxDone,
                 incidentVars, failures>>

(* Faulty: an invalid event is not among the recognised errors. *)
MutInvalidEventTransient(err) ==
  IF err \in {"ErrOrderNotFound", "NotFound", "InvalidArgument"}
  THEN "permanent" ELSE "transient"

(* Faulty: a price service that is down is taken for an unknown symbol. *)
MutUnavailablePermanent(err) ==
  IF err \in {"errInvalidEvent", "ErrOrderNotFound", "NotFound", "InvalidArgument",
             "Unavailable"}
  THEN "permanent" ELSE "transient"

(* classifyFailure, of the error or of its gRPC code: what it does not
   recognise is transient. *)
ClassifyFailure(err) ==
  IF err \in {"errInvalidEvent", "ErrOrderNotFound", "NotFound", "InvalidArgument"}
  THEN "permanent" ELSE "transient"

(* The handler returns err. *)
Fails(c, err) ==
  /\ Goto(c, ClassifyFailure(err))
  /\ failures' = IF ClassifyFailure(err) = "transient"
                 THEN [failures EXCEPT ![current[c].order] = @ + 1]
                 ELSE failures

(* Faulty: the signal is not looked at again after the select. *)
MutNoRecheck(c) ==
  /\ pc[c] = "received"
  /\ Goto(c, "pricing")
  /\ UNCHANGED <<brokerVars, ledgerVars, inbox, current, linkUp, ctxDone,
                 incidentVars, failures>>

(* The shutdown signal may have arrived together with the delivery: it is
   left unacked then.  Otherwise the body is decoded and validated. *)
StartHandling(c) ==
  /\ pc[c] = "received"
  /\ \/ ctxDone[c] /\ Goto(c, "closing") /\ UNCHANGED failures
     \/ ~ctxDone[c] /\ current[c].body = "malformed" /\ Fails(c, "errInvalidEvent")
     \/ /\ ~ctxDone[c] /\ current[c].body # "malformed"
        /\ Goto(c, "pricing") /\ UNCHANGED failures
  /\ UNCHANGED <<brokerVars, ledgerVars, inbox, current, linkUp, ctxDone,
                 incidentVars>>

-----------------------------------------------------------------------------
(* The handler: processOrderCreated. *)

(* GetQuote, as GetPrice's caller sees its status: the server has a price or
   answers NotFound, which the client's wrapping does not hide; a server that
   is down or being replaced is Unavailable; and the 8s deadline of the
   delivery may pass first. *)
QuoteCodes(body) ==
  {IF body = "unknownSymbol" THEN "NotFound" ELSE "OK", "Unavailable", "DeadlineExceeded"}

LookupPrice(c) ==
  /\ pc[c] = "pricing"
  /\ \E code \in QuoteCodes(current[c].body) :
       \/ code = "OK" /\ Goto(c, "executing") /\ UNCHANGED failures
       \/ code # "OK" /\ Fails(c, code)
  /\ UNCHANGED <<brokerVars, ledgerVars, inbox, current, linkUp, ctxDone,
                 incidentVars>>

(* A transaction that nobody waits for keeps its row locked until it ends. *)
Locked(o) == o \in unheard

(* ExecuteOrder returns (true, nil). *)
Claims(c) ==
  /\ pc[c] = "executing"
  /\ ~Locked(current[c].order) /\ ClaimOrder(current[c].order)
  /\ Goto(c, "succeeded")
  /\ UNCHANGED <<brokerVars, inbox, current, linkUp, ctxDone, incidentVars, failures>>

(* COMMIT is sent, but its answer is lost or too late: ExecuteOrder returns an
   error. *)
ClaimsUnheard(c) ==
  /\ pc[c] = "executing" /\ faults < MaxFaults
  /\ ~Locked(current[c].order) /\ status[current[c].order] = "PENDING"
  /\ unheard' = unheard \cup {current[c].order}
  /\ Fails(c, "DatabaseError")
  /\ faults' = faults + 1
  /\ UNCHANGED <<brokerVars, ledgerVars, inbox, current, linkUp, ctxDone, stops>>

(* The server ends that transaction: it commits, or it rolls back. *)
LateOutcome(o) ==
  /\ o \in unheard
  /\ unheard' = unheard \ {o}
  /\ ClaimOrder(o) \/ UNCHANGED ledgerVars
  /\ UNCHANGED <<brokerVars, processVars, boundVars, failures>>

(* ExecuteOrder returns (false, nil): the duplicate is skipped; or
   ErrOrderNotFound: permanent; or another error, with nothing written. *)
ClaimsNothing(c) ==
  /\ pc[c] = "executing"
  /\ \/ /\ status[current[c].order] = "EXECUTED"
        /\ Goto(c, "succeeded")
        /\ UNCHANGED failures
     \/ /\ status[current[c].order] = "ABSENT"
        /\ Fails(c, "ErrOrderNotFound")
     \/ Fails(c, "DatabaseError")
  /\ UNCHANGED <<brokerVars, ledgerVars, inbox, current, linkUp, ctxDone,
                 incidentVars>>

-----------------------------------------------------------------------------
(* Settlement. *)

(* The delivery is done with. *)
NextDelivery(c, place) ==
  /\ Goto(c, place)
  /\ current' = [current EXCEPT ![c] = NoMessage]

(* Faulty: the signal is looked at again after the handler, and the delivery
   it has just executed is left unacked. *)
MutAckUnlessShutdown(c) ==
  /\ pc[c] = "succeeded"
  /\ IF ctxDone[c]
     THEN NextDelivery(c, "closing") /\ UNCHANGED wire
     ELSE NextDelivery(c, "select") /\ Send(c, "ack", current[c])
  /\ QueuesUnchanged
  /\ UNCHANGED <<ledgerVars, inbox, linkUp, ctxDone, incidentVars, failures>>

AckSuccess(c) ==
  /\ pc[c] = "succeeded"
  /\ NextDelivery(c, "select")
  /\ Send(c, "ack", current[c])
  /\ QueuesUnchanged
  /\ UNCHANGED <<ledgerVars, inbox, linkUp, ctxDone, incidentVars, failures>>

(* Faulty: the header comes back as another integer type. *)
MutHeaderUnread(m) == 0

(* retryAttempt: an int is written as a 32-bit integer and comes back as an
   int32; without the header it is the first attempt, 0. *)
RetryAttempt(m) == m.attempt

(* Faulty: attempts counted from 1, or the last one not counted. *)
MutOutOfRetriesEarly(m) == RetryAttempt(m) + 2 >= MaxDeliveryAttempts
MutOutOfRetriesLate(m) == RetryAttempt(m) >= MaxDeliveryAttempts

OutOfRetries(m) == RetryAttempt(m) + 1 >= MaxDeliveryAttempts

(* Faulty: a permanent failure goes back to the head of the queue. *)
MutRejectWithRequeue == "requeue"

RejectWithoutRequeue == "reject"

(* Faulty: the continue after Reject is missing. *)
MutFallThrough(c) ==
  /\ \/ pc[c] = "permanent"
     \/ pc[c] = "transient" /\ OutOfRetries(current[c])
  /\ Goto(c, "succeeded")
  /\ Send(c, RejectWithoutRequeue, current[c])
  /\ QueuesUnchanged
  /\ UNCHANGED <<ledgerVars, inbox, current, linkUp, ctxDone, incidentVars,
                 failures>>

(* A permanent failure, or no attempt left: dead-lettered. *)
DeadLetter(c) ==
  /\ \/ pc[c] = "permanent"
     \/ pc[c] = "transient" /\ OutOfRetries(current[c])
  /\ NextDelivery(c, "select")
  /\ Send(c, RejectWithoutRequeue, current[c])
  /\ QueuesUnchanged
  /\ UNCHANGED <<ledgerVars, inbox, linkUp, ctxDone, incidentVars, failures>>

(* x-retry-count of the copy. *)
NextAttempt(m) == RetryAttempt(m) + 1

RetryCopy(m) == [m EXCEPT !.id = FreshId, !.attempt = NextAttempt(m)]

(* The retry copy is published before the original is settled. *)
PublishRetry(c) ==
  /\ pc[c] = "transient" /\ ~OutOfRetries(current[c])
  /\ linkUp[c] /\ Room
  /\ Goto(c, "copied")
  /\ Enqueue(c, "publish", RetryCopy(current[c]))
  /\ QueuesUnchanged
  /\ UNCHANGED <<ledgerVars, inbox, current, linkUp, ctxDone, incidentVars,
                 failures>>

(* Faulty: the original is acked although there is no copy. *)
MutSettleUncopied == "ack"

(* Reject(true) *)
SettleUncopied == "requeue"

(* The publish fails and the original is requeued: the connection is gone, or
   the library reports an error, which a canceled ctx may also cause. *)
PublishRetryFails(c) ==
  /\ pc[c] = "transient" /\ ~OutOfRetries(current[c])
  /\ \/ (~linkUp[c] \/ ctxDone[c]) /\ UNCHANGED faults
     \/ linkUp[c] /\ faults < MaxFaults /\ faults' = faults + 1
  /\ NextDelivery(c, "select")
  /\ Send(c, SettleUncopied, current[c])
  /\ QueuesUnchanged
  /\ UNCHANGED <<ledgerVars, inbox, linkUp, ctxDone, stops, unheard, failures>>

AckAfterCopy(c) ==
  /\ pc[c] = "copied"
  /\ NextDelivery(c, "select")
  /\ Send(c, "ack", current[c])
  /\ QueuesUnchanged
  /\ UNCHANGED <<ledgerVars, inbox, linkUp, ctxDone, incidentVars, failures>>

-----------------------------------------------------------------------------
(* Processes, connections and the broker's own steps. *)

(* Run returns and the deferred closes run: the close is answered after the
   frames sent before it.  The process exits. *)
Exit(c) ==
  /\ pc[c] = "closing"
  /\ linkUp[c] => wire[c] = <<>>
  /\ NextDelivery(c, "down")
  /\ inbox' = [inbox EXCEPT ![c] = {}]
  /\ linkUp' = [linkUp EXCEPT ![c] = FALSE]
  /\ UNCHANGED <<brokerVars, ledgerVars, ctxDone, incidentVars, failures>>

(* SIGTERM or SIGINT. *)
Signal(c) ==
  /\ pc[c] # "down" /\ ~ctxDone[c] /\ stops < MaxStops
  /\ ctxDone' = [ctxDone EXCEPT ![c] = TRUE]
  /\ stops' = stops + 1
  /\ UNCHANGED <<brokerVars, ledgerVars, pc, inbox, current, linkUp, faults,
                 unheard, failures>>

(* SIGKILL, a second signal, or the machine fails.  A call that has claimed its
   order leaves its transaction behind. *)
Crash(c) ==
  /\ pc[c] # "down" /\ faults < MaxFaults
  /\ NextDelivery(c, "down")
  /\ inbox' = [inbox EXCEPT ![c] = {}]
  /\ linkUp' = [linkUp EXCEPT ![c] = FALSE]
  /\ faults' = faults + 1
  /\ \E claimed \in SUBSET {o \in Orders : pc[c] = "executing" /\ current[c].order = o
                                         /\ status[o] = "PENDING"} :
       unheard' = unheard \cup claimed
  /\ UNCHANGED <<brokerVars, ledgerVars, ctxDone, stops, failures>>

(* The connection breaks.  A buffered delivery may still come out of the
   library before it closes the deliveries channel. *)
LoseConnection(c) ==
  /\ linkUp[c] /\ faults < MaxFaults
  /\ linkUp' = [linkUp EXCEPT ![c] = FALSE]
  /\ inbox' \in {inbox, [inbox EXCEPT ![c] = {}]}
  /\ faults' = faults + 1
  /\ UNCHANGED <<brokerVars, ledgerVars, pc, current, ctxDone, stops, unheard,
                 failures>>

(* The broker notices that the connection is gone. *)
BrokerEndsSession(c) ==
  /\ ~linkUp[c]
  /\ EndSession(c)
  /\ UNCHANGED <<ledgerVars, consumerVars>>

BrokerHandlesFrame(c) == HandleFrame(c) /\ UNCHANGED <<ledgerVars, consumerVars>>

BrokerExpiresRetry(m) == RetryExpires(m) /\ UNCHANGED <<ledgerVars, consumerVars>>

(* The API, or another publisher, announces an order (see OrderApi). *)
Announce(o) ==
  /\ o \notin routed
  /\ \E body \in Bodies : RouteEvent(o, body)
  /\ UNCHANGED <<ledgerVars, consumerVars>>

-----------------------------------------------------------------------------
(* What a running process does by itself. *)
ProcessStep(c) ==
  \/ Receive(c)
  \/ SeeShutdown(c)
  \/ SeeClosed(c)
  \/ StartHandling(c)
  \/ LookupPrice(c)
  \/ Claims(c)
  \/ ClaimsUnheard(c)
  \/ ClaimsNothing(c)
  \/ AckSuccess(c)
  \/ DeadLetter(c)
  \/ PublishRetry(c)
  \/ PublishRetryFails(c)
  \/ AckAfterCopy(c)
  \/ Exit(c)

(* Every message was settled and the consumers wait for deliveries. *)
Waiting ==
  /\ Kept = deadLetterQueue
  /\ \A c \in Consumers : pc[c] = "select" /\ wire[c] = <<>>

ConsumerStep ==
  \/ \E m \in retryQueue : BrokerExpiresRetry(m)
  \/ \E o \in Orders : LateOutcome(o)
  \/ \E c \in Consumers :
       \/ Start(c)
       \/ \E m \in orderQueue : Deliver(c, m)
       \/ ProcessStep(c)
       \/ Signal(c)
       \/ Crash(c)
       \/ LoseConnection(c)
       \/ BrokerEndsSession(c)
       \/ BrokerHandlesFrame(c)

Next ==
  \/ \E o \in Orders : Announce(o)
  \/ ConsumerStep
  \/ routed = Orders /\ Waiting /\ UNCHANGED vars

Spec == Init /\ [][Next]_vars

(* A process that runs goes on, and a stopped one is replaced (restart policy
   or deploy); frames arrive, dead connections are noticed, TTLs expire.  No
   dependency has to recover, and no fault has to happen. *)
Fairness ==
  /\ WF_vars(\E m \in retryQueue : BrokerExpiresRetry(m))
  /\ \A c \in Consumers :
       /\ WF_vars(Start(c))
       /\ WF_vars(ProcessStep(c))
       /\ WF_vars(\E m \in orderQueue : Deliver(c, m))
       /\ WF_vars(BrokerHandlesFrame(c))
       /\ WF_vars(BrokerEndsSession(c))

FairSpec == Spec /\ Fairness

-----------------------------------------------------------------------------
(* Properties. *)

(* "No message is lost when the consumer crashes, is redeployed or loses its
   connection": an order whose event was routed is EXECUTED, or the broker
   still keeps a message of it, whatever was in flight when a process or a
   connection died. *)
OrderNotLost ==
  \A o \in routed :
    status[o] # "EXECUTED" => \E m \in Kept : m.order = o

(* A delivery is settled once.  A second Ack or Reject of the same delivery
   is a channel error in AMQP, which would take the consumer down. *)
SettledOnce ==
  \A c \in Consumers : session[c] =>
    \A i \in DOMAIN wire[c] : wire[c][i].op # "publish" =>
      /\ wire[c][i].msg \in unacked[c]
      /\ \A j \in DOMAIN wire[c] :
           wire[c][j].op # "publish" /\ wire[c][j].msg = wire[c][i].msg => i = j

(* Duplicates come from faults only: retries, several consumers and graceful
   shutdown alone never have an order handled twice at a time, nor handled
   again after it was executed. *)
NoDuplicateWithoutFault ==
  faults = 0 =>
    \A c \in Consumers : pc[c] \in Handling =>
      /\ status[current[c].order] # "EXECUTED"
      /\ \A d \in Consumers \ {c} :
           pc[d] \in Handling => current[d].order # current[c].order

Hopeless(m) == m.body # "valid" \/ status[m.order] = "ABSENT"

(* A transient failure is not dead-lettered before its last attempt: the
   order of every dead letter failed that often, or is hopeless. *)
DeadLetterJustified ==
  \A m \in deadLetterQueue :
    \/ Hopeless(m)
    \/ /\ m.attempt + 1 = MaxDeliveryAttempts
       /\ failures[m.order] >= MaxDeliveryAttempts

(* "Such a message goes straight to the dead-letter queue": no copy of an
   invalid event is ever made, however often it is redelivered. *)
InvalidEventNotRetried ==
  \A m \in Kept : m.body = "malformed" => m.attempt = 0

(* "Retries will be bounded": a fault may start the attempts of an order over
   in one more message, a shutdown may repeat one attempt. *)
RetryBudget ==
  \A o \in Orders :
    failures[o] <= MaxDeliveryAttempts * (1 + faults) + stops

(* A graceful shutdown takes no new work: once a signalled process is between
   deliveries, nothing gets it to call the handler again. *)
NoNewWorkAfterSignal ==
  [][\A c \in Consumers :
       ctxDone[c] /\ pc[c] \in {"select", "received", "closing"}
         => pc'[c] \in {"select", "received", "closing", "down"}]_vars

(* Every routed event ends: its order is EXECUTED or a message of it is in
   the dead letter queue, even if no dependency ever recovers. *)
EventResolved ==
  \A o \in Orders :
    o \in routed ~> \/ status[o] = "EXECUTED"
                    \/ \E m \in deadLetterQueue : m.order = o

(* A signalled process stops, whatever it is doing. *)
ShutdownCompletes ==
  \A c \in Consumers : ctxDone[c] /\ pc[c] # "down" ~> pc[c] = "down"

(* "Duplicates and already-resolved orders are acked, not rejected, so they
   never reach the DLQ" (DECISIONS.md, ADR-009): no message of an order that
   is already EXECUTED enters the dead letter queue. *)
DuplicateNeverDeadLettered ==
  [][\A m \in deadLetterQueue' \ deadLetterQueue :
       status[m.order] # "EXECUTED"]_vars
=============================================================================
