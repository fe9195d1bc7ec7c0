----------------------- MODULE ExecutionConsumerProofs -----------------------
(***************************************************************************)
(* Theorems about ExecutionConsumer, for any number of consumers, orders,  *)
(* messages, attempts, faults and signals.                                 *)
(*                                                                         *)
(* The invariants build on each other: what a process holds is what its    *)
(* session has delivered and not settled (Bookkeeping); a message is in    *)
(* one place at a time (Apart); an ack leaves an EXECUTED order or a newer *)
(* message behind (ResultKept); without faults an order has one message    *)
(* that is still to be handled (OneLive); a message has as many failures   *)
(* behind it as it says (AttemptsPaid); and the failures an order has had  *)
(* and may still have are paid for by faults and signals                   *)
(* (AttemptsLimited).                                                      *)
(***************************************************************************)
EXTENDS ExecutionConsumer, FiniteSetTheorems, SequenceTheorems, TLAPS

(* Places of the loop with a delivery in hand. *)
Busy == Handling \cup {"received", "succeeded", "permanent", "transient", "copied"}

InHand(c) == inbox[c] \cup ({current[c]} \ {NoMessage})

Settlement(f) == f.op # "publish"

Settling(c) == \E i \in DOMAIN wire[c] : Settlement(wire[c][i])

-----------------------------------------------------------------------------
(* The place in the loop says what the process has. *)
LoopPlaces ==
  \A c \in Consumers :
    /\ pc[c] = "down" => ~linkUp[c] /\ inbox[c] = {}
    /\ pc[c] \in {"down", "select"} => current[c] = NoMessage
    /\ pc[c] \in Busy => current[c] # NoMessage
    /\ current[c] # NoMessage => inbox[c] = {}

(* Sessions that ended hold nothing, the others one delivery at most. *)
Sessions ==
  \A c \in Consumers :
    /\ linkUp[c] => session[c]
    /\ ~session[c] => unacked[c] = {} /\ wire[c] = <<>>
    /\ \A m, n \in unacked[c] : m = n

(* What a connected process holds was delivered to it and not settled. *)
HeldUnsettled ==
  \A c \in Consumers : linkUp[c] =>
    \A m \in InHand(c) : m \in unacked[c] /\ ~Settling(c)

Bookkeeping == TypeOK /\ LoopPlaces /\ Sessions /\ HeldUnsettled /\ SettledOnce

-----------------------------------------------------------------------------
(* Order o is EXECUTED, or a message of it with a later attempt than m is
   kept. *)
Outlived(m) ==
  \/ status[m.order] = "EXECUTED"
  \/ \E n \in Kept : n.order = m.order /\ n.attempt > m.attempt

(* A frame that publishes the copy for a later attempt of m. *)
CopyOf(f, m) ==
  f.op = "publish" /\ f.msg.order = m.order /\ f.msg.attempt > m.attempt

(* The broker can lose m when the frames of c are handled. *)
Covered(c, m) ==
  \/ Outlived(m)
  \/ \E j \in DOMAIN wire[c] : CopyOf(wire[c][j], m)

(* What an ack leaves behind: a result, or a copy that the broker has, or
   that reaches it before the ack. *)
ResultKeptAt(c) ==
  /\ pc[c] = "succeeded" => status[current[c].order] = "EXECUTED"
  /\ pc[c] = "copied" /\ linkUp[c] => Covered(c, current[c])
  /\ \A i \in DOMAIN wire[c] : wire[c][i].op = "ack" =>
       \/ Outlived(wire[c][i].msg)
       \/ \E j \in 1 .. i - 1 : CopyOf(wire[c][j], wire[c][i].msg)

ResultKept == \A c \in Consumers : ResultKeptAt(c)

-----------------------------------------------------------------------------
(* The copies on their way to the broker, each published once. *)
PublishedIn(frames) ==
  {m \in Message : \E i \in DOMAIN frames : frames[i] = [op |-> "publish", msg |-> m]}

OncePublished(frames) ==
  \A i, j \in DOMAIN frames :
    frames[i].op = "publish" /\ frames[i] = frames[j] => i = j

Published(c) == PublishedIn(wire[c])

Queued == orderQueue \cup retryQueue \cup deadLetterQueue

(* A message is in one place: a queue, a session, or on its way. *)
Apart ==
  /\ orderQueue \cap retryQueue = {}
  /\ orderQueue \cap deadLetterQueue = {}
  /\ retryQueue \cap deadLetterQueue = {}
  /\ \A c \in Consumers :
       /\ unacked[c] \cap Queued = {}
       /\ Published(c) \cap Kept = {}
       /\ OncePublished(wire[c])
       /\ \A d \in Consumers \ {c} :
            /\ unacked[c] \cap unacked[d] = {}
            /\ Published(c) \cap Published(d) = {}

(* The delivery of consumer c has its result, or its copy, already. *)
Spent(c) ==
  \/ pc[c] \in {"succeeded", "copied"}
  \/ \E i \in DOMAIN wire[c] : wire[c][i].op = "ack"

(* The messages that are still to be handled. *)
Live(m) ==
  \/ m \in Queued
  \/ \E c \in Consumers :
       \/ m \in unacked[c] /\ ~Spent(c)
       \/ m \in Published(c)

(* Without a fault a process has its connection as long as it runs, no COMMIT
   is left under way, and an order that is not EXECUTED has one message to be
   handled; an order that is has none, and no order is executed before its
   event came. *)
OneLive ==
  faults = 0 =>
    /\ unheard = {}
    /\ \A c \in Consumers : ~linkUp[c] => pc[c] = "down" /\ wire[c] = <<>>
    /\ \A o \in Orders : status[o] = "EXECUTED" => o \in routed
    /\ \A m \in Message : Live(m) =>
         /\ m.order \in routed /\ status[m.order] # "EXECUTED"
         /\ \A n \in Message : Live(n) /\ n.order = m.order => n = m

-----------------------------------------------------------------------------
(* Every message there is, wherever it is. *)
Exists(m) ==
  \/ m \in Kept
  \/ \E c \in Consumers :
       \/ m \in InHand(c)
       \/ \E i \in DOMAIN wire[c] : wire[c][i].msg = m

LastAttemptFailed(m) ==
  m.attempt + 1 = MaxDeliveryAttempts /\ failures[m.order] >= MaxDeliveryAttempts

(* A message has as many failures behind it as it says; the verdict on a
   delivery and the rejects on their way are justified. *)
AttemptsPaid ==
  /\ \A m \in Message : Exists(m) => failures[m.order] >= m.attempt
  /\ \A c \in Consumers :
       /\ pc[c] = "transient" => failures[current[c].order] > current[c].attempt
       /\ pc[c] = "permanent" => Hopeless(current[c])
       /\ \A i \in DOMAIN wire[c] : wire[c][i].op = "reject" =>
            Hopeless(wire[c][i].msg) \/ LastAttemptFailed(wire[c][i].msg)

(* An invalid event is not retried by any process. *)
InvalidAtFirst ==
  /\ \A m \in Message : Exists(m) /\ m.body = "malformed" => m.attempt = 0
  /\ \A c \in Consumers :
       pc[c] \in Handling \cup {"transient"} => current[c].body # "malformed"

-----------------------------------------------------------------------------
(* Frames on their way: what Append and Tail do to them. *)

(* A frame that is sent comes last and moves none. *)
LEMMA AppendFrame ==
  ASSUME NEW s \in Seq(Frame), NEW f \in Frame
  PROVE  /\ Append(s, f) \in Seq(Frame)
         /\ Len(s) \in Nat /\ DOMAIN s = 1 .. Len(s)
         /\ DOMAIN Append(s, f) = 1 .. Len(s) + 1
         /\ \A i \in DOMAIN s : Append(s, f)[i] = s[i]
         /\ Append(s, f)[Len(s) + 1] = f
BY AppendProperties, LenProperties

(* Once the first frame is handled the others move up by one. *)
LEMMA TailFrame ==
  ASSUME NEW s \in Seq(Frame), s # <<>>
  PROVE  /\ Len(s) \in Nat /\ DOMAIN s = 1 .. Len(s) /\ 1 \in DOMAIN s
         /\ Head(s) \in Frame /\ Head(s) = s[1]
         /\ Tail(s) \in Seq(Frame) /\ DOMAIN Tail(s) = 1 .. Len(s) - 1
         /\ \A i \in DOMAIN Tail(s) : i + 1 \in DOMAIN s /\ Tail(s)[i] = s[i + 1]
BY HeadTailProperties, LenProperties

(* A process with a connection adds a frame, one without changes nothing. *)
LEMMA SendEffect ==
  ASSUME wire \in [Consumers -> Seq(Frame)], NEW c \in Consumers,
         NEW op \in {"publish", "ack", "reject", "requeue"},
         NEW m \in Message, Send(c, op, m)
  PROVE  /\ wire' \in [Consumers -> Seq(Frame)]
         /\ \A d \in Consumers \ {c} : wire'[d] = wire[d]
         /\ ~linkUp[c] => wire'[c] = wire[c]
         /\ linkUp[c] => wire'[c] = Append(wire[c], [op |-> op, msg |-> m])
<1>1. [op |-> op, msg |-> m] \in Frame /\ wire[c] \in Seq(Frame)
  BY DEF Frame
<1>2. Append(wire[c], [op |-> op, msg |-> m]) \in Seq(Frame)
  BY <1>1, AppendFrame
<1> QED
  BY <1>2 DEF Send, Enqueue

(* Room leaves a new identity to choose. *)
LEMMA FreshIdUnused ==
  ASSUME Room
  PROVE  FreshId \in MessageIds /\ Unused(FreshId)
BY DEF Room, FreshId

(* A retry copy is a message of the same event with the next attempt. *)
LEMMA RetryCopyIsMessage ==
  ASSUME NEW m \in Message, ~OutOfRetries(m), Room
  PROVE  /\ RetryCopy(m) \in Message
         /\ RetryCopy(m).id = FreshId
         /\ RetryCopy(m).order = m.order /\ RetryCopy(m).body = m.body
         /\ RetryCopy(m).attempt = m.attempt + 1
<1>1. m.attempt \in Nat /\ m.attempt + 1 \in Attempt
  BY BrokerAssumption DEF OutOfRetries, RetryAttempt, Message, Attempt
<1>2. FreshId \in MessageIds
  BY FreshIdUnused
<1>3. RetryCopy(m) = [m EXCEPT !.id = FreshId, !.attempt = m.attempt + 1]
  BY DEF RetryCopy, NextAttempt, RetryAttempt
<1> QED
  BY <1>1, <1>2, <1>3 DEF Message

(* The handler's verdict is a place in the loop; a transient one is counted. *)
LEMMA FailsEffect ==
  ASSUME TypeOK, NEW c \in Consumers, NEW err, Fails(c, err), current[c] \in Message
  PROVE  /\ pc' = [pc EXCEPT ![c] = ClassifyFailure(err)]
         /\ ClassifyFailure(err) \in {"permanent", "transient"}
         /\ failures' \in [Orders -> Nat]
         /\ \A o \in Orders : failures'[o] >= failures[o]
         /\ ClassifyFailure(err) = "transient" =>
              failures'[current[c].order] = failures[current[c].order] + 1
<1>1. current[c].order \in Orders
  BY DEF Message
<1>2. failures \in [Orders -> Nat]
  BY DEF TypeOK
<1> QED
  BY <1>1, <1>2 DEF Fails, Goto, ClassifyFailure

-----------------------------------------------------------------------------
(* Type correctness. *)

(* No process, no session and no message at first. *)
LEMMA TypeInit == Init => TypeOK
<1> SUFFICES ASSUME Init
             PROVE  TypeOK
  OBVIOUS
<1>1. BrokerTypeOK
  BY EmptySeq DEF Init, BrokerInit, BrokerTypeOK
<1>2. LedgerTypeOK
  BY DEF Init, LedgerTypeOK, OrderStatus
<1> QED
  BY <1>1, <1>2, ConsumerAssumption DEF Init, ConsumerStateInit, TypeOK, Place

(* A process with a delivery in hand has a message. *)
LEMMA BusyHasMessage ==
  ASSUME TypeOK, LoopPlaces, NEW c \in Consumers, pc[c] \in Busy
  PROVE  current[c] \in Message /\ current[c].order \in Orders
BY DEF TypeOK, LoopPlaces, Message

(* The handler: only the place in the loop, the ledger and the counters
   change. *)
Handles(c) ==
  /\ pc[c] \in {"received", "pricing", "executing"}
  /\ \E place \in Busy \cup {"closing"} : pc' = [pc EXCEPT ![c] = place]
  /\ UNCHANGED <<brokerVars, inbox, current, linkUp, ctxDone, stops>>

(* A settlement: the delivery is done with, and its frame is sent. *)
Settles(c, op) ==
  /\ pc[c] \in Busy
  /\ NextDelivery(c, "select")
  /\ Send(c, op, current[c])
  /\ QueuesUnchanged
  /\ UNCHANGED <<ledgerVars, inbox, linkUp, ctxDone, stops, unheard, failures>>

(* The five steps of the handler have one shape. *)
LEMMA HandlerShape ==
  ASSUME NEW c \in Consumers,
         \/ StartHandling(c) \/ LookupPrice(c)
         \/ Claims(c) \/ ClaimsUnheard(c) \/ ClaimsNothing(c)
  PROVE  Handles(c)
<1> USE DEF Handles, Goto, Busy, Handling, boundVars, incidentVars
<1>1. CASE StartHandling(c)
  BY <1>1 DEF StartHandling, Fails, ClassifyFailure
<1>2. CASE LookupPrice(c)
  BY <1>2 DEF LookupPrice, Fails, ClassifyFailure
<1>3. CASE Claims(c)
  BY <1>3 DEF Claims
<1>4. CASE ClaimsUnheard(c)
  BY <1>4 DEF ClaimsUnheard, Fails, ClassifyFailure
<1>5. CASE ClaimsNothing(c)
  BY <1>5 DEF ClaimsNothing, Fails, ClassifyFailure
<1> QED
  BY <1>1, <1>2, <1>3, <1>4, <1>5

(* So have the four ways to settle a delivery. *)
LEMMA SettlementShape ==
  ASSUME NEW c \in Consumers
  PROVE  /\ AckSuccess(c) \/ AckAfterCopy(c) => Settles(c, "ack")
         /\ DeadLetter(c) => Settles(c, "reject")
         /\ PublishRetryFails(c) => Settles(c, "requeue")
BY DEF AckSuccess, AckAfterCopy, DeadLetter, PublishRetryFails, Settles, Busy,
       RejectWithoutRequeue, SettleUncopied, boundVars, incidentVars

(* A late outcome is only seen in the tables. *)
LEMMA LateElsewhere ==
  ASSUME NEW o, LateOutcome(o)
  PROVE  UNCHANGED <<bound, orderQueue, retryQueue, deadLetterQueue, session, unacked,
                     wire, routed, pc, inbox, current, linkUp, ctxDone, faults,
                     stops, failures>>
BY DEF LateOutcome, brokerVars, processVars, boundVars

(* There it executes its order, or nothing happens. *)
LEMMA LateEffect ==
  ASSUME TypeOK, NEW o \in Orders, LateOutcome(o)
  PROVE  /\ LedgerTypeOK' /\ unheard' \subseteq Orders
         /\ \A a \in Orders : \/ status'[a] = status[a]
                              \/ status[a] = "PENDING" /\ status'[a] = "EXECUTED"
<1>1. CASE ClaimOrder(o)
  BY <1>1 DEF LateOutcome, TypeOK, LedgerTypeOK, ClaimOrder, OrderStatus
<1>2. CASE UNCHANGED ledgerVars
  BY <1>2 DEF LateOutcome, TypeOK, LedgerTypeOK, ledgerVars
<1> QED
  BY <1>1, <1>2 DEF LateOutcome

(* Every step of the consumers and the broker keeps the types. *)
LEMMA TypeConsumerStep == TypeOK /\ LoopPlaces /\ ConsumerStep => TypeOK'
<1> SUFFICES ASSUME TypeOK, LoopPlaces, ConsumerStep
             PROVE  TypeOK'
  OBVIOUS
<1> USE DEF TypeOK, BrokerTypeOK, LedgerTypeOK
<1>1. ASSUME NEW m \in retryQueue, BrokerExpiresRetry(m)
      PROVE  TypeOK'
  BY <1>1 DEF BrokerExpiresRetry, RetryExpires, ledgerVars, consumerVars,
              processVars, boundVars, incidentVars
<1>2. ASSUME NEW c \in Consumers, Start(c)
      PROVE  TypeOK'
  BY <1>2 DEF Start, OpenSession, Goto, Place, ledgerVars, boundVars, incidentVars
<1>3. ASSUME NEW c \in Consumers, NEW m \in orderQueue, Deliver(c, m)
      PROVE  TypeOK'
  BY <1>3 DEF Deliver, Push, ledgerVars, boundVars, incidentVars
<1>4. ASSUME NEW c \in Consumers, Receive(c)
      PROVE  TypeOK'
  BY <1>4 DEF Receive, Goto, Place, brokerVars, ledgerVars, boundVars, incidentVars
<1>5. ASSUME NEW c \in Consumers, SeeShutdown(c) \/ SeeClosed(c)
      PROVE  TypeOK'
  BY <1>5 DEF SeeShutdown, SeeClosed, Goto, Place, brokerVars, ledgerVars, boundVars,
              incidentVars
<1>6. ASSUME NEW c \in Consumers,
             \/ StartHandling(c) \/ LookupPrice(c)
             \/ Claims(c) \/ ClaimsUnheard(c) \/ ClaimsNothing(c)
      PROVE  TypeOK'
  <2>1. Handles(c) /\ current[c] \in Message /\ current[c].order \in Orders
    BY <1>6, HandlerShape, BusyHasMessage DEF Handles, Busy, Handling
  <2>2. pc' \in [Consumers -> Place]
    BY <2>1 DEF Handles, Busy, Place, Handling
  <2>3. ClaimOrder(current[c].order) \/ UNCHANGED ledgerVars
    BY <1>6 DEF StartHandling, LookupPrice, Claims, ClaimsUnheard,
                ClaimsNothing, ledgerVars
  <2>6. LedgerTypeOK'
    <3>1. CASE ClaimOrder(current[c].order)
      BY <2>1, <3>1 DEF ClaimOrder, OrderStatus
    <3>2. CASE UNCHANGED ledgerVars
      BY <3>2 DEF ledgerVars
    <3> QED
      BY <2>3, <3>1, <3>2
  <2>4. failures' \in [Orders -> Nat]
    BY <1>6, <2>1, FailsEffect
    DEF StartHandling, LookupPrice, Claims, ClaimsUnheard, ClaimsNothing
  <2>5. faults' \in 0 .. MaxFaults
    BY <1>6, ConsumerAssumption
    DEF StartHandling, LookupPrice, Claims, ClaimsUnheard, ClaimsNothing, boundVars,
        incidentVars
  <2>7. unheard' \subseteq Orders
    BY <1>6, <2>1
    DEF StartHandling, LookupPrice, Claims, ClaimsUnheard, ClaimsNothing, incidentVars
  <2> QED
    BY <2>1, <2>2, <2>6, <2>4, <2>5, <2>7 DEF Handles, brokerVars
<1>7. ASSUME NEW c \in Consumers, NEW op \in {"ack", "reject", "requeue"},
             Settles(c, op), faults' \in 0 .. MaxFaults
      PROVE  TypeOK'
  <2>1. current[c] \in Message
    BY <1>7, BusyHasMessage DEF Settles
  <2>2. wire' \in [Consumers -> Seq(Frame)]
    <3>1. PICK m \in Message : m = current[c]
      BY <2>1
    <3>2. Send(c, op, m)
      BY <1>7, <3>1 DEF Settles
    <3>3. op \in {"publish", "ack", "reject", "requeue"}
      BY <1>7
    <3>4. wire \in [Consumers -> Seq(Frame)]
      OBVIOUS
    <3> HIDE DEF TypeOK, BrokerTypeOK, LedgerTypeOK
    <3> QED
      BY <3>2, <3>3, <3>4, SendEffect
  <2>3. pc' \in [Consumers -> Place] /\ current' \in [Consumers -> Message \cup {NoMessage}]
    BY <1>7 DEF Settles, NextDelivery, Goto, Place
  <2>4. BrokerTypeOK'
    BY <1>7, <2>2 DEF Settles, QueuesUnchanged
  <2>5. LedgerTypeOK'
    BY <1>7 DEF Settles, ledgerVars
  <2> QED
    BY <1>7, <2>3, <2>4, <2>5 DEF Settles
<1>8. ASSUME NEW c \in Consumers, AckSuccess(c) \/ AckAfterCopy(c) \/ DeadLetter(c)
      PROVE  TypeOK'
  BY <1>7, <1>8, SettlementShape
  DEF AckSuccess, AckAfterCopy, DeadLetter, boundVars, incidentVars
<1>9. ASSUME NEW c \in Consumers, PublishRetryFails(c)
      PROVE  TypeOK'
  <2>1. faults' \in 0 .. MaxFaults
    BY <1>9, ConsumerAssumption DEF PublishRetryFails
  <2> QED
    BY <1>7, <1>9, <2>1, SettlementShape
<1>10. ASSUME NEW c \in Consumers, PublishRetry(c)
       PROVE  TypeOK'
  <2>1. current[c] \in Message
    BY <1>10, BusyHasMessage DEF PublishRetry, Busy
  <2>2. RetryCopy(current[c]) \in Message
    BY <1>10, <2>1, RetryCopyIsMessage DEF PublishRetry
  <2>3. wire' \in [Consumers -> Seq(Frame)]
    BY <1>10, <2>2, SendEffect DEF PublishRetry, Send
  <2> QED
    BY <1>10, <2>3 DEF PublishRetry, Goto, Place, QueuesUnchanged, ledgerVars,
                       boundVars, incidentVars
<1>11. ASSUME NEW c \in Consumers, Signal(c)
       PROVE  TypeOK'
  BY <1>11, ConsumerAssumption DEF Signal, brokerVars, ledgerVars
<1>12. ASSUME NEW c \in Consumers, Exit(c)
       PROVE  TypeOK'
  BY <1>12 DEF Exit, NextDelivery, Goto, Place, brokerVars, ledgerVars, boundVars,
               incidentVars
<1>13. ASSUME NEW c \in Consumers, Crash(c)
       PROVE  TypeOK'
  BY <1>13, ConsumerAssumption
  DEF Crash, NextDelivery, Goto, Place, brokerVars, ledgerVars
<1>14. ASSUME NEW c \in Consumers, LoseConnection(c)
       PROVE  TypeOK'
  <2>1. inbox' \in [Consumers -> SUBSET Message]
    BY <1>14 DEF LoseConnection
  <2>2. BrokerTypeOK' /\ LedgerTypeOK'
    BY <1>14 DEF LoseConnection, brokerVars, ledgerVars
  <2>3. faults' \in 0 .. MaxFaults
    BY <1>14, ConsumerAssumption DEF LoseConnection
  <2> QED
    BY <1>14, <2>1, <2>2, <2>3 DEF LoseConnection
<1>15. ASSUME NEW c \in Consumers, BrokerEndsSession(c)
       PROVE  TypeOK'
  BY <1>15, EmptySeq DEF BrokerEndsSession, EndSession, ledgerVars, consumerVars,
                         processVars, boundVars, incidentVars
<1>16. ASSUME NEW c \in Consumers, BrokerHandlesFrame(c)
       PROVE  TypeOK'
  <2>1. /\ Head(wire[c]) \in Frame /\ Head(wire[c]).msg \in Message
        /\ Tail(wire[c]) \in Seq(Frame)
    BY <1>16, TailFrame DEF BrokerHandlesFrame, HandleFrame, Frame
  <2> QED
    BY <1>16, <2>1 DEF BrokerHandlesFrame, HandleFrame, ledgerVars,
                       consumerVars, processVars, boundVars, incidentVars
<1>17. ASSUME NEW o \in Orders, LateOutcome(o)
       PROVE  TypeOK'
  BY <1>17, LateEffect, LateElsewhere
<1> QED
  BY <1>17, <1>1, <1>2, <1>3, <1>4, <1>5, <1>6, <1>8, <1>9, <1>10, <1>11, <1>12,
     <1>13, <1>14, <1>15, <1>16 DEF ConsumerStep, ProcessStep

-----------------------------------------------------------------------------
(* Deliveries and sessions. *)

(* A settlement as the rest of the proofs use it. *)
LEMMA SettlesEffect ==
  ASSUME TypeOK, LoopPlaces, NEW c \in Consumers,
         NEW op \in {"ack", "reject", "requeue"}, Settles(c, op)
  PROVE  \E m \in Message :
           /\ m = current[c]
           /\ pc' = [pc EXCEPT ![c] = "select"]
           /\ current' = [current EXCEPT ![c] = NoMessage]
           /\ \A d \in Consumers \ {c} : wire'[d] = wire[d]
           /\ ~linkUp[c] => wire'[c] = wire[c]
           /\ linkUp[c] => wire'[c] = Append(wire[c], [op |-> op, msg |-> m])
<1>1. PICK m \in Message : m = current[c]
  BY BusyHasMessage DEF Settles
<1>2. Send(c, op, m)
  BY <1>1 DEF Settles
<1>3. wire \in [Consumers -> Seq(Frame)]
  BY DEF TypeOK, BrokerTypeOK
<1> QED
  BY <1>1, <1>2, <1>3, SendEffect DEF Settles, NextDelivery, Goto

(* What a retry publishes, in the same form. *)
LEMMA PublishEffect ==
  ASSUME TypeOK, LoopPlaces, NEW c \in Consumers, PublishRetry(c)
  PROVE  \E m, n \in Message :
           /\ m = current[c] /\ n.id = FreshId
           /\ n.order = m.order /\ n.body = m.body /\ n.attempt = m.attempt + 1
           /\ linkUp[c] /\ Unused(FreshId)
           /\ pc' = [pc EXCEPT ![c] = "copied"]
           /\ \A d \in Consumers \ {c} : wire'[d] = wire[d]
           /\ wire'[c] = Append(wire[c], [op |-> "publish", msg |-> n])
<1>1. PICK m \in Message : m = current[c]
  BY BusyHasMessage DEF PublishRetry, Busy
<1>2. /\ RetryCopy(m) \in Message /\ RetryCopy(m).id = FreshId
      /\ RetryCopy(m).order = m.order /\ RetryCopy(m).body = m.body
      /\ RetryCopy(m).attempt = m.attempt + 1
  BY <1>1, RetryCopyIsMessage DEF PublishRetry
<1>3. PICK n \in Message : n = RetryCopy(m)
  BY <1>2
<1>4. Send(c, "publish", n)
  BY <1>1, <1>3 DEF PublishRetry, Send
<1>5. wire \in [Consumers -> Seq(Frame)]
  BY DEF TypeOK, BrokerTypeOK
<1>6. linkUp[c] /\ Unused(FreshId) /\ pc' = [pc EXCEPT ![c] = "copied"]
  BY FreshIdUnused DEF PublishRetry, Goto
<1> QED
  BY <1>1, <1>2, <1>3, <1>4, <1>5, <1>6, SendEffect

(* The broker takes the first frame of a session. *)
LEMMA FrameEffect ==
  ASSUME TypeOK, NEW c \in Consumers, HandleFrame(c)
  PROVE  \E f \in Frame :
           /\ session[c] /\ wire[c] # <<>> /\ f = wire[c][1]
           /\ f.msg \in Message
           /\ retryQueue' = retryQueue \cup {x \in {f.msg} : f.op = "publish"}
           /\ deadLetterQueue' = deadLetterQueue \cup {x \in {f.msg} : f.op = "reject"}
           /\ orderQueue' = orderQueue \cup {x \in {f.msg} : f.op = "requeue"}
           /\ \A d \in Consumers \ {c} : unacked'[d] = unacked[d] /\ wire'[d] = wire[d]
           /\ unacked'[c] = unacked[c] \ {x \in {f.msg} : f.op # "publish"}
           /\ wire'[c] = Tail(wire[c])
           /\ UNCHANGED <<bound, session, routed>>
<1>1. wire[c] \in Seq(Frame) /\ wire[c] # <<>>
  BY DEF TypeOK, BrokerTypeOK, HandleFrame
<1>2. PICK f \in Frame : f = Head(wire[c]) /\ f = wire[c][1]
  BY <1>1, TailFrame
<1>3. f.msg \in Message
  BY DEF Frame
<1> QED
  BY <1>1, <1>2, <1>3 DEF HandleFrame, TypeOK, BrokerTypeOK

(* Every step keeps the loop in a place that fits what the process holds. *)
LEMMA LoopPlacesStep ==
  TypeOK /\ LoopPlaces /\ Sessions /\ HeldUnsettled /\ ConsumerStep => LoopPlaces'
<1> SUFFICES ASSUME TypeOK, LoopPlaces, Sessions, HeldUnsettled, ConsumerStep
             PROVE  LoopPlaces'
  OBVIOUS
<1> USE DEF TypeOK, LoopPlaces, Busy, Handling
<1>1. ASSUME NEW m \in retryQueue, BrokerExpiresRetry(m)
      PROVE  LoopPlaces'
  BY <1>1 DEF BrokerExpiresRetry, consumerVars, processVars
<1>2. ASSUME NEW c \in Consumers, Start(c)
      PROVE  LoopPlaces'
  BY <1>2 DEF Start, Goto
<1>3. ASSUME NEW c \in Consumers, NEW m \in orderQueue, Deliver(c, m)
      PROVE  LoopPlaces'
  <2>1. linkUp[c] /\ unacked[c] = {}
    BY <1>3 DEF Deliver, Push
  <2>2. current[c] = NoMessage /\ pc[c] # "down"
    BY <2>1 DEF HeldUnsettled, InHand
  <2> QED
    BY <1>3, <2>1, <2>2 DEF Deliver
<1>4. ASSUME NEW c \in Consumers, Receive(c)
      PROVE  LoopPlaces'
  BY <1>4, ConsumerAssumption DEF Receive, Goto
<1>5. ASSUME NEW c \in Consumers, SeeShutdown(c) \/ SeeClosed(c)
      PROVE  LoopPlaces'
  BY <1>5 DEF SeeShutdown, SeeClosed, Goto
<1>6. ASSUME NEW c \in Consumers,
             \/ StartHandling(c) \/ LookupPrice(c)
             \/ Claims(c) \/ ClaimsUnheard(c) \/ ClaimsNothing(c)
      PROVE  LoopPlaces'
  BY <1>6, HandlerShape DEF Handles
<1>7. ASSUME NEW c \in Consumers,
             AckSuccess(c) \/ AckAfterCopy(c) \/ DeadLetter(c) \/ PublishRetryFails(c)
      PROVE  LoopPlaces'
  BY <1>7, SettlementShape DEF Settles, NextDelivery, Goto
<1>10. ASSUME NEW c \in Consumers, PublishRetry(c)
       PROVE  LoopPlaces'
  BY <1>10 DEF PublishRetry, Goto
<1>11. ASSUME NEW c \in Consumers, Signal(c)
       PROVE  LoopPlaces'
  BY <1>11 DEF Signal
<1>12. ASSUME NEW c \in Consumers, Exit(c) \/ Crash(c)
       PROVE  LoopPlaces'
  BY <1>12 DEF Exit, Crash, NextDelivery, Goto
<1>14. ASSUME NEW c \in Consumers, LoseConnection(c)
       PROVE  LoopPlaces'
  BY <1>14 DEF LoseConnection
<1>15. ASSUME NEW c \in Consumers, BrokerEndsSession(c) \/ BrokerHandlesFrame(c)
       PROVE  LoopPlaces'
  BY <1>15 DEF BrokerEndsSession, BrokerHandlesFrame, consumerVars, processVars
<1>16. ASSUME NEW o \in Orders, LateOutcome(o)
       PROVE  LoopPlaces'
  BY <1>16, LateElsewhere
<1> QED
  BY <1>16, <1>1, <1>2, <1>3, <1>4, <1>5, <1>6, <1>7, <1>10, <1>11, <1>12, <1>14, <1>15
  DEF ConsumerStep, ProcessStep

(* The steps of the loop and of the process that send nothing and reach no
   result: the broker is not involved, and nothing comes into hand. *)
Proceeds(c) ==
  \/ Receive(c) \/ SeeShutdown(c) \/ SeeClosed(c) \/ Signal(c)
  \/ Exit(c) \/ Crash(c) \/ LoseConnection(c)

(* Such a step takes nothing into the hand of any process. *)
LEMMA ProceedsEffect ==
  ASSUME TypeOK, NEW c \in Consumers, Proceeds(c)
  PROVE  /\ UNCHANGED brokerVars
         /\ \A d \in Consumers :
              /\ linkUp'[d] => linkUp[d]
              /\ InHand(d)' \subseteq InHand(d)
<1>0. /\ linkUp \in [Consumers -> BOOLEAN]
      /\ inbox \in [Consumers -> SUBSET Message]
      /\ current \in [Consumers -> Message \cup {NoMessage}]
  BY DEF TypeOK
<1>1. CASE Receive(c)
  BY <1>0, <1>1 DEF Receive, InHand
<1>2. CASE SeeShutdown(c) \/ SeeClosed(c) \/ Signal(c)
  BY <1>2 DEF SeeShutdown, SeeClosed, Signal, InHand
<1>3. CASE Exit(c) \/ Crash(c)
  BY <1>0, <1>3 DEF Exit, Crash, NextDelivery, InHand
<1>4. CASE LoseConnection(c)
  <2>1. \A d \in Consumers : inbox'[d] \subseteq inbox[d]
    BY <1>0, <1>4 DEF LoseConnection
  <2> QED
    BY <1>0, <1>4, <2>1 DEF LoseConnection, InHand
<1> QED
  BY <1>1, <1>2, <1>3, <1>4 DEF Proceeds

(* The steps of a process by their shape. *)
LEMMA ProcessShape ==
  ASSUME NEW c \in Consumers, ProcessStep(c)
  PROVE  \/ Proceeds(c)
         \/ StartHandling(c) \/ LookupPrice(c)
         \/ Claims(c) \/ ClaimsUnheard(c) \/ ClaimsNothing(c)
         \/ \E op \in {"ack", "reject", "requeue"} : Settles(c, op)
         \/ PublishRetry(c)
<1>1. CASE AckSuccess(c) \/ AckAfterCopy(c) \/ DeadLetter(c) \/ PublishRetryFails(c)
  BY <1>1, SettlementShape
<1> QED
  BY <1>1 DEF ProcessStep, Proceeds

(* Only the arrival of an event puts an order among the routed ones. *)
LEMMA RoutedKept == ConsumerStep => routed' = routed
<1> SUFFICES ASSUME ConsumerStep
             PROVE  routed' = routed
  OBVIOUS
<1>1. ASSUME NEW m \in retryQueue, BrokerExpiresRetry(m)
      PROVE  routed' = routed
  BY <1>1 DEF BrokerExpiresRetry, RetryExpires
<1>2. ASSUME NEW c \in Consumers, Start(c) \/ BrokerEndsSession(c) \/ BrokerHandlesFrame(c)
      PROVE  routed' = routed
  BY <1>2 DEF Start, OpenSession, BrokerEndsSession, EndSession,
              BrokerHandlesFrame, HandleFrame
<1>3. ASSUME NEW c \in Consumers, NEW m \in orderQueue, Deliver(c, m)
      PROVE  routed' = routed
  BY <1>3 DEF Deliver, Push
<1>4. ASSUME NEW c \in Consumers, Proceeds(c)
      PROVE  routed' = routed
  BY <1>4 DEF Proceeds, Receive, SeeShutdown, SeeClosed, Signal, Exit, Crash,
              LoseConnection, brokerVars
<1>5. ASSUME NEW c \in Consumers, ProcessStep(c)
      PROVE  routed' = routed
  <2>1. CASE \/ StartHandling(c) \/ LookupPrice(c)
             \/ Claims(c) \/ ClaimsUnheard(c) \/ ClaimsNothing(c)
    BY <2>1, HandlerShape DEF Handles, brokerVars
  <2>2. CASE PublishRetry(c) \/ \E op \in {"ack", "reject", "requeue"} : Settles(c, op)
    BY <2>2 DEF PublishRetry, Settles, QueuesUnchanged
  <2> QED
    BY <1>4, <1>5, <2>1, <2>2, ProcessShape
<1>6. ASSUME NEW o \in Orders, LateOutcome(o)
      PROVE  routed' = routed
  BY <1>6, LateElsewhere
<1> QED
  BY <1>6, <1>1, <1>2, <1>3, <1>4, <1>5 DEF ConsumerStep, Proceeds

(* A process loses its connection by closing it, or by a fault. *)
LEMMA LinkLost ==
  ASSUME linkUp \in [Consumers -> BOOLEAN], ConsumerStep,
         NEW c \in Consumers, linkUp[c], ~linkUp'[c]
  PROVE  Exit(c) \/ Crash(c) \/ LoseConnection(c)
<1>1. linkUp' # linkUp
  OBVIOUS
<1>2. ASSUME NEW d \in Consumers, ProcessStep(d)
      PROVE  Exit(d)
  <2>1. CASE \/ StartHandling(d) \/ LookupPrice(d)
             \/ Claims(d) \/ ClaimsUnheard(d) \/ ClaimsNothing(d)
    BY <1>1, <2>1, HandlerShape DEF Handles
  <2>2. CASE PublishRetry(d) \/ \E op \in {"ack", "reject", "requeue"} : Settles(d, op)
    BY <1>1, <2>2 DEF PublishRetry, Settles
  <2>3. CASE Receive(d) \/ SeeShutdown(d) \/ SeeClosed(d)
    BY <1>1, <2>3 DEF Receive, SeeShutdown, SeeClosed
  <2>4. CASE AckSuccess(d) \/ AckAfterCopy(d) \/ DeadLetter(d) \/ PublishRetryFails(d)
    BY <2>2, <2>4, SettlementShape
  <2> QED
    BY <1>2, <2>1, <2>2, <2>3, <2>4 DEF ProcessStep
<1>3. ~\E m \in retryQueue : BrokerExpiresRetry(m)
  BY <1>1 DEF BrokerExpiresRetry, consumerVars, processVars
<1>4. ASSUME NEW d \in Consumers
      PROVE  ~Signal(d) /\ ~BrokerEndsSession(d) /\ ~BrokerHandlesFrame(d)
  BY <1>1 DEF Signal, BrokerEndsSession, BrokerHandlesFrame, consumerVars, processVars
<1>5. ASSUME NEW d \in Consumers
      PROVE  ~Start(d) /\ ~\E m \in orderQueue : Deliver(d, m)
  BY <1>1 DEF Start, Deliver
<1>9. ~\E o \in Orders : LateOutcome(o)
  BY <1>1, LateElsewhere
<1>6. PICK d \in Consumers : Exit(d) \/ Crash(d) \/ LoseConnection(d)
  BY <1>2, <1>3, <1>4, <1>5, <1>9 DEF ConsumerStep
<1>7. linkUp' = [linkUp EXCEPT ![d] = FALSE]
  BY <1>6 DEF Exit, Crash, LoseConnection
<1>8. d = c
  BY <1>7
<1> QED
  BY <1>6, <1>8

(* A process that is down stays so until it is started. *)
LEMMA DownStays ==
  ASSUME pc \in [Consumers -> Place], ConsumerStep,
         NEW c \in Consumers, pc[c] = "down", ~Start(c)
  PROVE  pc'[c] = "down"
<1>1. ASSUME NEW d \in Consumers, NEW place, pc' = [pc EXCEPT ![d] = place],
             d = c => place = "down"
      PROVE  pc'[c] = "down"
  BY <1>1
<1>2. CASE UNCHANGED pc
  BY <1>2
<1>3. ASSUME NEW d \in Consumers, ProcessStep(d)
      PROVE  pc'[c] = "down"
  <2>1. CASE \/ StartHandling(d) \/ LookupPrice(d)
             \/ Claims(d) \/ ClaimsUnheard(d) \/ ClaimsNothing(d)
    <3>1. d # c /\ \E place : pc' = [pc EXCEPT ![d] = place]
      BY <2>1, HandlerShape DEF Handles
    <3> QED
      BY <1>1, <3>1
  <2>2. CASE \E op \in {"ack", "reject", "requeue"} : Settles(d, op)
    <3>1. d # c /\ pc' = [pc EXCEPT ![d] = "select"]
      BY <2>2 DEF Settles, Busy, Handling, NextDelivery, Goto
    <3> QED
      BY <1>1, <3>1
  <2>3. CASE PublishRetry(d)
    <3>1. d # c /\ pc' = [pc EXCEPT ![d] = "copied"]
      BY <2>3 DEF PublishRetry, Goto
    <3> QED
      BY <1>1, <3>1
  <2>4. CASE Receive(d) \/ SeeShutdown(d) \/ SeeClosed(d)
    <3>1. d # c /\ \E place : pc' = [pc EXCEPT ![d] = place]
      BY <2>4 DEF Receive, SeeShutdown, SeeClosed, Goto
    <3> QED
      BY <1>1, <3>1
  <2>5. CASE Exit(d)
    <3>1. pc' = [pc EXCEPT ![d] = "down"]
      BY <2>5 DEF Exit, NextDelivery, Goto
    <3> QED
      BY <1>1, <3>1
  <2>6. CASE AckSuccess(d) \/ AckAfterCopy(d) \/ DeadLetter(d) \/ PublishRetryFails(d)
    BY <2>2, <2>6, SettlementShape
  <2> QED
    BY <1>3, <2>1, <2>3, <2>4, <2>5, <2>6 DEF ProcessStep
<1>4. ASSUME NEW m \in retryQueue, BrokerExpiresRetry(m)
      PROVE  pc'[c] = "down"
  BY <1>2, <1>4 DEF BrokerExpiresRetry, consumerVars, processVars
<1>5. ASSUME NEW d \in Consumers, Start(d)
      PROVE  pc'[c] = "down"
  <2>1. d # c /\ pc' = [pc EXCEPT ![d] = "select"]
    BY <1>5 DEF Start, Goto
  <2> QED
    BY <1>1, <2>1
<1>6. ASSUME NEW d \in Consumers, Crash(d)
      PROVE  pc'[c] = "down"
  <2>1. pc' = [pc EXCEPT ![d] = "down"]
    BY <1>6 DEF Crash, NextDelivery, Goto
  <2> QED
    BY <1>1, <2>1
<1>7. ASSUME NEW d \in Consumers,
             \/ Signal(d) \/ LoseConnection(d)
             \/ BrokerEndsSession(d) \/ BrokerHandlesFrame(d)
             \/ \E m \in orderQueue : Deliver(d, m)
      PROVE  pc'[c] = "down"
  BY <1>2, <1>7 DEF Signal, LoseConnection, BrokerEndsSession, BrokerHandlesFrame,
                    Deliver, consumerVars, processVars
<1>8. ASSUME NEW o \in Orders, LateOutcome(o)
      PROVE  pc'[c] = "down"
  BY <1>2, <1>8, LateElsewhere
<1> QED
  BY <1>8, <1>3, <1>4, <1>5, <1>6, <1>7 DEF ConsumerStep

(* Sessions stay in step with connections and deliver one message at a time. *)
LEMMA SessionsStep ==
  TypeOK /\ LoopPlaces /\ Sessions /\ ConsumerStep => Sessions'
<1> SUFFICES ASSUME TypeOK, LoopPlaces, Sessions, ConsumerStep
             PROVE  Sessions'
  OBVIOUS
<1>0. /\ session \in [Consumers -> BOOLEAN] /\ linkUp \in [Consumers -> BOOLEAN]
      /\ unacked \in [Consumers -> SUBSET Message]
      /\ wire \in [Consumers -> Seq(Frame)]
  BY DEF TypeOK, BrokerTypeOK
<1>1. ASSUME NEW m \in retryQueue, BrokerExpiresRetry(m)
      PROVE  Sessions'
  BY <1>1 DEF BrokerExpiresRetry, RetryExpires, consumerVars, processVars, Sessions
<1>2. ASSUME NEW c \in Consumers, Start(c)
      PROVE  Sessions'
  BY <1>0, <1>2 DEF Start, OpenSession, Sessions
<1>3. ASSUME NEW c \in Consumers, NEW m \in orderQueue, Deliver(c, m)
      PROVE  Sessions'
  BY <1>0, <1>3 DEF Deliver, Push, Sessions
<1>4. ASSUME NEW c \in Consumers, Proceeds(c)
      PROVE  Sessions'
  BY <1>0, <1>4, ProceedsEffect DEF brokerVars, Sessions
<1>5. ASSUME NEW c \in Consumers,
             \/ StartHandling(c) \/ LookupPrice(c)
             \/ Claims(c) \/ ClaimsUnheard(c) \/ ClaimsNothing(c)
      PROVE  Sessions'
  BY <1>5, HandlerShape DEF Handles, brokerVars, Sessions
<1>6. ASSUME NEW c \in Consumers, NEW op \in {"ack", "reject", "requeue"}, Settles(c, op)
      PROVE  Sessions'
  BY <1>0, <1>6, SettlesEffect DEF Settles, QueuesUnchanged, Sessions
<1>7. ASSUME NEW c \in Consumers, PublishRetry(c)
      PROVE  Sessions'
  <2>1. linkUp[c] /\ \A d \in Consumers \ {c} : wire'[d] = wire[d]
    BY <1>7, PublishEffect
  <2>2. UNCHANGED <<session, unacked, linkUp>>
    BY <1>7 DEF PublishRetry, QueuesUnchanged
  <2> QED
    BY <1>0, <2>1, <2>2 DEF Sessions
<1>8. ASSUME NEW c \in Consumers, BrokerEndsSession(c)
      PROVE  Sessions'
  BY <1>0, <1>8 DEF BrokerEndsSession, EndSession, consumerVars, processVars, Sessions
<1>9. ASSUME NEW c \in Consumers, BrokerHandlesFrame(c)
      PROVE  Sessions'
  <2>1. UNCHANGED <<session, linkUp>>
    BY <1>9, FrameEffect DEF BrokerHandlesFrame, consumerVars, processVars
  <2>2. session[c] /\ unacked'[c] \subseteq unacked[c]
    BY <1>9, FrameEffect DEF BrokerHandlesFrame
  <2>3. \A d \in Consumers \ {c} : unacked'[d] = unacked[d] /\ wire'[d] = wire[d]
    BY <1>9, FrameEffect DEF BrokerHandlesFrame
  <2> QED
    BY <1>0, <2>1, <2>2, <2>3 DEF Sessions
<1>10. ASSUME NEW c \in Consumers, ProcessStep(c)
       PROVE  Sessions'
  BY <1>4, <1>5, <1>6, <1>7, <1>10, ProcessShape
<1>11. ASSUME NEW o \in Orders, LateOutcome(o)
       PROVE  Sessions'
  BY <1>11, LateElsewhere DEF Sessions
<1> QED
  BY <1>11, <1>1, <1>2, <1>3, <1>4, <1>8, <1>9, <1>10 DEF ConsumerStep, Proceeds

(* Settlements a session has not handled come from one delivery. *)
LEMMA SettlementsOfOne ==
  ASSUME TypeOK, Sessions, SettledOnce, NEW c \in Consumers,
         NEW i \in DOMAIN wire[c], NEW j \in DOMAIN wire[c],
         Settlement(wire[c][i]), Settlement(wire[c][j])
  PROVE  /\ session[c]
         /\ wire[c][i].msg \in unacked[c]
         /\ i = j
<1>1. wire[c] # <<>>
  BY DEF TypeOK, BrokerTypeOK
<1>2. session[c]
  BY <1>1 DEF Sessions
<1> QED
  BY <1>2 DEF SettledOnce, Sessions, Settlement

(* Whatever a connected process holds stays unsettled, and nothing is settled
   twice. *)
LEMMA HeldSettledStep ==
  Bookkeeping /\ ConsumerStep => HeldUnsettled' /\ SettledOnce'
<1> SUFFICES ASSUME Bookkeeping, ConsumerStep
             PROVE  HeldUnsettled' /\ SettledOnce'
  OBVIOUS
<1> USE DEF Bookkeeping
<1>0. /\ session \in [Consumers -> BOOLEAN] /\ linkUp \in [Consumers -> BOOLEAN]
      /\ unacked \in [Consumers -> SUBSET Message]
      /\ wire \in [Consumers -> Seq(Frame)]
      /\ inbox \in [Consumers -> SUBSET Message]
      /\ current \in [Consumers -> Message \cup {NoMessage}]
      /\ pc \in [Consumers -> Place]
  BY DEF TypeOK, BrokerTypeOK
<1> USE DEF HeldUnsettled, SettledOnce, InHand, Settling, Settlement
<1>1. ASSUME NEW m \in retryQueue, BrokerExpiresRetry(m)
      PROVE  HeldUnsettled' /\ SettledOnce'
  BY <1>1 DEF BrokerExpiresRetry, RetryExpires, consumerVars, processVars
<1>2. ASSUME NEW c \in Consumers, Start(c)
      PROVE  HeldUnsettled' /\ SettledOnce'
  <2>1. inbox[c] = {} /\ current[c] = NoMessage /\ wire[c] = <<>>
    BY <1>2 DEF Start, OpenSession, LoopPlaces, Sessions
  <2>2. UNCHANGED <<inbox, current, wire, unacked>>
    BY <1>2 DEF Start, OpenSession
  <2>3. \A d \in Consumers \ {c} : linkUp'[d] = linkUp[d] /\ session'[d] = session[d]
    BY <1>0, <1>2 DEF Start, OpenSession
  <2> QED
    BY <2>1, <2>2, <2>3
<1>3. ASSUME NEW c \in Consumers, NEW m \in orderQueue, Deliver(c, m)
      PROVE  HeldUnsettled' /\ SettledOnce'
  BY <1>0, <1>3 DEF Deliver, Push
<1>4. ASSUME NEW c \in Consumers, Proceeds(c)
      PROVE  HeldUnsettled' /\ SettledOnce'
  <2>1. /\ UNCHANGED <<session, unacked, wire>>
        /\ \A d \in Consumers : /\ linkUp'[d] => linkUp[d]
                                /\ InHand(d)' \subseteq InHand(d)
    BY <1>4, ProceedsEffect DEF brokerVars
  <2>2. SettledOnce'
    BY <2>1
  <2>3. HeldUnsettled'
    BY ONLY HeldUnsettled, <2>1 DEF HeldUnsettled, Settling, Settlement
  <2> QED
    BY <2>2, <2>3
<1>5. ASSUME NEW c \in Consumers,
             \/ StartHandling(c) \/ LookupPrice(c)
             \/ Claims(c) \/ ClaimsUnheard(c) \/ ClaimsNothing(c)
      PROVE  HeldUnsettled' /\ SettledOnce'
  BY <1>5, HandlerShape DEF Handles, brokerVars
<1>6. ASSUME NEW c \in Consumers, NEW op \in {"ack", "reject", "requeue"}, Settles(c, op)
      PROVE  HeldUnsettled' /\ SettledOnce'
  <2>1. PICK m \in Message :
           /\ m = current[c]
           /\ pc' = [pc EXCEPT ![c] = "select"]
           /\ current' = [current EXCEPT ![c] = NoMessage]
           /\ \A d \in Consumers \ {c} : wire'[d] = wire[d]
           /\ ~linkUp[c] => wire'[c] = wire[c]
           /\ linkUp[c] => wire'[c] = Append(wire[c], [op |-> op, msg |-> m])
    BY <1>6, SettlesEffect
  <2>2. m # NoMessage /\ inbox[c] = {}
    BY <1>6, <2>1, ConsumerAssumption DEF LoopPlaces
  <2>3. HeldUnsettled'
    BY <1>0, <1>6, <2>1, <2>2 DEF Settles, QueuesUnchanged
  <2>4. linkUp[c] => m \in unacked[c] /\ ~Settling(c)
    BY <2>1, <2>2
  <2>5. [op |-> op, msg |-> m] \in Frame
    BY DEF Frame
  <2>6. UNCHANGED <<session, unacked>>
    BY <1>6 DEF Settles, QueuesUnchanged
  <2>7. ASSUME linkUp[c], session[c]
        PROVE  \A i, j \in DOMAIN wire'[c] :
                 Settlement(wire'[c][i]) /\ Settlement(wire'[c][j]) =>
                   wire'[c][i].msg \in unacked[c] /\ i = j
    <3>1. /\ DOMAIN wire[c] = 1 .. Len(wire[c])
          /\ DOMAIN wire'[c] = 1 .. Len(wire[c]) + 1
          /\ Len(wire[c]) \in Nat
          /\ \A i \in DOMAIN wire[c] : wire'[c][i] = wire[c][i]
          /\ wire'[c][Len(wire[c]) + 1] = [op |-> op, msg |-> m]
      BY <1>0, <2>1, <2>5, <2>7, AppendFrame
    <3>2. \A i \in DOMAIN wire'[c] :
            Settlement(wire'[c][i]) => i = Len(wire[c]) + 1
      BY <2>4, <2>7, <3>1
    <3> QED
      BY <2>4, <2>7, <3>1, <3>2
  <2>8. SettledOnce'
    BY <2>1, <2>6, <2>7
  <2> QED
    BY <2>3, <2>8
<1>7. ASSUME NEW c \in Consumers, PublishRetry(c)
      PROVE  HeldUnsettled' /\ SettledOnce'
  <2>1. PICK n \in Message :
           /\ \A d \in Consumers \ {c} : wire'[d] = wire[d]
           /\ wire'[c] = Append(wire[c], [op |-> "publish", msg |-> n])
    BY <1>7, PublishEffect
  <2>2. [op |-> "publish", msg |-> n] \in Frame
    BY DEF Frame
  <2>3. /\ DOMAIN wire[c] = 1 .. Len(wire[c])
        /\ DOMAIN wire'[c] = 1 .. Len(wire[c]) + 1
        /\ Len(wire[c]) \in Nat
        /\ \A i \in DOMAIN wire[c] : wire'[c][i] = wire[c][i]
        /\ ~Settlement(wire'[c][Len(wire[c]) + 1])
    BY <1>0, <2>1, <2>2, AppendFrame
  <2>4. \A i \in DOMAIN wire'[c] :
          Settlement(wire'[c][i]) => i \in DOMAIN wire[c] /\ wire'[c][i] = wire[c][i]
    BY <2>3
  <2>5. UNCHANGED <<session, unacked, inbox, current, linkUp>>
    BY <1>7 DEF PublishRetry, QueuesUnchanged
  <2>6. HeldUnsettled'
    <3>1. Settling(c)' => Settling(c)
      BY <2>4
    <3>2. \A d \in Consumers \ {c} : Settling(d)' => Settling(d)
      BY <2>1
    <3>3. \A d \in Consumers : InHand(d)' = InHand(d)
      BY <2>5
    <3> QED
      BY ONLY HeldUnsettled, <2>5, <3>1, <3>2, <3>3 DEF HeldUnsettled
  <2>7. SettledOnce'
    BY <2>1, <2>4, <2>5
  <2> QED
    BY <2>6, <2>7
<1>8. ASSUME NEW c \in Consumers, BrokerEndsSession(c)
      PROVE  HeldUnsettled' /\ SettledOnce'
  <2>1. UNCHANGED <<inbox, current, linkUp>> /\ ~linkUp[c] /\ ~session'[c]
    BY <1>0, <1>8 DEF BrokerEndsSession, EndSession, consumerVars, processVars
  <2>2. \A d \in Consumers \ {c} : /\ session'[d] = session[d]
                                   /\ unacked'[d] = unacked[d]
                                   /\ wire'[d] = wire[d]
    BY <1>0, <1>8 DEF BrokerEndsSession, EndSession
  <2>3. \A d \in Consumers : InHand(d)' = InHand(d)
    BY <2>1
  <2>4. \A d \in Consumers \ {c} : Settling(d)' = Settling(d)
    BY <2>2
  <2>5. HeldUnsettled'
    BY ONLY HeldUnsettled, <2>1, <2>2, <2>3, <2>4 DEF HeldUnsettled
  <2>6. SettledOnce'
    BY <2>1, <2>2
  <2> QED
    BY <2>5, <2>6
<1>9. ASSUME NEW c \in Consumers, BrokerHandlesFrame(c)
      PROVE  HeldUnsettled' /\ SettledOnce'
  <2>1. HandleFrame(c)
    BY <1>9 DEF BrokerHandlesFrame
  <2>2. PICK f \in Frame :
           /\ session[c] /\ wire[c] # <<>> /\ f = wire[c][1]
           /\ \A d \in Consumers \ {c} : unacked'[d] = unacked[d] /\ wire'[d] = wire[d]
           /\ unacked'[c] = unacked[c] \ {x \in {f.msg} : f.op # "publish"}
           /\ wire'[c] = Tail(wire[c])
           /\ UNCHANGED session
    BY <2>1, FrameEffect
  <2>3. /\ DOMAIN wire[c] = 1 .. Len(wire[c]) /\ 1 \in DOMAIN wire[c]
        /\ Len(wire[c]) \in Nat
        /\ \A i \in DOMAIN wire'[c] :
             i \in Nat \ {0} /\ i + 1 \in DOMAIN wire[c] /\ wire'[c][i] = wire[c][i + 1]
    BY <1>0, <2>2, TailFrame
  <2>4. Settlement(f) => \A i \in DOMAIN wire[c] : Settlement(wire[c][i]) => i = 1
    BY <2>2, <2>3, SettlementsOfOne
  <2>5. UNCHANGED <<pc, inbox, current, linkUp>>
    BY <1>9 DEF BrokerHandlesFrame, consumerVars, processVars
  <2>6. Settlement(f) /\ linkUp[c] => InHand(c) = {}
    BY <2>2, <2>3
  <2>7. HeldUnsettled'
    <3>1. ASSUME linkUp[c]
          PROVE  \A x \in InHand(c) : x \in unacked'[c] /\ ~Settling(c)'
      BY <2>2, <2>3, <2>5, <2>6, <3>1
    <3>2. \A d \in Consumers \ {c} : linkUp[d] =>
            \A x \in InHand(d) : x \in unacked'[d] /\ ~Settling(d)'
      BY <2>2
    <3> QED
      BY <2>5, <3>1, <3>2
  <2>8. SettledOnce'
    <3>1. ASSUME NEW i \in DOMAIN wire'[c], Settlement(wire'[c][i])
          PROVE  /\ wire'[c][i].msg \in unacked'[c]
                 /\ \A j \in DOMAIN wire'[c] : Settlement(wire'[c][j]) => i = j
      <4>1. i + 1 \in DOMAIN wire[c] /\ Settlement(wire[c][i + 1]) /\ i + 1 # 1
        BY <2>3, <3>1
      <4>2. ~Settlement(f)
        BY <2>4, <4>1
      <4>3. \A j \in DOMAIN wire'[c] : Settlement(wire'[c][j]) => i + 1 = j + 1
        BY <2>3, <4>1, SettlementsOfOne
      <4>4. wire[c][i + 1].msg \in unacked[c]
        BY <4>1, SettlementsOfOne
      <4> QED
        BY <2>2, <2>3, <4>2, <4>3, <4>4
    <3>2. \A d \in Consumers \ {c} :
            wire'[d] = wire[d] /\ unacked'[d] = unacked[d] /\ session'[d] = session[d]
      BY <2>2
    <3> QED
      BY <3>1, <3>2
  <2> QED
    BY <2>7, <2>8
<1>10. ASSUME NEW o \in Orders, LateOutcome(o)
       PROVE  HeldUnsettled' /\ SettledOnce'
  BY <1>10, LateElsewhere DEF HeldUnsettled, SettledOnce, InHand, Settling
<1> QED
  BY <1>10, <1>1, <1>2, <1>3, <1>4, <1>5, <1>6, <1>7, <1>8, <1>9, SettlementShape
  DEF ConsumerStep, ProcessStep, Proceeds

(* The message that an event becomes. *)
LEMMA RouteEffect ==
  ASSUME NEW o \in Orders, NEW body \in Bodies, RouteEvent(o, body)
  PROVE  \E m \in Message :
           /\ m.id = FreshId /\ Unused(FreshId)
           /\ m.order = o /\ m.body = body /\ m.attempt = 0
           /\ orderQueue' = orderQueue \cup {m}
           /\ routed' = routed \cup {o}
           /\ UNCHANGED <<bound, retryQueue, deadLetterQueue, session, unacked, wire>>
<1> DEFINE m == [id |-> FreshId, order |-> o, body |-> body, attempt |-> 0]
<1>1. FreshId \in MessageIds /\ Unused(FreshId)
  BY FreshIdUnused DEF RouteEvent
<1>2. m \in Message
  BY <1>1, BrokerAssumption DEF Message, Attempt
<1> QED
  BY <1>1, <1>2 DEF RouteEvent

(* The books are in order at first. *)
LEMMA BookkeepingInit ==
  ASSUME TypeOK, BrokerInit, ConsumerStateInit
  PROVE  Bookkeeping
BY ConsumerAssumption
DEF BrokerInit, ConsumerStateInit, Bookkeeping, LoopPlaces, Sessions,
    HeldUnsettled, SettledOnce, InHand, Busy, Handling

(* They stay in order in every step of a consumer or the broker, *)
LEMMA BookkeepingStep == Bookkeeping /\ ConsumerStep => Bookkeeping'
BY TypeConsumerStep, LoopPlacesStep, SessionsStep, HeldSettledStep DEF Bookkeeping

(* when an event arrives, *)
LEMMA BookkeepingRoute ==
  ASSUME Bookkeeping, NEW o \in Orders, NEW body \in Bodies, RouteEvent(o, body),
         UNCHANGED <<ledgerVars, consumerVars>>
  PROVE  Bookkeeping'
<1>1. TypeOK'
  BY RouteEffect
  DEF Bookkeeping, TypeOK, BrokerTypeOK, LedgerTypeOK, ledgerVars, consumerVars,
      processVars, boundVars, incidentVars
<1>2. UNCHANGED <<session, unacked, wire>>
  BY RouteEffect
<1>3. LoopPlaces' /\ Sessions' /\ HeldUnsettled' /\ SettledOnce'
  BY <1>2
  DEF Bookkeeping, consumerVars, processVars, LoopPlaces, Sessions,
      HeldUnsettled, SettledOnce, InHand, Settling
<1> QED
  BY <1>1, <1>3 DEF Bookkeeping

(* and when nothing happens, or only the tables change. *)
LEMMA BookkeepingIdle ==
  ASSUME Bookkeeping, LedgerTypeOK', UNCHANGED <<brokerVars, consumerVars>>
  PROVE  Bookkeeping'
BY DEF Bookkeeping, TypeOK, BrokerTypeOK, brokerVars, consumerVars, processVars,
       boundVars, incidentVars, LoopPlaces, Sessions, HeldUnsettled, SettledOnce,
       InHand, Settling

(* What a process holds, what its session holds and what is on its way agree
   in every state. *)
LEMMA BookkeepingInvariant == Spec => []Bookkeeping
<1>1. Init => Bookkeeping
  BY TypeInit, BookkeepingInit DEF Init
<1>2. Bookkeeping /\ [Next]_vars => Bookkeeping'
  <2> SUFFICES ASSUME Bookkeeping, [Next]_vars
               PROVE  Bookkeeping'
    OBVIOUS
  <2>1. CASE \E o \in Orders : Announce(o)
    BY <2>1, BookkeepingRoute DEF Announce
  <2>2. CASE UNCHANGED vars
    <3>1. LedgerTypeOK'
      BY <2>2 DEF vars, ledgerVars, Bookkeeping, TypeOK, LedgerTypeOK
    <3> QED
      BY <2>2, <3>1, BookkeepingIdle DEF vars
  <2> QED
    BY <2>1, <2>2, BookkeepingStep DEF Next
<1> QED
  BY <1>1, <1>2, PTL DEF Spec

(* Type correctness of the consumer and the broker it uses. *)
THEOREM ConsumerTypeCorrect == Spec => []TypeOK
BY BookkeepingInvariant, PTL DEF Bookkeeping

(* No delivery is settled twice, which would be a channel error: whatever was
   in flight when a process or connection died and started again. *)
THEOREM DeliverySettledOnce == Spec => []SettledOnce
BY BookkeepingInvariant, PTL DEF Bookkeeping

-----------------------------------------------------------------------------
(* No order is lost. *)

(* An EXECUTED order stays EXECUTED. *)
LEMMA ExecutedStays ==
  ASSUME TypeOK, LoopPlaces, ConsumerStep, NEW o \in Orders, status[o] = "EXECUTED"
  PROVE  status'[o] = "EXECUTED"
<1>1. ASSUME NEW p, ClaimOrder(p)
      PROVE  status'[o] = "EXECUTED"
  BY <1>1 DEF ClaimOrder, TypeOK, LedgerTypeOK
<1>2. (\E p : ClaimOrder(p)) \/ UNCHANGED status
  BY DEF ConsumerStep, ProcessStep, BrokerExpiresRetry, Start, Deliver, Receive,
         SeeShutdown, SeeClosed, StartHandling, LookupPrice, Claims,
         ClaimsUnheard, ClaimsNothing, AckSuccess, DeadLetter, PublishRetry,
         PublishRetryFails, AckAfterCopy, Exit, Signal, Crash, LoseConnection,
         BrokerEndsSession, BrokerHandlesFrame, LateOutcome, ledgerVars
<1> QED
  BY <1>1, <1>2

(* The broker gives up no message except one that is acked, and then nothing
   else. *)
LEMMA KeptStep ==
  ASSUME Bookkeeping, ConsumerStep
  PROVE  \/ Kept \subseteq Kept'
         \/ \E c \in Consumers :
              /\ HandleFrame(c) /\ wire[c] # <<>> /\ wire[c][1].op = "ack"
              /\ Kept \ {wire[c][1].msg} \subseteq Kept'
<1>0. unacked \in [Consumers -> SUBSET Message] /\ TypeOK /\ LoopPlaces
  BY DEF Bookkeeping, TypeOK, BrokerTypeOK
<1> USE DEF Kept
<1>1. ASSUME NEW m \in retryQueue, BrokerExpiresRetry(m)
      PROVE  Kept \subseteq Kept'
  BY <1>1 DEF BrokerExpiresRetry, RetryExpires
<1>2. ASSUME NEW c \in Consumers, NEW m \in orderQueue, Deliver(c, m)
      PROVE  Kept \subseteq Kept'
  <2>1. unacked'[c] = {m} /\ \A d \in Consumers : unacked[d] \subseteq unacked'[d]
    BY <1>0, <1>2 DEF Deliver, Push
  <2>2. orderQueue' = orderQueue \ {m} /\ UNCHANGED <<retryQueue, deadLetterQueue>>
    BY <1>2 DEF Deliver, Push
  <2> QED
    BY <2>1, <2>2
<1>3. ASSUME NEW c \in Consumers, BrokerEndsSession(c)
      PROVE  Kept \subseteq Kept'
  <2>1. /\ orderQueue' = orderQueue \cup unacked[c]
        /\ UNCHANGED <<retryQueue, deadLetterQueue>>
        /\ \A d \in Consumers \ {c} : unacked'[d] = unacked[d]
    BY <1>0, <1>3 DEF BrokerEndsSession, EndSession
  <2> QED
    BY <2>1
<1>4. ASSUME NEW c \in Consumers, BrokerHandlesFrame(c)
      PROVE  \/ Kept \subseteq Kept'
             \/ /\ HandleFrame(c) /\ wire[c] # <<>> /\ wire[c][1].op = "ack"
                /\ Kept \ {wire[c][1].msg} \subseteq Kept'
  <2>1. HandleFrame(c)
    BY <1>4 DEF BrokerHandlesFrame
  <2>2. PICK f \in Frame :
           /\ wire[c] # <<>> /\ f = wire[c][1]
           /\ retryQueue' = retryQueue \cup {x \in {f.msg} : f.op = "publish"}
           /\ deadLetterQueue' = deadLetterQueue \cup {x \in {f.msg} : f.op = "reject"}
           /\ orderQueue' = orderQueue \cup {x \in {f.msg} : f.op = "requeue"}
           /\ \A d \in Consumers \ {c} : unacked'[d] = unacked[d]
           /\ unacked'[c] = unacked[c] \ {x \in {f.msg} : f.op # "publish"}
    BY <1>0, <2>1, FrameEffect
  <2>3. Kept \ {f.msg} \subseteq Kept'
    BY <2>2
  <2>4. f.op # "ack" => Kept \subseteq Kept'
    BY <2>2 DEF Frame
  <2> QED
    BY <2>1, <2>2, <2>3, <2>4
<1>5. ASSUME UNCHANGED <<orderQueue, retryQueue, deadLetterQueue, unacked>>
      PROVE  Kept \subseteq Kept'
  BY <1>5
<1>6. ASSUME NEW c \in Consumers, Start(c) \/ ProcessStep(c) \/ Signal(c) \/ Crash(c) \/ LoseConnection(c)
      PROVE  UNCHANGED <<orderQueue, retryQueue, deadLetterQueue, unacked>>
  BY <1>6 DEF Start, OpenSession, ProcessStep, Receive, SeeShutdown, SeeClosed,
         StartHandling, LookupPrice, Claims, ClaimsUnheard, ClaimsNothing,
         AckSuccess, DeadLetter, PublishRetry, PublishRetryFails, AckAfterCopy,
         Exit, Signal, Crash, LoseConnection, QueuesUnchanged, brokerVars
<1>7. ASSUME NEW o \in Orders, LateOutcome(o)
      PROVE  Kept \subseteq Kept'
  BY <1>5, <1>7, LateElsewhere
<1> QED
  BY <1>7, <1>1, <1>2, <1>3, <1>4, <1>5, <1>6 DEF ConsumerStep

(* What outlives a message is itself outlived before it goes. *)
LEMMA OutlivedStays ==
  ASSUME Bookkeeping, ResultKept, ConsumerStep, NEW m \in Message, Outlived(m)
  PROVE  Outlived(m)'
<1>0. m.order \in Orders /\ m.attempt \in Nat /\ TypeOK /\ LoopPlaces
  BY BrokerAssumption DEF Message, Attempt, Bookkeeping
<1>1. CASE status[m.order] = "EXECUTED"
  BY <1>0, <1>1, ExecutedStays DEF Outlived
<1>2. ASSUME NEW n \in Kept, n.order = m.order, n.attempt > m.attempt
      PROVE  Outlived(m)'
  <2>1. CASE n \in Kept'
    BY <1>2, <2>1 DEF Outlived
  <2>2. ASSUME n \notin Kept'
        PROVE  Outlived(m)'
    <3>1. PICK c \in Consumers :
             /\ wire[c] # <<>> /\ wire[c][1].op = "ack"
             /\ Kept \ {wire[c][1].msg} \subseteq Kept'
      BY <1>2, <2>2, KeptStep
    <3>2. wire[c][1].msg = n
      BY <1>2, <2>2, <3>1
    <3>3. 1 \in DOMAIN wire[c]
      BY <1>0, <3>1, TailFrame DEF TypeOK, BrokerTypeOK
    <3>4. Outlived(n)
      BY <3>1, <3>2, <3>3 DEF ResultKept, ResultKeptAt
    <3>5. CASE status[n.order] = "EXECUTED"
      BY <1>0, <1>2, <3>5, ExecutedStays DEF Outlived
    <3>6. ASSUME NEW k \in Kept, k.order = n.order, k.attempt > n.attempt
          PROVE  Outlived(m)'
      <4>1. k \in Message /\ n \in Message
        BY <1>0, <1>2, <3>6 DEF TypeOK, BrokerTypeOK, Kept
      <4>2. k.attempt \in Nat /\ n.attempt \in Nat
        BY <4>1, BrokerAssumption DEF Message, Attempt
      <4>3. k # n /\ k.attempt > m.attempt
        BY ONLY <1>0, <1>2, <3>6, <4>2
      <4>4. k \in Kept'
        BY <3>1, <3>2, <3>6, <4>3
      <4> QED
        BY <1>2, <3>6, <4>3, <4>4 DEF Outlived
    <3> QED
      BY <3>4, <3>5, <3>6 DEF Outlived
  <2> QED
    BY <2>1, <2>2
<1> QED
  BY <1>1, <1>2 DEF Outlived

(* Frames are about messages. *)
LEMMA FrameIsMessage ==
  ASSUME TypeOK, NEW c \in Consumers, NEW i \in DOMAIN wire[c]
  PROVE  /\ wire[c][i] \in Frame
         /\ wire[c][i].msg \in Message /\ wire[c][i].msg.order \in Orders
         /\ wire[c][i].msg.attempt \in Nat
<1>1. wire[c][i] \in Frame
  BY ElementOfSeq DEF TypeOK, BrokerTypeOK
<1>2. PICK m \in Message : m = wire[c][i].msg
  BY <1>1 DEF Frame
<1>3. m.order \in Orders /\ m.attempt \in Nat
  BY BrokerAssumption DEF Message, Attempt
<1> QED
  BY <1>1, <1>2, <1>3

(* A step undoes no result, and nothing that outlives a message goes without
   being outlived. *)
ResultsLast ==
  /\ \A o \in Orders : status[o] = "EXECUTED" => status'[o] = "EXECUTED"
  /\ \A m \in Message : Outlived(m) => Outlived(m)'

(* No step of the consumers or the broker does. *)
LEMMA ResultsLastStep ==
  ASSUME Bookkeeping, ResultKept, ConsumerStep
  PROVE  ResultsLast
BY ExecutedStays, OutlivedStays DEF ResultsLast, Bookkeeping

(* What a process has left behind is still there when it does nothing new. *)
LEMMA ResultKeptElsewhere ==
  ASSUME Bookkeeping, ResultKept, ResultsLast, NEW d \in Consumers,
         wire'[d] = wire[d],
         pc'[d] = "succeeded" =>
           \/ status'[current'[d].order] = "EXECUTED"
           \/ pc'[d] = pc[d] /\ current'[d] = current[d],
         pc'[d] = "copied" =>
           pc'[d] = pc[d] /\ current'[d] = current[d] /\ (linkUp'[d] => linkUp[d])
  PROVE  ResultKeptAt(d)'
<1>0. TypeOK /\ LoopPlaces
  BY DEF Bookkeeping
<1>1. pc'[d] = "succeeded" => status'[current'[d].order] = "EXECUTED"
  BY <1>0, BusyHasMessage DEF ResultsLast, ResultKept, ResultKeptAt, Busy
<1>2. ASSUME pc'[d] = "copied", linkUp'[d]
      PROVE  \/ Outlived(current[d])'
             \/ \E j \in DOMAIN wire'[d] : CopyOf(wire'[d][j], current'[d])
  <2>1. PICK m \in Message : m = current[d]
    BY <1>0, <1>2, BusyHasMessage DEF Busy
  <2>2. \/ Outlived(m)
        \/ \E j \in DOMAIN wire[d] : CopyOf(wire[d][j], m)
    BY <1>2, <2>1 DEF ResultKept, ResultKeptAt, Covered
  <2>3. Outlived(m) => Outlived(m)'
    BY DEF ResultsLast
  <2>4. current'[d] = m
    BY <1>2, <2>1
  <2>5. Outlived(m)' => Outlived(current[d])'
    BY <2>4 DEF Outlived
  <2>6. (\E j \in DOMAIN wire[d] : CopyOf(wire[d][j], m))
          => \E j \in DOMAIN wire'[d] : CopyOf(wire'[d][j], current'[d])
    BY <2>4
  <2> QED
    BY <2>2, <2>3, <2>5, <2>6
<1>3. ASSUME NEW i \in DOMAIN wire'[d], wire'[d][i].op = "ack"
      PROVE  \/ Outlived(wire[d][i].msg)'
             \/ \E j \in 1 .. i - 1 : CopyOf(wire'[d][j], wire'[d][i].msg)
  <2>1. PICK m \in Message : m = wire[d][i].msg
    BY <1>0, <1>3, FrameIsMessage
  <2>2. \/ Outlived(m)
        \/ \E j \in 1 .. i - 1 : CopyOf(wire[d][j], m)
    BY <1>3, <2>1 DEF ResultKept, ResultKeptAt
  <2>3. Outlived(m) => Outlived(m)'
    BY DEF ResultsLast
  <2>4. wire'[d][i].msg = m
    BY <2>1
  <2>5. Outlived(m)' => Outlived(wire[d][i].msg)'
    BY <2>4 DEF Outlived
  <2> QED
    BY <2>2, <2>3, <2>4, <2>5
<1> QED
  BY <1>1, <1>2, <1>3 DEF ResultKeptAt, Covered

(* A frame that is sent leaves behind what an ack needs: an ack that is sent
   finds its result or its copy, and frames sent before stay before it. *)
LEMMA ResultKeptSend ==
  ASSUME Bookkeeping, ResultKept, ConsumerStep, NEW c \in Consumers,
         NEW f \in Frame, wire'[c] = Append(wire[c], f),
         f.op = "ack" => Covered(c, f.msg),
         pc'[c] = "select" \/ (pc'[c] = "copied" /\ CopyOf(f, current'[c]))
  PROVE  ResultKeptAt(c)'
<1>0. /\ DOMAIN wire[c] = 1 .. Len(wire[c]) /\ Len(wire[c]) \in Nat
      /\ DOMAIN wire'[c] = 1 .. Len(wire[c]) + 1
      /\ \A i \in DOMAIN wire[c] : wire'[c][i] = wire[c][i]
      /\ wire'[c][Len(wire[c]) + 1] = f
  BY AppendFrame DEF Bookkeeping, TypeOK, BrokerTypeOK
<1>1. pc'[c] = "copied" => \E j \in DOMAIN wire'[c] : CopyOf(wire'[c][j], current'[c])
  BY <1>0
<1>2. ASSUME NEW i \in DOMAIN wire'[c], wire'[c][i].op = "ack"
      PROVE  \/ Outlived(wire[c][i].msg)'
             \/ \E j \in 1 .. i - 1 : CopyOf(wire'[c][j], wire'[c][i].msg)
  <2>1. i \in 1 .. Len(wire[c]) + 1
    BY <1>0
  <2>2. PICK m \in Message : m = wire'[c][i].msg
    <3>1. CASE i \in DOMAIN wire[c]
      BY <1>0, <3>1, FrameIsMessage DEF Bookkeeping
    <3>2. CASE i = Len(wire[c]) + 1
      BY <1>0, <3>2 DEF Frame
    <3> QED
      BY <1>0, <3>1, <3>2
  <2>3. \/ Outlived(m)
        \/ \E j \in 1 .. i - 1 : CopyOf(wire[c][j], m)
    <3>1. CASE i \in DOMAIN wire[c]
      BY <1>0, <1>2, <2>2, <3>1 DEF ResultKept, ResultKeptAt
    <3>2. CASE i = Len(wire[c]) + 1
      BY <1>0, <1>2, <2>2, <3>2 DEF Covered
    <3> QED
      BY <1>0, <3>1, <3>2
  <2>4. Outlived(m) => Outlived(m)'
    BY OutlivedStays
  <2>5. Outlived(m)' => Outlived(wire[c][i].msg)'
    BY <2>2 DEF Outlived
  <2>6. ASSUME NEW j \in 1 .. i - 1, CopyOf(wire[c][j], m)
        PROVE  CopyOf(wire'[c][j], wire'[c][i].msg)
    <3>1. j \in DOMAIN wire[c]
      BY <1>0, <2>1
    <3> QED
      BY <1>0, <2>2, <2>6, <3>1
  <2> QED
    BY <2>3, <2>4, <2>5, <2>6
<1> QED
  BY <1>1, <1>2 DEF ResultKeptAt, Covered

(* A frame that is handled leaves behind what the acks after it need: the
   copy it publishes is kept from then on. *)
LEMMA ResultKeptFrame ==
  ASSUME Bookkeeping, ResultKept, ConsumerStep, NEW c \in Consumers,
         BrokerHandlesFrame(c)
  PROVE  ResultKeptAt(c)'
<1>0. TypeOK /\ LoopPlaces /\ HandleFrame(c) /\ UNCHANGED <<pc, current, linkUp, status>>
  BY DEF Bookkeeping, BrokerHandlesFrame, ledgerVars, consumerVars, processVars
<1>1. PICK f \in Frame :
         /\ wire[c] # <<>> /\ f = wire[c][1] /\ f.msg \in Message
         /\ retryQueue' = retryQueue \cup {x \in {f.msg} : f.op = "publish"}
         /\ wire'[c] = Tail(wire[c])
  BY <1>0, FrameEffect
<1>2. /\ DOMAIN wire[c] = 1 .. Len(wire[c]) /\ Len(wire[c]) \in Nat
      /\ \A i \in DOMAIN wire'[c] :
           i \in Nat \ {0} /\ i + 1 \in DOMAIN wire[c] /\ wire'[c][i] = wire[c][i + 1]
      /\ DOMAIN wire'[c] = 1 .. Len(wire[c]) - 1
  BY <1>0, <1>1, TailFrame DEF TypeOK, BrokerTypeOK
<1>3. ASSUME NEW m \in Message, CopyOf(f, m)
      PROVE  Outlived(m)'
  <2>1. f.msg \in Kept'
    BY <1>1, <1>3 DEF CopyOf, Kept
  <2> QED
    BY <1>3, <2>1 DEF CopyOf, Outlived
<1>4. ASSUME NEW m \in Message, NEW i \in Nat, i <= Len(wire[c]),
             NEW j \in 1 .. i, CopyOf(wire[c][j], m)
      PROVE  \/ Outlived(m)'
             \/ \E k \in 1 .. i - 1 : CopyOf(wire'[c][k], m)
  <2>1. CASE j = 1
    BY <1>1, <1>3, <1>4, <2>1
  <2>2. CASE j # 1
    <3>1. j - 1 \in 1 .. i - 1 /\ j - 1 \in DOMAIN wire'[c] /\ j - 1 + 1 = j
      BY <1>2, <1>4, <2>2
    <3> QED
      BY <1>2, <1>4, <3>1
  <2> QED
    BY <2>1, <2>2
<1>5. pc'[c] = "succeeded" => status'[current'[c].order] = "EXECUTED"
  BY <1>0 DEF ResultKept, ResultKeptAt
<1>6. ASSUME pc'[c] = "copied", linkUp'[c]
      PROVE  \/ Outlived(current[c])'
             \/ \E j \in DOMAIN wire'[c] : CopyOf(wire'[c][j], current'[c])
  <2>1. PICK m \in Message : m = current[c]
    BY <1>0, <1>6, BusyHasMessage DEF Busy
  <2>2. \/ Outlived(m)
        \/ \E j \in 1 .. Len(wire[c]) : CopyOf(wire[c][j], m)
    BY <1>0, <1>2, <1>6, <2>1 DEF ResultKept, ResultKeptAt, Covered
  <2>3. Outlived(m) => Outlived(m)'
    BY OutlivedStays
  <2>4. Outlived(m)' => Outlived(current[c])'
    BY <1>0, <2>1 DEF Outlived
  <2>5. \/ Outlived(m)'
        \/ \E k \in 1 .. Len(wire[c]) - 1 : CopyOf(wire'[c][k], m)
    <3>1. CASE Outlived(m)
      BY <2>3, <3>1
    <3>2. ASSUME NEW j \in 1 .. Len(wire[c]), CopyOf(wire[c][j], m)
          PROVE  \/ Outlived(m)'
                 \/ \E k \in 1 .. Len(wire[c]) - 1 : CopyOf(wire'[c][k], m)
      <4>1. PICK n \in Nat : n = Len(wire[c])
        BY <1>2
      <4> QED
        BY <1>4, <3>2, <4>1
    <3> QED
      BY <2>2, <3>1, <3>2
  <2> QED
    BY <1>0, <1>2, <2>1, <2>4, <2>5
<1>7. ASSUME NEW i \in DOMAIN wire'[c], wire'[c][i].op = "ack"
      PROVE  \/ Outlived(wire[c][i].msg)'
             \/ \E j \in 1 .. i - 1 : CopyOf(wire'[c][j], wire'[c][i].msg)
  <2>1. i \in Nat /\ i + 1 \in DOMAIN wire[c] /\ wire'[c][i] = wire[c][i + 1]
    BY <1>2, <1>7
  <2>2. PICK m \in Message : m = wire[c][i + 1].msg
    BY <1>0, <2>1, FrameIsMessage
  <2>3. \/ Outlived(m)
        \/ \E j \in 1 .. (i + 1) - 1 : CopyOf(wire[c][j], m)
    BY <1>7, <2>1, <2>2 DEF ResultKept, ResultKeptAt
  <2>4. Outlived(m) => Outlived(m)'
    BY OutlivedStays
  <2>5. Outlived(m)' => Outlived(wire[c][i].msg)'
    BY <2>1, <2>2 DEF Outlived
  <2>6. (i + 1) - 1 = i /\ i <= Len(wire[c])
    BY <1>2, <2>1
  <2>7. \/ Outlived(m)'
        \/ \E k \in 1 .. i - 1 : CopyOf(wire'[c][k], m)
    BY <1>4, <2>1, <2>3, <2>4, <2>6
  <2> QED
    BY <2>1, <2>2, <2>5, <2>7
<1> QED
  BY <1>5, <1>6, <1>7 DEF ResultKeptAt, Covered

(* The place a settlement or a retry is made from says what it leaves. *)
LEMMA AckJustified ==
  ASSUME Bookkeeping, ResultKept, NEW c \in Consumers,
         AckSuccess(c) \/ (AckAfterCopy(c) /\ linkUp[c])
  PROVE  Covered(c, current[c])
BY DEF AckSuccess, AckAfterCopy, ResultKept, ResultKeptAt, Covered, Outlived

(* In every step: whatever is acked has left its result or its copy. *)
LEMMA ResultKeptStep ==
  ASSUME Bookkeeping, ResultKept, ConsumerStep
  PROVE  ResultKept'
<1>00. ResultsLast
  BY ResultsLastStep
<1>0. /\ TypeOK /\ LoopPlaces
      /\ pc \in [Consumers -> Place] /\ linkUp \in [Consumers -> BOOLEAN]
      /\ current \in [Consumers -> Message \cup {NoMessage}]
      /\ wire \in [Consumers -> Seq(Frame)]
  BY DEF Bookkeeping, TypeOK, BrokerTypeOK
<1>1. ASSUME NEW m \in retryQueue, BrokerExpiresRetry(m)
      PROVE  ResultKept'
  <2>1. UNCHANGED <<wire, pc, current, linkUp>>
    BY <1>1 DEF BrokerExpiresRetry, RetryExpires, consumerVars, processVars
  <2> QED
    BY <2>1, <1>00, ResultKeptElsewhere DEF ResultKept
<1>2. ASSUME NEW c \in Consumers,
             Start(c) \/ (\E m \in orderQueue : Deliver(c, m)) \/ Proceeds(c)
      PROVE  ResultKept'
  <2>1. UNCHANGED wire
    BY <1>2 DEF Start, OpenSession, Deliver, Push, Proceeds, Receive, SeeShutdown,
           SeeClosed, Signal, Exit, Crash, LoseConnection, brokerVars
  <2>2. ASSUME NEW d \in Consumers, pc'[d] \in {"succeeded", "copied"}
        PROVE  pc'[d] = pc[d] /\ current'[d] = current[d] /\ (linkUp'[d] => linkUp[d])
    BY <1>0, <1>2, <2>2 DEF Start, Deliver, Proceeds, Receive, SeeShutdown, SeeClosed,
           Signal, Exit, Crash, LoseConnection, Goto, NextDelivery
  <2> QED
    BY <2>1, <2>2, <1>00, ResultKeptElsewhere DEF ResultKept
<1>3. ASSUME NEW c \in Consumers,
             \/ StartHandling(c) \/ LookupPrice(c)
             \/ Claims(c) \/ ClaimsUnheard(c) \/ ClaimsNothing(c)
      PROVE  ResultKept'
  <2>1. UNCHANGED <<wire, current, linkUp>>
    BY <1>3, HandlerShape DEF Handles, brokerVars
  <2>2. pc'[c] # "copied" /\ (pc'[c] = "succeeded" => status'[current[c].order] = "EXECUTED")
    <3>1. CASE Claims(c)
      <4>1. current[c].order \in Orders
        BY <1>0, <3>1, BusyHasMessage DEF Claims, Busy, Handling
      <4> QED
        BY <1>0, <3>1, <4>1 DEF Claims, ClaimOrder, TypeOK, LedgerTypeOK, Goto
    <3>2. CASE ~Claims(c)
      BY <1>0, <1>3, <3>2 DEF StartHandling, LookupPrice, ClaimsUnheard, ClaimsNothing,
             Fails, ClassifyFailure, Goto, ledgerVars
    <3> QED
      BY <3>1, <3>2
  <2>3. \A d \in Consumers \ {c} : pc'[d] = pc[d]
    BY <1>0, <1>3, HandlerShape DEF Handles
  <2> QED
    BY <2>1, <2>2, <2>3, <1>00, ResultKeptElsewhere DEF ResultKept
<1>4. ASSUME NEW c \in Consumers, NEW op \in {"ack", "reject", "requeue"}, Settles(c, op),
             op = "ack" /\ linkUp[c] => Covered(c, current[c])
      PROVE  ResultKept'
  <2>1. PICK m \in Message :
           /\ m = current[c]
           /\ pc' = [pc EXCEPT ![c] = "select"]
           /\ current' = [current EXCEPT ![c] = NoMessage]
           /\ \A d \in Consumers \ {c} : wire'[d] = wire[d]
           /\ ~linkUp[c] => wire'[c] = wire[c]
           /\ linkUp[c] => wire'[c] = Append(wire[c], [op |-> op, msg |-> m])
    BY <1>0, <1>4, SettlesEffect
  <2>2. /\ pc'[c] = "select" /\ UNCHANGED linkUp
        /\ \A d \in Consumers \ {c} : pc'[d] = pc[d] /\ current'[d] = current[d]
    BY <1>0, <1>4, <2>1 DEF Settles
  <2>3. CASE ~linkUp[c]
    BY <2>1, <2>2, <2>3, <1>00, ResultKeptElsewhere DEF ResultKept
  <2>4. CASE linkUp[c]
    <3>1. PICK f \in Frame : f = [op |-> op, msg |-> m]
      BY DEF Frame
    <3>2. f.op = op /\ f.msg = m /\ wire'[c] = Append(wire[c], f)
      BY <2>1, <2>4, <3>1
    <3>3. f.op = "ack" => Covered(c, f.msg)
      BY <1>4, <2>1, <2>4, <3>2 DEF Covered, Outlived
    <3>4. wire'[c] = Append(wire[c], f) /\ pc'[c] = "select"
      BY <2>2, <3>2
    <3>5. ResultKeptAt(c)'
      BY <3>3, <3>4, ResultKeptSend
    <3> QED
      BY <2>1, <2>2, <3>5, <1>00, ResultKeptElsewhere DEF ResultKept
  <2> QED
    BY <2>3, <2>4
<1>5. ASSUME NEW c \in Consumers, AckSuccess(c) \/ AckAfterCopy(c)
      PROVE  ResultKept'
  <2>1. linkUp[c] => Covered(c, current[c])
    BY <1>5, AckJustified
  <2>2. Settles(c, "ack")
    BY <1>5, SettlementShape
  <2> QED
    BY <1>4, <2>1, <2>2
<1>6. ASSUME NEW c \in Consumers, DeadLetter(c) \/ PublishRetryFails(c)
      PROVE  ResultKept'
  BY <1>4, <1>6, SettlementShape
<1>7. ASSUME NEW c \in Consumers, PublishRetry(c)
      PROVE  ResultKept'
  <2>1. PICK m, n \in Message :
           /\ m = current[c] /\ n.id = FreshId
           /\ n.order = m.order /\ n.body = m.body /\ n.attempt = m.attempt + 1
           /\ linkUp[c] /\ Unused(FreshId)
           /\ pc' = [pc EXCEPT ![c] = "copied"]
           /\ \A d \in Consumers \ {c} : wire'[d] = wire[d]
           /\ wire'[c] = Append(wire[c], [op |-> "publish", msg |-> n])
    BY <1>0, <1>7, PublishEffect
  <2>2. UNCHANGED <<current, linkUp>>
    BY <1>7 DEF PublishRetry
  <2>3. PICK f \in Frame : f = [op |-> "publish", msg |-> n]
    BY DEF Frame
  <2>4. m.attempt \in Nat
    BY BrokerAssumption DEF Message, Attempt
  <2>5. f.op = "publish" /\ CopyOf(f, current'[c])
    BY <2>1, <2>2, <2>3, <2>4 DEF CopyOf
  <2>6. wire'[c] = Append(wire[c], f) /\ pc'[c] = "copied"
    BY <1>0, <2>1, <2>3
  <2>7. ResultKeptAt(c)'
    BY <2>5, <2>6, ResultKeptSend
  <2>8. \A d \in Consumers \ {c} : pc'[d] = pc[d]
    BY <1>0, <2>1
  <2> QED
    BY <2>1, <2>2, <2>7, <2>8, <1>00, ResultKeptElsewhere DEF ResultKept
<1>8. ASSUME NEW c \in Consumers, BrokerEndsSession(c)
      PROVE  ResultKept'
  <2>1. /\ UNCHANGED <<pc, current, linkUp, status>> /\ ~linkUp[c] /\ wire'[c] = <<>>
        /\ \A d \in Consumers \ {c} : wire'[d] = wire[d]
    BY <1>0, <1>8 DEF BrokerEndsSession, EndSession, ledgerVars, consumerVars,
                      processVars
  <2>2. ResultKeptAt(c)'
    BY <2>1 DEF ResultKept, ResultKeptAt
  <2> QED
    BY <2>1, <2>2, <1>00, ResultKeptElsewhere DEF ResultKept
<1>9. ASSUME NEW c \in Consumers, BrokerHandlesFrame(c)
      PROVE  ResultKept'
  <2>1. \A d \in Consumers \ {c} : wire'[d] = wire[d]
    BY <1>0, <1>9, FrameEffect DEF BrokerHandlesFrame
  <2>2. UNCHANGED <<pc, current, linkUp>>
    BY <1>9 DEF BrokerHandlesFrame, consumerVars, processVars
  <2>3. ResultKeptAt(c)'
    BY <1>9, ResultKeptFrame
  <2> QED
    BY <2>1, <2>2, <2>3, <1>00, ResultKeptElsewhere DEF ResultKept
<1>10. ASSUME NEW o \in Orders, LateOutcome(o)
       PROVE  ResultKept'
  BY <1>00, <1>10, LateElsewhere, ResultKeptElsewhere DEF ResultKept
<1> QED
  BY <1>10, <1>1, <1>2, <1>3, <1>5, <1>6, <1>7, <1>8, <1>9
  DEF ConsumerStep, ProcessStep, Proceeds

(* An order that is not EXECUTED keeps a message when it has one: the broker
   gives one up only for its result or for a later attempt. *)
LEMMA MessageStays ==
  ASSUME Bookkeeping, ResultKept, ConsumerStep, NEW m \in Kept,
         status'[m.order] # "EXECUTED"
  PROVE  \E n \in Kept' : n.order = m.order
<1>0. TypeOK /\ m \in Message
  BY DEF Bookkeeping, TypeOK, BrokerTypeOK, Kept
<1>1. CASE m \in Kept'
  BY <1>1
<1>2. ASSUME m \notin Kept'
      PROVE  \E n \in Kept' : n.order = m.order
  <2>1. PICK c \in Consumers :
          /\ wire[c] # <<>> /\ wire[c][1].op = "ack"
          /\ Kept \ {wire[c][1].msg} \subseteq Kept'
    BY <1>2, KeptStep
  <2>2. wire[c][1].msg = m
    BY <1>2, <2>1
  <2>3. 1 \in DOMAIN wire[c]
    BY <1>0, <2>1, TailFrame DEF TypeOK, BrokerTypeOK
  <2>4. Outlived(m)
    BY <2>1, <2>2, <2>3 DEF ResultKept, ResultKeptAt
  <2>5. Outlived(m)'
    BY <1>0, <2>4, OutlivedStays
  <2> QED
    BY <2>5 DEF Outlived
<1> QED
  BY <1>1, <1>2

(* No step of the consumers or the broker loses an order. *)
LEMMA OrderNotLostStep ==
  ASSUME Bookkeeping, ResultKept, OrderNotLost, ConsumerStep
  PROVE  OrderNotLost'
<1> SUFFICES ASSUME NEW o \in routed', status'[o] # "EXECUTED"
             PROVE  \E m \in Kept' : m.order = o
  BY DEF OrderNotLost
<1>1. routed' = routed /\ routed \subseteq Orders
  BY RoutedKept DEF Bookkeeping, TypeOK, BrokerTypeOK
<1>2. status[o] # "EXECUTED"
  BY <1>1, ExecutedStays DEF Bookkeeping
<1>3. PICK m \in Kept : m.order = o
  BY <1>1, <1>2 DEF OrderNotLost
<1> QED
  BY <1>3, MessageStays

(* Nothing was acked at first. *)
LEMMA ResultKeptInit ==
  ASSUME BrokerInit, ConsumerStateInit
  PROVE  ResultKept
BY DEF BrokerInit, ConsumerStateInit, ResultKept, ResultKeptAt

(* What was acked keeps its result while events arrive and rows are added. *)
LEMMA ResultKeptIdle ==
  ASSUME Bookkeeping, ResultKept, Kept \subseteq Kept',
         \A o \in Orders : status[o] = "EXECUTED" => status'[o] = "EXECUTED",
         UNCHANGED <<wire, pc, current, linkUp>>
  PROVE  ResultKept'
<1>1. ASSUME NEW m \in Message, Outlived(m)
      PROVE  Outlived(m)'
  BY <1>1 DEF Outlived, Message
<1>2. ResultsLast
  BY <1>1 DEF ResultsLast
<1> QED
  BY <1>2, ResultKeptElsewhere DEF ResultKept

(* Whatever crashes, disconnects or fails, the event of an order that was
   routed is settled for good only when the order is EXECUTED: until then a
   message of it stays with the broker. *)
THEOREM RoutedOrderNotLost == Spec => []OrderNotLost
<1> DEFINE Inv == Bookkeeping /\ ResultKept /\ OrderNotLost
<1>1. Init => Inv
  <2> SUFFICES ASSUME Init
               PROVE  Inv
    OBVIOUS
  <2>1. Bookkeeping
    BY TypeInit, BookkeepingInit DEF Init
  <2>2. ResultKept
    BY ResultKeptInit DEF Init
  <2>3. OrderNotLost
    BY DEF Init, BrokerInit, OrderNotLost
  <2> QED
    BY <2>1, <2>2, <2>3
<1>2. Inv /\ [Next]_vars => Inv'
  <2> SUFFICES ASSUME Inv, [Next]_vars
               PROVE  Inv'
    OBVIOUS
  <2>1. ASSUME NEW o \in Orders, Announce(o)
        PROVE  Inv'
    <3>1. PICK body \in Bodies : RouteEvent(o, body)
      BY <2>1 DEF Announce
    <3>2. UNCHANGED <<ledgerVars, consumerVars>>
      BY <2>1 DEF Announce
    <3>3. PICK m \in Message :
            /\ m.order = o /\ orderQueue' = orderQueue \cup {m}
            /\ routed' = routed \cup {o}
            /\ UNCHANGED <<bound, retryQueue, deadLetterQueue, session, unacked, wire>>
      BY <3>1, RouteEffect
    <3>4. Kept' = Kept \cup {m}
      BY <3>3 DEF Kept
    <3>5. Bookkeeping'
      BY <3>1, <3>2, BookkeepingRoute
    <3>6. UNCHANGED <<wire, pc, current, linkUp, status>>
      BY <3>2, <3>3 DEF ledgerVars, consumerVars, processVars
    <3>7. ResultKept'
      BY <3>4, <3>6, ResultKeptIdle
    <3>8. OrderNotLost'
      BY <3>3, <3>4, <3>6 DEF OrderNotLost
    <3> QED
      BY <3>5, <3>7, <3>8
  <2>2. CASE ConsumerStep
    BY <2>2, BookkeepingStep, ResultKeptStep, OrderNotLostStep
  <2>3. CASE UNCHANGED vars
    <3>1. Bookkeeping'
      <4>1. LedgerTypeOK'
        BY <2>3 DEF vars, ledgerVars, Bookkeeping, TypeOK, LedgerTypeOK
      <4> QED
        BY <2>3, <4>1, BookkeepingIdle DEF vars
    <3>2. UNCHANGED <<wire, pc, current, linkUp, status, routed>> /\ Kept' = Kept
      BY <2>3 DEF vars, ledgerVars, brokerVars, consumerVars, processVars, Kept
    <3>3. ResultKept'
      BY <3>2, ResultKeptIdle
    <3>4. OrderNotLost'
      BY <3>2 DEF OrderNotLost
    <3> QED
      BY <3>1, <3>3, <3>4
  <2> QED
    BY <2>1, <2>2, <2>3 DEF Next
<1> QED
  BY <1>1, <1>2, PTL DEF Spec

-----------------------------------------------------------------------------
(* Where frames, messages and verdicts come from. *)

(* A frame was on its way before, or is the retry copy, or settles the
   delivery in hand. *)
FrameFrom(c, f) ==
  \/ \E j \in DOMAIN wire[c] : f = wire[c][j]
  \/ /\ PublishRetry(c) /\ f.op = "publish" /\ f.msg.id = FreshId
     /\ f.msg.order = current[c].order /\ f.msg.body = current[c].body
     /\ f.msg.attempt = current[c].attempt + 1
  \/ /\ f.op # "publish" /\ f.msg = current[c] /\ pc[c] \in Busy
     /\ f.op = "reject" => DeadLetter(c)

(* No frame has another source. *)
LEMMA FrameSource ==
  ASSUME Bookkeeping, ConsumerStep, NEW d \in Consumers, NEW i \in DOMAIN wire'[d]
  PROVE  FrameFrom(d, wire'[d][i])
<1>0. TypeOK /\ LoopPlaces /\ wire \in [Consumers -> Seq(Frame)]
  BY DEF Bookkeeping, TypeOK, BrokerTypeOK
<1>1. ASSUME NEW m \in retryQueue, BrokerExpiresRetry(m)
      PROVE  wire'[d] = wire[d]
  BY <1>1 DEF BrokerExpiresRetry, RetryExpires
<1>2. ASSUME NEW c \in Consumers,
             Start(c) \/ (\E m \in orderQueue : Deliver(c, m)) \/ Proceeds(c)
      PROVE  wire'[d] = wire[d]
  BY <1>2 DEF Start, OpenSession, Deliver, Push, Proceeds, Receive, SeeShutdown,
         SeeClosed, Signal, Exit, Crash, LoseConnection, brokerVars
<1>3. ASSUME NEW c \in Consumers,
             \/ StartHandling(c) \/ LookupPrice(c)
             \/ Claims(c) \/ ClaimsUnheard(c) \/ ClaimsNothing(c)
      PROVE  wire'[d] = wire[d]
  BY <1>3, HandlerShape DEF Handles, brokerVars
<1>4. ASSUME NEW c \in Consumers, NEW op \in {"ack", "reject", "requeue"}, Settles(c, op),
             op = "reject" => DeadLetter(c)
      PROVE  FrameFrom(d, wire'[d][i])
  <2>1. PICK m \in Message :
           /\ m = current[c]
           /\ \A e \in Consumers \ {c} : wire'[e] = wire[e]
           /\ ~linkUp[c] => wire'[c] = wire[c]
           /\ linkUp[c] => wire'[c] = Append(wire[c], [op |-> op, msg |-> m])
    BY <1>0, <1>4, SettlesEffect
  <2>2. CASE wire'[d] = wire[d]
    BY <2>2 DEF FrameFrom
  <2>3. CASE d = c /\ linkUp[c]
    <3>1. PICK f \in Frame : f = [op |-> op, msg |-> m]
      BY DEF Frame
    <3>2. /\ DOMAIN wire[c] = 1 .. Len(wire[c])
          /\ DOMAIN wire'[c] = 1 .. Len(wire[c]) + 1
          /\ Len(wire[c]) \in Nat
          /\ \A j \in DOMAIN wire[c] : wire'[c][j] = wire[c][j]
          /\ wire'[c][Len(wire[c]) + 1] = f
      BY <1>0, <2>1, <2>3, <3>1, AppendFrame
    <3>3. CASE i \in DOMAIN wire[c]
      BY <2>3, <3>2, <3>3 DEF FrameFrom
    <3>4. CASE i = Len(wire[c]) + 1
      <4>1. wire'[d][i].op = op /\ wire'[d][i].msg = current[d] /\ pc[d] \in Busy
        BY <1>4, <2>1, <2>3, <3>1, <3>2, <3>4 DEF Settles
      <4> QED
        BY <1>4, <2>3, <4>1 DEF FrameFrom
    <3> QED
      BY <2>3, <3>2, <3>3, <3>4
  <2> QED
    BY <2>1, <2>2, <2>3
<1>5. ASSUME NEW c \in Consumers,
             AckSuccess(c) \/ AckAfterCopy(c) \/ DeadLetter(c) \/ PublishRetryFails(c)
      PROVE  FrameFrom(d, wire'[d][i])
  BY <1>4, <1>5, SettlementShape
<1>6. ASSUME NEW c \in Consumers, PublishRetry(c)
      PROVE  FrameFrom(d, wire'[d][i])
  <2>1. PICK m, n \in Message :
           /\ m = current[c] /\ n.id = FreshId
           /\ n.order = m.order /\ n.body = m.body /\ n.attempt = m.attempt + 1
           /\ linkUp[c] /\ Unused(FreshId)
           /\ pc' = [pc EXCEPT ![c] = "copied"]
           /\ \A e \in Consumers \ {c} : wire'[e] = wire[e]
           /\ wire'[c] = Append(wire[c], [op |-> "publish", msg |-> n])
    BY <1>0, <1>6, PublishEffect
  <2>2. CASE d # c
    BY <2>1, <2>2 DEF FrameFrom
  <2>3. CASE d = c
    <3>1. PICK f \in Frame : f = [op |-> "publish", msg |-> n]
      BY DEF Frame
    <3>2. /\ DOMAIN wire[c] = 1 .. Len(wire[c])
          /\ DOMAIN wire'[c] = 1 .. Len(wire[c]) + 1
          /\ Len(wire[c]) \in Nat
          /\ \A j \in DOMAIN wire[c] : wire'[c][j] = wire[c][j]
          /\ wire'[c][Len(wire[c]) + 1] = f
      BY <1>0, <2>1, <3>1, AppendFrame
    <3>3. CASE i \in DOMAIN wire[c]
      BY <2>3, <3>2, <3>3 DEF FrameFrom
    <3>4. CASE i = Len(wire[c]) + 1
      <4>1. wire'[d][i] = f
        BY <2>3, <3>2, <3>4
      <4>2. f.op = "publish" /\ f.msg = n
        BY <3>1
      <4> QED
        BY <1>6, <2>1, <2>3, <4>1, <4>2 DEF FrameFrom
    <3> QED
      BY <2>3, <3>2, <3>3, <3>4
  <2> QED
    BY <2>2, <2>3
<1>7. ASSUME NEW c \in Consumers, BrokerEndsSession(c)
      PROVE  FrameFrom(d, wire'[d][i])
  <2>1. wire'[c] = <<>> /\ (d # c => wire'[d] = wire[d])
    BY <1>0, <1>7 DEF BrokerEndsSession, EndSession
  <2>2. d # c
    BY <2>1
  <2> QED
    BY <2>1, <2>2 DEF FrameFrom
<1>8. ASSUME NEW c \in Consumers, BrokerHandlesFrame(c)
      PROVE  FrameFrom(d, wire'[d][i])
  <2>1. /\ wire[c] # <<>> /\ wire'[c] = Tail(wire[c])
        /\ \A e \in Consumers \ {c} : wire'[e] = wire[e]
    BY <1>0, <1>8, FrameEffect DEF BrokerHandlesFrame
  <2>2. CASE d # c
    BY <2>1, <2>2 DEF FrameFrom
  <2>3. CASE d = c
    <3>1. i + 1 \in DOMAIN wire[c] /\ wire'[c][i] = wire[c][i + 1]
      BY <1>0, <2>1, <2>3, TailFrame
    <3> QED
      BY <2>3, <3>1 DEF FrameFrom
  <2> QED
    BY <2>2, <2>3
<1>9. wire'[d] = wire[d] => FrameFrom(d, wire'[d][i])
  BY DEF FrameFrom
<1>10. ASSUME NEW o \in Orders, LateOutcome(o)
       PROVE  wire'[d] = wire[d]
  BY <1>10, LateElsewhere
<1> QED
  BY <1>10, <1>1, <1>2, <1>3, <1>5, <1>6, <1>7, <1>8, <1>9
  DEF ConsumerStep, ProcessStep, Proceeds

(* A verdict on a delivery, or the call of a dependency that leads to it, is
   there already or is reached by the handler. *)
LEMMA VerdictSource ==
  ASSUME Bookkeeping, ConsumerStep, NEW d \in Consumers,
         pc'[d] \in Handling \cup {"transient", "permanent"}
  PROVE  /\ current'[d] = current[d] /\ pc[d] \in Busy
         /\ \/ pc'[d] = pc[d]
            \/ StartHandling(d) \/ LookupPrice(d) \/ ClaimsUnheard(d) \/ ClaimsNothing(d)
<1>0. TypeOK /\ pc \in [Consumers -> Place] /\ current \in [Consumers -> Message \cup {NoMessage}]
  BY DEF Bookkeeping, TypeOK
<1> USE DEF Busy, Handling
<1>1. ASSUME NEW c \in Consumers,
             \/ StartHandling(c) \/ LookupPrice(c)
             \/ ClaimsUnheard(c) \/ ClaimsNothing(c)
      PROVE  /\ current'[d] = current[d] /\ pc[d] \in Busy
             /\ pc'[d] = pc[d] \/ d = c
  BY <1>0, <1>1, HandlerShape DEF Handles
<1>2. ASSUME UNCHANGED <<pc, current>>
      PROVE  current'[d] = current[d] /\ pc[d] \in Busy /\ pc'[d] = pc[d]
  BY <1>2
<1>3. ASSUME NEW c \in Consumers, Start(c) \/ Claims(c) \/ Proceeds(c)
      PROVE  current'[d] = current[d] /\ pc[d] \in Busy /\ pc'[d] = pc[d]
  BY <1>0, <1>3 DEF Start, Claims, Proceeds, Receive, SeeShutdown, SeeClosed,
         Signal, Exit, Crash, LoseConnection, Goto, NextDelivery
<1>4. ASSUME NEW c \in Consumers,
             \/ AckSuccess(c) \/ AckAfterCopy(c) \/ DeadLetter(c)
             \/ PublishRetry(c) \/ PublishRetryFails(c)
      PROVE  current'[d] = current[d] /\ pc[d] \in Busy /\ pc'[d] = pc[d]
  BY <1>0, <1>4 DEF AckSuccess, AckAfterCopy, DeadLetter, PublishRetry,
         PublishRetryFails, Goto, NextDelivery
<1>5. ASSUME NEW c \in Consumers,
             \/ \E m \in orderQueue : Deliver(c, m)
             \/ BrokerEndsSession(c) \/ BrokerHandlesFrame(c)
      PROVE  UNCHANGED <<pc, current>>
  BY <1>5 DEF Deliver, BrokerEndsSession, BrokerHandlesFrame, consumerVars, processVars
<1>6. ASSUME NEW m \in retryQueue, BrokerExpiresRetry(m)
      PROVE  UNCHANGED <<pc, current>>
  BY <1>6 DEF BrokerExpiresRetry, consumerVars, processVars
<1>7. ASSUME NEW o \in Orders, LateOutcome(o)
      PROVE  UNCHANGED <<pc, current>>
  BY <1>7, LateElsewhere
<1> QED
  BY <1>7, <1>1, <1>2, <1>3, <1>4, <1>5, <1>6 DEF ConsumerStep, ProcessStep, Proceeds

(* The broker's steps only move messages it keeps, apart from the copy that
   arrives; and only a reject brings one to the dead letter queue. *)
LEMMA KeptSource ==
  ASSUME Bookkeeping, ConsumerStep, NEW m
  PROVE  /\ m \in Kept' =>
              \/ m \in Kept
              \/ \E c \in Consumers :
                   /\ HandleFrame(c) /\ 1 \in DOMAIN wire[c]
                   /\ wire[c][1].op = "publish" /\ wire[c][1].msg = m
         /\ m \in deadLetterQueue' =>
              \/ m \in deadLetterQueue
              \/ \E c \in Consumers :
                   1 \in DOMAIN wire[c] /\ wire[c][1].op = "reject" /\ wire[c][1].msg = m
<1>0. unacked \in [Consumers -> SUBSET Message] /\ TypeOK /\ LoopPlaces
  BY DEF Bookkeeping, TypeOK, BrokerTypeOK
<1> USE DEF Kept
<1>1. ASSUME NEW n \in retryQueue, BrokerExpiresRetry(n)
      PROVE  Kept' \subseteq Kept /\ UNCHANGED deadLetterQueue
  BY <1>1 DEF BrokerExpiresRetry, RetryExpires
<1>2. ASSUME NEW c \in Consumers, NEW n \in orderQueue, Deliver(c, n)
      PROVE  Kept' \subseteq Kept /\ UNCHANGED deadLetterQueue
  <2>1. unacked'[c] = {n} /\ \A d \in Consumers \ {c} : unacked'[d] = unacked[d]
    BY <1>0, <1>2 DEF Deliver, Push
  <2>2. orderQueue' = orderQueue \ {n} /\ UNCHANGED <<retryQueue, deadLetterQueue>>
    BY <1>2 DEF Deliver, Push
  <2> QED
    BY <2>1, <2>2
<1>3. ASSUME NEW c \in Consumers, BrokerEndsSession(c)
      PROVE  Kept' \subseteq Kept /\ UNCHANGED deadLetterQueue
  <2>1. /\ orderQueue' = orderQueue \cup unacked[c]
        /\ UNCHANGED <<retryQueue, deadLetterQueue>>
        /\ \A d \in Consumers : unacked'[d] \subseteq unacked[d]
    BY <1>0, <1>3 DEF BrokerEndsSession, EndSession
  <2> QED
    BY <2>1
<1>4. ASSUME NEW c \in Consumers, BrokerHandlesFrame(c)
      PROVE  /\ m \in Kept' =>
                  \/ m \in Kept
                  \/ /\ HandleFrame(c) /\ 1 \in DOMAIN wire[c]
                     /\ wire[c][1].op = "publish" /\ wire[c][1].msg = m
             /\ m \in deadLetterQueue' =>
                  \/ m \in deadLetterQueue
                  \/ 1 \in DOMAIN wire[c] /\ wire[c][1].op = "reject" /\ wire[c][1].msg = m
  <2>1. HandleFrame(c)
    BY <1>4 DEF BrokerHandlesFrame
  <2>2. PICK f \in Frame :
           /\ session[c] /\ wire[c] # <<>> /\ f = wire[c][1]
           /\ retryQueue' = retryQueue \cup {x \in {f.msg} : f.op = "publish"}
           /\ deadLetterQueue' = deadLetterQueue \cup {x \in {f.msg} : f.op = "reject"}
           /\ orderQueue' = orderQueue \cup {x \in {f.msg} : f.op = "requeue"}
           /\ \A d \in Consumers \ {c} : unacked'[d] = unacked[d]
           /\ unacked'[c] = unacked[c] \ {x \in {f.msg} : f.op # "publish"}
    BY <1>0, <2>1, FrameEffect
  <2>3. 1 \in DOMAIN wire[c]
    BY <1>0, <2>2, TailFrame DEF TypeOK, BrokerTypeOK
  <2>4. f.op # "publish" => f.msg \in Kept
    BY <2>2, <2>3 DEF Bookkeeping, SettledOnce
  <2>5. Kept' \subseteq Kept \cup {f.msg}
    BY <2>2
  <2> QED
    BY <2>1, <2>2, <2>3, <2>4, <2>5
<1>5. ASSUME UNCHANGED <<orderQueue, retryQueue, deadLetterQueue, unacked>>
      PROVE  Kept' \subseteq Kept /\ UNCHANGED deadLetterQueue
  BY <1>5
<1>6. ASSUME NEW c \in Consumers, Start(c) \/ ProcessStep(c) \/ Signal(c) \/ Crash(c) \/ LoseConnection(c)
      PROVE  UNCHANGED <<orderQueue, retryQueue, deadLetterQueue, unacked>>
  BY <1>6 DEF Start, OpenSession, ProcessStep, Receive, SeeShutdown, SeeClosed,
         StartHandling, LookupPrice, Claims, ClaimsUnheard, ClaimsNothing,
         AckSuccess, DeadLetter, PublishRetry, PublishRetryFails, AckAfterCopy,
         Exit, Signal, Crash, LoseConnection, QueuesUnchanged, brokerVars
<1>7. ASSUME NEW o \in Orders, LateOutcome(o)
      PROVE  UNCHANGED <<orderQueue, retryQueue, deadLetterQueue, unacked>>
  BY <1>7, LateElsewhere
<1> QED
  BY <1>7, <1>1, <1>2, <1>3, <1>4, <1>5, <1>6 DEF ConsumerStep

(* What a process holds it held before, or comes from the queue. *)
LEMMA HeldSource ==
  ASSUME Bookkeeping, ConsumerStep, NEW d \in Consumers
  PROVE  InHand(d)' \subseteq InHand(d) \cup orderQueue
<1>0. /\ TypeOK /\ LoopPlaces
      /\ inbox \in [Consumers -> SUBSET Message]
      /\ current \in [Consumers -> Message \cup {NoMessage}]
  BY DEF Bookkeeping, TypeOK
<1>1. ASSUME UNCHANGED <<inbox, current>>
      PROVE  InHand(d)' \subseteq InHand(d)
  BY <1>1 DEF InHand
<1>2. ASSUME NEW c \in Consumers, NEW m \in orderQueue, Deliver(c, m)
      PROVE  InHand(d)' \subseteq InHand(d) \cup orderQueue
  BY <1>0, <1>2 DEF Deliver, InHand
<1>3. ASSUME NEW c \in Consumers, Proceeds(c)
      PROVE  InHand(d)' \subseteq InHand(d)
  BY <1>0, <1>3, ProceedsEffect
<1>4. ASSUME NEW c \in Consumers,
             \/ AckSuccess(c) \/ AckAfterCopy(c) \/ DeadLetter(c) \/ PublishRetryFails(c)
      PROVE  InHand(d)' \subseteq InHand(d)
  BY <1>0, <1>4 DEF AckSuccess, AckAfterCopy, DeadLetter, PublishRetryFails,
         NextDelivery, InHand
<1>5. ASSUME NEW c \in Consumers,
             \/ StartHandling(c) \/ LookupPrice(c)
             \/ Claims(c) \/ ClaimsUnheard(c) \/ ClaimsNothing(c)
      PROVE  UNCHANGED <<inbox, current>>
  BY <1>5, HandlerShape DEF Handles
<1>6. ASSUME NEW c \in Consumers,
             \/ Start(c) \/ PublishRetry(c)
             \/ BrokerEndsSession(c) \/ BrokerHandlesFrame(c)
      PROVE  UNCHANGED <<inbox, current>>
  BY <1>6 DEF Start, PublishRetry, BrokerEndsSession, BrokerHandlesFrame,
         consumerVars, processVars
<1>7. ASSUME NEW m \in retryQueue, BrokerExpiresRetry(m)
      PROVE  UNCHANGED <<inbox, current>>
  BY <1>7 DEF BrokerExpiresRetry, consumerVars, processVars
<1>8. ASSUME NEW o \in Orders, LateOutcome(o)
      PROVE  UNCHANGED <<inbox, current>>
  BY <1>8, LateElsewhere
<1> QED
  BY <1>8, <1>1, <1>2, <1>3, <1>4, <1>5, <1>6, <1>7
  DEF ConsumerStep, ProcessStep, Proceeds

(* Nothing but a retry makes a message. *)
LEMMA MessageSource ==
  ASSUME Bookkeeping, ConsumerStep, NEW m \in Message, Exists(m)'
  PROVE  \/ Exists(m)
         \/ \E c \in Consumers :
              /\ PublishRetry(c) /\ m.id = FreshId
              /\ m.order = current[c].order /\ m.body = current[c].body
              /\ m.attempt = current[c].attempt + 1
<1>0. TypeOK /\ LoopPlaces
  BY DEF Bookkeeping
<1>1. CASE m \in Kept'
  BY <1>1, KeptSource DEF Exists
<1>2. ASSUME NEW c \in Consumers, m \in InHand(c)'
      PROVE  Exists(m)
  BY <1>2, HeldSource DEF Exists, Kept
<1>3. ASSUME NEW c \in Consumers, NEW i \in DOMAIN wire'[c], wire'[c][i].msg = m
      PROVE  \/ Exists(m)
             \/ /\ PublishRetry(c) /\ m.id = FreshId
                /\ m.order = current[c].order /\ m.body = current[c].body
                /\ m.attempt = current[c].attempt + 1
  <2>1. FrameFrom(c, wire'[c][i])
    BY <1>3, FrameSource
  <2>2. m = current[c] /\ pc[c] \in Busy => m \in InHand(c)
    BY ConsumerAssumption DEF InHand
  <2> QED
    BY <1>3, <2>1, <2>2 DEF FrameFrom, Exists
<1> QED
  BY <1>1, <1>2, <1>3 DEF Exists

-----------------------------------------------------------------------------
(* Dead letters are justified. *)

(* Failures are counted, never forgotten. *)
LEMMA FailuresGrow ==
  ASSUME Bookkeeping, ConsumerStep, NEW o \in Orders
  PROVE  failures'[o] >= failures[o]
<1>0. TypeOK /\ LoopPlaces /\ failures[o] \in Nat
  BY DEF Bookkeeping, TypeOK
<1>1. ASSUME NEW c \in Consumers, NEW err, Fails(c, err), pc[c] \in Busy
      PROVE  failures'[o] >= failures[o]
  BY <1>0, <1>1, FailsEffect, BusyHasMessage
<1>2. ASSUME NEW c \in Consumers,
             \/ StartHandling(c) \/ LookupPrice(c)
             \/ ClaimsUnheard(c) \/ ClaimsNothing(c)
      PROVE  failures'[o] >= failures[o]
  <2>1. pc[c] \in Busy
    BY <1>2 DEF StartHandling, LookupPrice, ClaimsUnheard, ClaimsNothing, Busy, Handling
  <2>2. UNCHANGED failures \/ \E err : Fails(c, err)
    BY <1>2 DEF StartHandling, LookupPrice, ClaimsUnheard, ClaimsNothing
  <2> QED
    BY <1>0, <1>1, <2>1, <2>2
<1>3. ASSUME UNCHANGED failures
      PROVE  failures'[o] >= failures[o]
  BY <1>0, <1>3
<1>4. ASSUME NEW p \in Orders, LateOutcome(p)
      PROVE  UNCHANGED failures
  BY <1>4, LateElsewhere
<1> QED
  BY <1>4, <1>2, <1>3
  DEF ConsumerStep, ProcessStep, BrokerExpiresRetry, Start, Deliver, Receive,
      SeeShutdown, SeeClosed, Claims, AckSuccess, DeadLetter, PublishRetry,
      PublishRetryFails, AckAfterCopy, Exit, Signal, Crash, LoseConnection,
      BrokerEndsSession, BrokerHandlesFrame, consumerVars

(* Consumers add no row, so what is hopeless stays hopeless. *)
LEMMA HopelessStays ==
  ASSUME Bookkeeping, ConsumerStep, NEW m \in Message, Hopeless(m)
  PROVE  Hopeless(m)'
<1>0. m.order \in Orders /\ TypeOK
  BY DEF Message, Bookkeeping
<1>1. ASSUME NEW p, ClaimOrder(p)
      PROVE  status[m.order] = "ABSENT" => status'[m.order] = "ABSENT"
  BY <1>0, <1>1 DEF ClaimOrder, TypeOK, LedgerTypeOK
<1>2. (\E p : ClaimOrder(p)) \/ UNCHANGED status
  BY DEF ConsumerStep, ProcessStep, BrokerExpiresRetry, Start, Deliver, Receive,
         SeeShutdown, SeeClosed, StartHandling, LookupPrice, Claims,
         ClaimsUnheard, ClaimsNothing, AckSuccess, DeadLetter, PublishRetry,
         PublishRetryFails, AckAfterCopy, Exit, Signal, Crash, LoseConnection,
         BrokerEndsSession, BrokerHandlesFrame, LateOutcome, ledgerVars
<1> QED
  BY <1>1, <1>2 DEF Hopeless

(* The handler counts a transient failure, and calls permanent only what is
   hopeless. *)
LEMMA VerdictJustified ==
  ASSUME Bookkeeping, ConsumerStep, NEW c \in Consumers, pc'[c] # pc[c],
         \/ StartHandling(c) \/ LookupPrice(c)
         \/ ClaimsUnheard(c) \/ ClaimsNothing(c)
  PROVE  /\ pc'[c] = "transient" =>
              failures'[current[c].order] = failures[current[c].order] + 1
         /\ pc'[c] = "permanent" => Hopeless(current[c])
<1>0. /\ TypeOK /\ LoopPlaces /\ pc \in [Consumers -> Place]
      /\ pc[c] \in {"received", "pricing", "executing"}
  BY DEF Bookkeeping, TypeOK, StartHandling, LookupPrice, ClaimsUnheard, ClaimsNothing
<1>1. current[c] \in Message
  BY <1>0, BusyHasMessage DEF Busy, Handling
<1>2. ASSUME NEW err, Fails(c, err)
      PROVE  /\ pc'[c] = "transient" =>
                  failures'[current[c].order] = failures[current[c].order] + 1
             /\ pc'[c] = "permanent" =>
                  err \in {"errInvalidEvent", "ErrOrderNotFound", "NotFound", "InvalidArgument"}
  <2>1. pc'[c] = ClassifyFailure(err)
    BY <1>0, <1>2 DEF Fails, Goto
  <2>2. pc'[c] = "transient" =>
          failures'[current[c].order] = failures[current[c].order] + 1
    BY <1>0, <1>1, <1>2, <2>1, FailsEffect
  <2> QED
    BY <2>1, <2>2 DEF ClassifyFailure
<1>3. CASE StartHandling(c)
  BY <1>0, <1>2, <1>3 DEF StartHandling, Goto, Hopeless
<1>4. CASE LookupPrice(c)
  <2>1. CASE Goto(c, "executing")
    BY <1>0, <2>1 DEF Goto
  <2>2. ASSUME NEW code \in QuoteCodes(current[c].body), code # "OK", Fails(c, code)
        PROVE  /\ pc'[c] = "transient" =>
                    failures'[current[c].order] = failures[current[c].order] + 1
               /\ pc'[c] = "permanent" => Hopeless(current[c])
    <3>1. code = "NotFound" => current[c].body = "unknownSymbol"
      BY <2>2 DEF QuoteCodes
    <3>2. code \in {"NotFound", "Unavailable", "DeadlineExceeded"}
      BY <2>2 DEF QuoteCodes
    <3> QED
      BY <1>2, <2>2, <3>1, <3>2 DEF Hopeless
  <2> QED
    BY <1>4, <2>1, <2>2 DEF LookupPrice
<1>5. CASE ClaimsUnheard(c)
  BY <1>2, <1>5 DEF ClaimsUnheard
<1>6. CASE ClaimsNothing(c)
  <2>1. CASE Goto(c, "succeeded")
    BY <1>0, <2>1 DEF Goto
  <2>2. CASE status[current[c].order] = "ABSENT" /\ Fails(c, "ErrOrderNotFound")
    BY <1>2, <2>2 DEF Hopeless
  <2>3. CASE Fails(c, "DatabaseError")
    BY <1>2, <2>3
  <2> QED
    BY <1>6, <2>1, <2>2, <2>3 DEF ClaimsNothing
<1> QED
  BY <1>3, <1>4, <1>5, <1>6

(* In every step: each message has its failures behind it. *)
LEMMA AttemptsPaidStep ==
  ASSUME Bookkeeping, AttemptsPaid, ConsumerStep
  PROVE  AttemptsPaid'
<1>0. /\ TypeOK /\ LoopPlaces /\ failures \in [Orders -> Nat]
      /\ TypeOK' /\ failures' \in [Orders -> Nat]
  BY BookkeepingStep DEF Bookkeeping, TypeOK
<1>1. \A m \in Message : m.order \in Orders /\ m.attempt \in Nat /\ m.attempt < MaxDeliveryAttempts
  BY BrokerAssumption DEF Message, Attempt
<1>2. ASSUME NEW m \in Message, Exists(m)'
      PROVE  failures'[m.order] >= m.attempt
  <2>1. failures'[m.order] >= failures[m.order]
    BY <1>1, FailuresGrow
  <2>2. CASE Exists(m)
    BY <1>0, <1>1, <2>1, <2>2 DEF AttemptsPaid
  <2>3. ASSUME NEW c \in Consumers, PublishRetry(c),
               m.order = current[c].order, m.attempt = current[c].attempt + 1
        PROVE  failures'[m.order] >= m.attempt
    <3>1. PICK n \in Message : n = current[c]
      BY <1>0, <2>3, BusyHasMessage DEF PublishRetry, Busy
    <3>2. failures[m.order] > n.attempt
      BY <2>3, <3>1 DEF PublishRetry, AttemptsPaid
    <3> QED
      BY <1>0, <1>1, <2>1, <2>3, <3>1, <3>2
  <2> QED
    BY <1>2, <2>2, <2>3, MessageSource
<1>3. ASSUME NEW c \in Consumers, pc'[c] = "transient"
      PROVE  failures'[current'[c].order] > current'[c].attempt
  <2>1. /\ current'[c] = current[c] /\ pc[c] \in Busy
        /\ \/ pc'[c] = pc[c]
           \/ StartHandling(c) \/ LookupPrice(c) \/ ClaimsUnheard(c) \/ ClaimsNothing(c)
    BY <1>3, VerdictSource
  <2>2. PICK m \in Message : m = current[c]
    BY <1>0, <2>1, BusyHasMessage
  <2>3. CASE pc'[c] = pc[c]
    <3>1. failures[m.order] > m.attempt
      BY <1>3, <2>2, <2>3 DEF AttemptsPaid
    <3> QED
      BY <1>0, <1>1, <2>1, <2>2, <3>1, FailuresGrow
  <2>4. CASE pc'[c] # pc[c]
    <3>1. failures'[m.order] = failures[m.order] + 1
      BY <1>3, <2>1, <2>2, <2>4, VerdictJustified
    <3>2. m \in InHand(c)
      BY <2>2, ConsumerAssumption DEF InHand
    <3>3. failures[m.order] >= m.attempt
      BY <3>2 DEF AttemptsPaid, Exists
    <3> QED
      BY <1>0, <1>1, <2>1, <2>2, <3>1, <3>3
  <2> QED
    BY <2>3, <2>4
<1>4. ASSUME NEW c \in Consumers, pc'[c] = "permanent"
      PROVE  Hopeless(current[c])'
  <2>1. /\ current'[c] = current[c] /\ pc[c] \in Busy
        /\ \/ pc'[c] = pc[c]
           \/ StartHandling(c) \/ LookupPrice(c) \/ ClaimsUnheard(c) \/ ClaimsNothing(c)
    BY <1>4, VerdictSource
  <2>2. PICK m \in Message : m = current[c]
    BY <1>0, <2>1, BusyHasMessage
  <2>3. Hopeless(m)
    <3>1. CASE pc'[c] = pc[c]
      BY <1>4, <2>2, <3>1 DEF AttemptsPaid, Hopeless
    <3>2. CASE pc'[c] # pc[c]
      BY <1>4, <2>1, <2>2, <3>2, VerdictJustified DEF Hopeless
    <3> QED
      BY <3>1, <3>2
  <2>4. Hopeless(m)'
    BY <2>3, HopelessStays
  <2> QED
    BY <2>1, <2>2, <2>4 DEF Hopeless
<1>5. ASSUME NEW m \in Message, Hopeless(m) \/ LastAttemptFailed(m)
      PROVE  Hopeless(m)' \/ LastAttemptFailed(m)'
  <2>1. CASE Hopeless(m)
    BY <2>1, HopelessStays
  <2>2. CASE LastAttemptFailed(m)
    BY <1>0, <1>1, <2>2, FailuresGrow, BrokerAssumption DEF LastAttemptFailed
  <2> QED
    BY <1>5, <2>1, <2>2
<1>6. ASSUME NEW c \in Consumers, NEW i \in DOMAIN wire'[c], wire'[c][i].op = "reject"
      PROVE  Hopeless(wire[c][i].msg)' \/ LastAttemptFailed(wire[c][i].msg)'
  <2>1. FrameFrom(c, wire'[c][i])
    BY <1>6, FrameSource
  <2>2. \/ \E j \in DOMAIN wire[c] : wire'[c][i] = wire[c][j]
        \/ wire'[c][i].msg = current[c] /\ pc[c] \in Busy /\ DeadLetter(c)
    BY <1>6, <2>1 DEF FrameFrom
  <2>3. PICK m \in Message : m = wire'[c][i].msg
    BY <1>0, <1>6, FrameIsMessage, <2>2, BusyHasMessage
  <2>4. Hopeless(m) \/ LastAttemptFailed(m)
    <3>1. ASSUME NEW j \in DOMAIN wire[c], wire'[c][i] = wire[c][j]
          PROVE  Hopeless(m) \/ LastAttemptFailed(m)
      BY <1>6, <2>3, <3>1 DEF AttemptsPaid, Hopeless, LastAttemptFailed
    <3>2. CASE DeadLetter(c) /\ m = current[c]
      <4>1. CASE pc[c] = "permanent"
        BY <3>2, <4>1 DEF AttemptsPaid, Hopeless
      <4>2. CASE pc[c] = "transient" /\ OutOfRetries(current[c])
        <5>1. m.attempt + 1 >= MaxDeliveryAttempts
          BY <3>2, <4>2 DEF OutOfRetries, RetryAttempt
        <5>2. failures[m.order] > m.attempt
          BY <3>2, <4>2 DEF AttemptsPaid
        <5> QED
          BY <1>0, <1>1, <5>1, <5>2, BrokerAssumption DEF LastAttemptFailed
      <4> QED
        BY <3>2, <4>1, <4>2 DEF DeadLetter
    <3> QED
      BY <2>2, <2>3, <3>1, <3>2
  <2>5. Hopeless(m)' \/ LastAttemptFailed(m)'
    BY <1>5, <2>4
  <2> QED
    BY <2>3, <2>5 DEF Hopeless, LastAttemptFailed
<1> QED
  BY <1>2, <1>3, <1>4, <1>6 DEF AttemptsPaid

(* Only what was failed for good, or failed at its last attempt, is rejected. *)
LEMMA DeadLetterJustifiedStep ==
  ASSUME Bookkeeping, AttemptsPaid, DeadLetterJustified, ConsumerStep
  PROVE  DeadLetterJustified'
<1> SUFFICES ASSUME NEW m \in deadLetterQueue'
             PROVE  Hopeless(m)' \/ LastAttemptFailed(m)'
  BY DEF DeadLetterJustified, LastAttemptFailed
<1>0. /\ TypeOK /\ failures \in [Orders -> Nat]
      /\ TypeOK' /\ failures' \in [Orders -> Nat]
  BY BookkeepingStep DEF Bookkeeping, TypeOK
<1>1. m \in Message
  BY <1>0 DEF TypeOK, BrokerTypeOK
<1>2. Hopeless(m) \/ LastAttemptFailed(m)
  <2>1. CASE m \in deadLetterQueue
    BY <2>1 DEF DeadLetterJustified, LastAttemptFailed
  <2>2. ASSUME NEW c \in Consumers, 1 \in DOMAIN wire[c],
               wire[c][1].op = "reject", wire[c][1].msg = m
        PROVE  Hopeless(m) \/ LastAttemptFailed(m)
    BY <2>2 DEF AttemptsPaid, Hopeless, LastAttemptFailed
  <2> QED
    BY <2>1, <2>2, KeptSource
<1>3. LastAttemptFailed(m) => LastAttemptFailed(m)'
  <2>1. m.order \in Orders
    BY <1>1 DEF Message
  <2>2. failures'[m.order] >= failures[m.order]
    BY <2>1, FailuresGrow
  <2> QED
    BY <1>0, <2>1, <2>2, BrokerAssumption DEF LastAttemptFailed
<1> QED
  BY <1>1, <1>2, <1>3, HopelessStays

(* In every step: an invalid event is judged before it is tried. *)
LEMMA InvalidAtFirstStep ==
  ASSUME Bookkeeping, InvalidAtFirst, ConsumerStep
  PROVE  InvalidAtFirst'
<1>0. TypeOK /\ LoopPlaces
  BY DEF Bookkeeping
<1>1. ASSUME NEW m \in Message, Exists(m)', m.body = "malformed"
      PROVE  m.attempt = 0
  <2>1. CASE Exists(m)
    BY <1>1, <2>1 DEF InvalidAtFirst
  <2>2. ASSUME NEW c \in Consumers, PublishRetry(c)
        PROVE  current[c].body # "malformed"
    BY <2>2 DEF PublishRetry, InvalidAtFirst
  <2> QED
    BY <1>1, <2>1, <2>2, MessageSource
<1>2. ASSUME NEW c \in Consumers, pc'[c] \in Handling \cup {"transient"}
      PROVE  current'[c].body # "malformed"
  <2>1. /\ current'[c] = current[c]
        /\ \/ pc'[c] = pc[c]
           \/ StartHandling(c) \/ LookupPrice(c) \/ ClaimsUnheard(c) \/ ClaimsNothing(c)
    BY <1>2, VerdictSource
  <2>2. CASE pc'[c] = pc[c]
    BY <1>2, <2>1, <2>2 DEF InvalidAtFirst
  <2>3. CASE LookupPrice(c) \/ ClaimsUnheard(c) \/ ClaimsNothing(c)
    <3>1. pc[c] \in Handling
      BY <2>3 DEF LookupPrice, ClaimsUnheard, ClaimsNothing, Handling
    <3> QED
      BY <2>1, <3>1 DEF InvalidAtFirst
  <2>4. CASE StartHandling(c)
    BY <1>0, <1>2, <2>1, <2>4
    DEF StartHandling, Fails, ClassifyFailure, Goto, Handling, TypeOK
  <2> QED
    BY <2>1, <2>2, <2>3, <2>4
<1> QED
  BY <1>1, <1>2 DEF InvalidAtFirst

(* Nothing is in hand or on its way at first. *)
LEMMA AttemptsInit ==
  ASSUME TypeOK, BrokerInit, ConsumerStateInit
  PROVE  AttemptsPaid /\ InvalidAtFirst /\ DeadLetterJustified
<1>1. \A m \in Message : ~Exists(m)
  BY ConsumerAssumption DEF BrokerInit, ConsumerStateInit, Exists, Kept, InHand
<1> QED
  BY <1>1
  DEF BrokerInit, ConsumerStateInit, AttemptsPaid, InvalidAtFirst,
      DeadLetterJustified, Handling

(* Events that arrive are at their first attempt. *)
LEMMA AttemptsIdle ==
  ASSUME Bookkeeping, AttemptsPaid, InvalidAtFirst, DeadLetterJustified,
         UNCHANGED <<wire, deadLetterQueue, ledgerVars, consumerVars>>,
         \A m \in Message : m \in Kept' => m \in Kept \/ m.attempt = 0
  PROVE  AttemptsPaid' /\ InvalidAtFirst' /\ DeadLetterJustified'
<1>0. UNCHANGED <<status, pc, inbox, current, failures>> /\ failures \in [Orders -> Nat]
  BY DEF ledgerVars, consumerVars, processVars, Bookkeeping, TypeOK
<1>1. \A m \in Message : Exists(m)' => Exists(m) \/ m.attempt = 0
  BY <1>0 DEF Exists, InHand
<1>2. \A m \in Message : m.order \in Orders
  BY DEF Message
<1>3. AttemptsPaid'
  BY <1>0, <1>1, <1>2 DEF AttemptsPaid, Hopeless, LastAttemptFailed
<1>4. InvalidAtFirst'
  BY <1>0, <1>1 DEF InvalidAtFirst
<1>5. DeadLetterJustified'
  BY <1>0 DEF DeadLetterJustified, Hopeless
<1> QED
  BY <1>3, <1>4, <1>5

(* What the broker and the consumers have counted, in every state. *)
LEMMA AttemptsInvariant ==
  Spec => [](Bookkeeping /\ AttemptsPaid /\ InvalidAtFirst /\ DeadLetterJustified)
<1> DEFINE Inv == Bookkeeping /\ AttemptsPaid /\ InvalidAtFirst /\ DeadLetterJustified
<1>1. Init => Inv
  <2> SUFFICES ASSUME Init
               PROVE  Inv
    OBVIOUS
  <2>1. TypeOK /\ BrokerInit /\ ConsumerStateInit
    BY TypeInit DEF Init
  <2> QED
    BY <2>1, BookkeepingInit, AttemptsInit
<1>2. Inv /\ [Next]_vars => Inv'
  <2> SUFFICES ASSUME Inv, [Next]_vars
               PROVE  Inv'
    OBVIOUS
  <2>1. ASSUME NEW o \in Orders, Announce(o)
        PROVE  Inv'
    <3>1. PICK body \in Bodies : RouteEvent(o, body)
      BY <2>1 DEF Announce
    <3>2. UNCHANGED <<ledgerVars, consumerVars>>
      BY <2>1 DEF Announce
    <3>3. PICK m \in Message :
            /\ m.attempt = 0 /\ orderQueue' = orderQueue \cup {m}
            /\ UNCHANGED <<bound, retryQueue, deadLetterQueue, session, unacked, wire>>
      BY <3>1, RouteEffect
    <3>4. Kept' = Kept \cup {m}
      BY <3>3 DEF Kept
    <3>5. Bookkeeping'
      BY <3>1, <3>2, BookkeepingRoute
    <3>6. AttemptsPaid' /\ InvalidAtFirst' /\ DeadLetterJustified'
      BY <3>2, <3>3, <3>4, AttemptsIdle
    <3> QED
      BY <3>5, <3>6
  <2>2. CASE ConsumerStep
    BY <2>2, BookkeepingStep, AttemptsPaidStep, InvalidAtFirstStep, DeadLetterJustifiedStep
  <2>3. CASE UNCHANGED vars
    <3>1. UNCHANGED <<wire, deadLetterQueue, ledgerVars, consumerVars>> /\ Kept' = Kept
      BY <2>3 DEF vars, brokerVars, Kept
    <3>2. LedgerTypeOK'
      BY <2>3 DEF vars, ledgerVars, Bookkeeping, TypeOK, LedgerTypeOK
    <3>3. Bookkeeping'
      BY <2>3, <3>2, BookkeepingIdle DEF vars
    <3> QED
      BY <3>1, <3>3, AttemptsIdle
  <2> QED
    BY <2>1, <2>2, <2>3 DEF Next
<1> QED
  BY <1>1, <1>2, PTL DEF Spec

(* A transient failure gets all its attempts: a dead letter is hopeless, or
   its order failed MaxDeliveryAttempts times. *)
THEOREM DeadLettersJustified == Spec => []DeadLetterJustified
BY AttemptsInvariant, PTL

(* No copy of an invalid event is ever made, by whatever redelivery. *)
THEOREM InvalidEventsNotRetried == Spec => []InvalidEventNotRetried
<1>1. Bookkeeping /\ InvalidAtFirst => InvalidEventNotRetried
  <2>1. Bookkeeping => Kept \subseteq Message
    BY DEF Bookkeeping, TypeOK, BrokerTypeOK, Kept
  <2> QED
    BY <2>1 DEF InvalidAtFirst, InvalidEventNotRetried, Exists
<1> QED
  BY <1>1, AttemptsInvariant, PTL

-----------------------------------------------------------------------------
(* A message is in one place. *)

(* What sending a frame does to the copies on their way. *)
LEMMA AppendPublished ==
  ASSUME NEW s \in Seq(Frame), NEW f \in Frame, OncePublished(s)
  PROVE  /\ f.op # "publish" => /\ PublishedIn(Append(s, f)) = PublishedIn(s)
                                /\ OncePublished(Append(s, f))
         /\ f.op = "publish" => PublishedIn(Append(s, f)) = PublishedIn(s) \cup {f.msg}
         /\ f.op = "publish" /\ f.msg \notin PublishedIn(s) => OncePublished(Append(s, f))
<1>1. PICK t \in Seq(Frame) :
        /\ t = Append(s, f)
        /\ Len(s) \in Nat /\ DOMAIN s = 1 .. Len(s)
        /\ DOMAIN t = 1 .. Len(s) + 1
        /\ \A i \in DOMAIN s : t[i] = s[i]
        /\ t[Len(s) + 1] = f
  BY AppendFrame
<1>2. f.msg \in Message /\ (f.op = "publish" => f = [op |-> "publish", msg |-> f.msg])
  BY DEF Frame
<1>3. \A i \in DOMAIN t : i \in DOMAIN s \/ i = Len(s) + 1
  BY <1>1
<1>4. \A i \in DOMAIN s : i \in DOMAIN t /\ t[i] = s[i]
  BY <1>1
<1>5. ASSUME f.op # "publish"
      PROVE  PublishedIn(t) = PublishedIn(s) /\ OncePublished(t)
  <2>1. PublishedIn(t) = PublishedIn(s)
    BY <1>1, <1>3, <1>4, <1>5 DEF PublishedIn
  <2>2. OncePublished(t)
    BY <1>1, <1>3, <1>4, <1>5 DEF OncePublished
  <2> QED
    BY <2>1, <2>2
<1>6. ASSUME f.op = "publish"
      PROVE  PublishedIn(t) = PublishedIn(s) \cup {f.msg}
  <2>1. \A m \in Message : f = [op |-> "publish", msg |-> m] => m = f.msg
    BY <1>2
  <2>2. Len(s) + 1 \in DOMAIN t
    BY <1>1
  <2> QED
    BY <1>1, <1>2, <1>3, <1>4, <1>6, <2>1, <2>2 DEF PublishedIn
<1>7. ASSUME f.op = "publish", f.msg \notin PublishedIn(s)
      PROVE  OncePublished(t)
  <2>1. \A i \in DOMAIN s : s[i] # f
    BY <1>2, <1>7 DEF PublishedIn
  <2> QED
    BY <1>1, <1>3, <1>4, <2>1 DEF OncePublished
<1> QED
  BY <1>1, <1>5, <1>6, <1>7

(* What handling the first frame does. *)
LEMMA TailPublished ==
  ASSUME NEW s \in Seq(Frame), s # <<>>, OncePublished(s)
  PROVE  /\ OncePublished(Tail(s))
         /\ s[1].op # "publish" => PublishedIn(Tail(s)) = PublishedIn(s)
         /\ s[1].op = "publish" => /\ s[1].msg \in PublishedIn(s)
                                   /\ PublishedIn(Tail(s)) = PublishedIn(s) \ {s[1].msg}
<1>1. PICK t \in Seq(Frame) :
        /\ t = Tail(s)
        /\ Len(s) \in Nat /\ DOMAIN s = 1 .. Len(s) /\ 1 \in DOMAIN s
        /\ s[1] \in Frame
        /\ DOMAIN t = 1 .. Len(s) - 1
        /\ \A i \in DOMAIN t : i + 1 \in DOMAIN s /\ t[i] = s[i + 1]
  BY TailFrame
<1>2. /\ s[1].msg \in Message
      /\ s[1].op = "publish" => s[1] = [op |-> "publish", msg |-> s[1].msg]
  BY <1>1 DEF Frame
<1>3. \A i \in DOMAIN t : i + 1 \in DOMAIN s /\ i + 1 # 1 /\ t[i] = s[i + 1]
  BY <1>1
<1>4. \A k \in DOMAIN s : k # 1 => k - 1 \in DOMAIN t /\ t[k - 1] = s[k]
  <2>1. ASSUME NEW k \in DOMAIN s, k # 1
        PROVE  k - 1 \in DOMAIN t /\ t[k - 1] = s[k]
    <3>1. k - 1 \in DOMAIN t /\ (k - 1) + 1 = k
      BY <1>1, <2>1
    <3> QED
      BY <1>1, <3>1
  <2> QED
    BY <2>1
<1>5. OncePublished(t)
  <2>1. ASSUME NEW i \in DOMAIN t, NEW j \in DOMAIN t, t[i].op = "publish", t[i] = t[j]
        PROVE  i = j
    <3>1. i + 1 = j + 1
      BY <1>3, <2>1 DEF OncePublished
    <3> QED
      BY <1>1, <3>1
  <2> QED
    BY <2>1 DEF OncePublished
<1>6. ASSUME s[1].op # "publish"
      PROVE  PublishedIn(t) = PublishedIn(s)
  <2>1. PublishedIn(t) \subseteq PublishedIn(s)
    BY <1>3 DEF PublishedIn
  <2>2. ASSUME NEW m \in Message, NEW k \in DOMAIN s, s[k] = [op |-> "publish", msg |-> m]
        PROVE  m \in PublishedIn(t)
    BY <1>4, <1>6, <2>2 DEF PublishedIn
  <2> QED
    BY <2>1, <2>2 DEF PublishedIn
<1>7. ASSUME s[1].op = "publish"
      PROVE  /\ s[1].msg \in PublishedIn(s)
             /\ PublishedIn(t) = PublishedIn(s) \ {s[1].msg}
  <2>1. s[1].msg \in PublishedIn(s)
    BY <1>1, <1>2, <1>7 DEF PublishedIn
  <2>2. PublishedIn(t) \subseteq PublishedIn(s)
    BY <1>3 DEF PublishedIn
  <2>3. s[1].msg \notin PublishedIn(t)
    <3>1. ASSUME NEW i \in DOMAIN t, t[i] = s[1]
          PROVE  FALSE
      BY <1>1, <1>3, <1>7, <3>1 DEF OncePublished
    <3> QED
      BY <1>2, <1>7, <3>1 DEF PublishedIn
  <2>4. ASSUME NEW m \in Message, NEW k \in DOMAIN s, s[k] = [op |-> "publish", msg |-> m],
               m # s[1].msg
        PROVE  m \in PublishedIn(t)
    <3>1. k # 1
      BY <1>2, <1>7, <2>4
    <3> QED
      BY <1>4, <2>4, <3>1 DEF PublishedIn
  <2>5. PublishedIn(s) \ {s[1].msg} \subseteq PublishedIn(t)
    BY <2>4 DEF PublishedIn
  <2> QED
    BY <2>1, <2>2, <2>3, <2>5
<1> QED
  BY <1>1, <1>5, <1>6, <1>7

(* A message with a new identity is nowhere. *)
LEMMA FreshIsNowhere ==
  ASSUME NEW n \in Message, Unused(n.id), NEW c \in Consumers
  PROVE  n \notin Kept /\ n \notin Published(c)
<1>1. n \notin Kept
  BY DEF Unused
<1>2. ASSUME NEW i \in DOMAIN wire[c], wire[c][i] = [op |-> "publish", msg |-> n]
      PROVE  FALSE
  <2>1. wire[c][i] \in FramesOf(c) /\ wire[c][i].msg = n
    BY <1>2 DEF FramesOf
  <2> QED
    BY <2>1 DEF Unused
<1> QED
  BY <1>1, <1>2 DEF Published, PublishedIn

(* In every step a message moves from one place to another, or a new one is
   made. *)
LEMMA ApartStep ==
  ASSUME Bookkeeping, Apart, ConsumerStep
  PROVE  Apart'
<1>0. /\ TypeOK /\ LoopPlaces
      /\ wire \in [Consumers -> Seq(Frame)]
      /\ unacked \in [Consumers -> SUBSET Message]
  BY DEF Bookkeeping, TypeOK, BrokerTypeOK
<1>1. ASSUME UNCHANGED <<wire, orderQueue, retryQueue, deadLetterQueue, unacked>>
      PROVE  Apart'
  BY <1>1 DEF Apart, Queued, Published, Kept
<1>2. ASSUME NEW m \in retryQueue, BrokerExpiresRetry(m)
      PROVE  Apart'
  <2>1. /\ retryQueue' = retryQueue \ {m} /\ orderQueue' = orderQueue \cup {m}
        /\ UNCHANGED <<wire, deadLetterQueue, unacked>>
    BY <1>2 DEF BrokerExpiresRetry, RetryExpires
  <2>2. Queued' = Queued /\ Kept' = Kept /\ \A c \in Consumers : Published(c)' = Published(c)
    BY <2>1 DEF Queued, Kept, Published
  <2> QED
    BY <2>1, <2>2 DEF Apart
<1>3. ASSUME NEW c \in Consumers, NEW m \in orderQueue, Deliver(c, m)
      PROVE  Apart'
  <2>1. /\ orderQueue' = orderQueue \ {m} /\ unacked[c] = {} /\ unacked'[c] = {m}
        /\ \A d \in Consumers \ {c} : unacked'[d] = unacked[d]
        /\ UNCHANGED <<wire, retryQueue, deadLetterQueue>>
    BY <1>0, <1>3 DEF Deliver, Push
  <2>2. /\ Queued' \subseteq Queued /\ m \in Queued /\ Kept' \subseteq Kept
        /\ \A d \in Consumers : Published(d)' = Published(d)
    BY <2>1 DEF Queued, Kept, Published
  <2>3. m \notin Queued'
    BY <2>1 DEF Apart, Queued
  <2>4. \A d \in Consumers : unacked'[d] \cap Queued' = {} /\ Published(d)' \cap Kept' = {}
    BY <2>1, <2>2, <2>3 DEF Apart
  <2>5. \A d, e \in Consumers : d # e => unacked'[d] \cap unacked'[e] = {}
    BY <2>1, <2>2 DEF Apart
  <2> QED
    BY <2>1, <2>2, <2>4, <2>5 DEF Apart
<1>4. ASSUME NEW c \in Consumers, BrokerEndsSession(c)
      PROVE  Apart'
  <2>1. /\ orderQueue' = orderQueue \cup unacked[c]
        /\ unacked'[c] = {} /\ wire'[c] = <<>>
        /\ \A d \in Consumers \ {c} : unacked'[d] = unacked[d] /\ wire'[d] = wire[d]
        /\ UNCHANGED <<retryQueue, deadLetterQueue>>
    BY <1>0, <1>4 DEF BrokerEndsSession, EndSession
  <2>2. /\ Queued' = Queued \cup unacked[c] /\ Kept' \subseteq Kept
        /\ \A d \in Consumers \ {c} : Published(d)' = Published(d)
    BY <2>1 DEF Queued, Kept, Published
  <2>3. Published(c)' = {} /\ OncePublished(wire'[c])
    BY <2>1 DEF Published, PublishedIn, OncePublished
  <2>4. orderQueue' \cap retryQueue' = {} /\ orderQueue' \cap deadLetterQueue' = {}
    BY <2>1 DEF Apart, Queued
  <2>5. \A d \in Consumers : unacked'[d] \cap Queued' = {} /\ Published(d)' \cap Kept' = {}
    BY <2>1, <2>2, <2>3 DEF Apart
  <2> QED
    BY <2>1, <2>2, <2>3, <2>4, <2>5 DEF Apart
<1>5. ASSUME NEW c \in Consumers, BrokerHandlesFrame(c)
      PROVE  Apart'
  <2>1. HandleFrame(c)
    BY <1>5 DEF BrokerHandlesFrame
  <2>2. PICK f \in Frame :
           /\ session[c] /\ wire[c] # <<>> /\ f = wire[c][1] /\ f.msg \in Message
           /\ retryQueue' = retryQueue \cup {x \in {f.msg} : f.op = "publish"}
           /\ deadLetterQueue' = deadLetterQueue \cup {x \in {f.msg} : f.op = "reject"}
           /\ orderQueue' = orderQueue \cup {x \in {f.msg} : f.op = "requeue"}
           /\ \A d \in Consumers \ {c} : unacked'[d] = unacked[d] /\ wire'[d] = wire[d]
           /\ unacked'[c] = unacked[c] \ {x \in {f.msg} : f.op # "publish"}
           /\ wire'[c] = Tail(wire[c])
    BY <1>0, <2>1, FrameEffect
  <2>3. 1 \in DOMAIN wire[c]
    BY <1>0, <2>2, TailFrame
  <2>4. f.op # "publish" => f.msg \in unacked[c]
    BY <2>2, <2>3 DEF Bookkeeping, SettledOnce
  <2>5. \A d \in Consumers \ {c} : Published(d)' = Published(d)
    BY <2>2 DEF Published
  <2>6. /\ OncePublished(wire'[c])
        /\ f.op # "publish" => Published(c)' = Published(c)
        /\ f.op = "publish" => f.msg \in Published(c) /\ Published(c)' = Published(c) \ {f.msg}
    BY <1>0, <2>2, TailPublished DEF Published, Apart
  <2>7. CASE f.op = "publish"
    <3>1. /\ retryQueue' = retryQueue \cup {f.msg} /\ unacked'[c] = unacked[c]
          /\ UNCHANGED <<orderQueue, deadLetterQueue>>
      BY <2>2, <2>7
    <3>2. \A d \in Consumers : unacked'[d] = unacked[d]
      BY <2>2, <3>1
    <3>3. Queued' = Queued \cup {f.msg} /\ Kept' = Kept \cup {f.msg}
      BY <3>1, <3>2 DEF Queued, Kept
    <3>4. f.msg \notin Kept /\ \A d \in Consumers : f.msg \notin unacked[d]
      BY <2>6, <2>7 DEF Apart, Kept
    <3>5. f.msg \notin orderQueue /\ f.msg \notin deadLetterQueue
      BY <3>4 DEF Kept
    <3>6. \A d \in Consumers : f.msg \notin Published(d)'
      BY <2>5, <2>6, <2>7 DEF Apart
    <3>7. \A d \in Consumers :
            /\ unacked'[d] \cap Queued' = {} /\ Published(d)' \cap Kept' = {}
            /\ Published(d)' \subseteq Published(d)
      BY <2>5, <2>6, <2>7, <3>2, <3>3, <3>4, <3>6 DEF Apart
    <3> QED
      BY <2>2, <2>6, <3>1, <3>2, <3>5, <3>7 DEF Apart
  <2>8. CASE f.op # "publish"
    <3>1. /\ unacked'[c] = unacked[c] \ {f.msg} /\ UNCHANGED retryQueue
          /\ Kept' \subseteq Kept /\ Queued' \subseteq Queued \cup {f.msg}
      BY <2>2, <2>4, <2>8 DEF Kept, Queued
    <3>2. f.msg \notin Queued /\ \A d \in Consumers \ {c} : f.msg \notin unacked[d]
      BY <2>4, <2>8 DEF Apart
    <3>3. \A d \in Consumers : Published(d)' = Published(d)
      BY <2>5, <2>6, <2>8
    <3>4. /\ orderQueue' \cap retryQueue' = {} /\ orderQueue' \cap deadLetterQueue' = {}
          /\ retryQueue' \cap deadLetterQueue' = {}
      BY <2>2, <2>8, <3>2 DEF Apart, Queued, Frame
    <3>5. \A d \in Consumers :
            /\ unacked'[d] \cap Queued' = {} /\ Published(d)' \cap Kept' = {}
            /\ unacked'[d] \subseteq unacked[d]
      BY <2>2, <3>1, <3>2, <3>3 DEF Apart
    <3> QED
      BY <2>2, <2>6, <3>3, <3>4, <3>5 DEF Apart
  <2> QED
    BY <2>7, <2>8
<1>6. ASSUME NEW c \in Consumers, NEW op \in {"ack", "reject", "requeue"}, Settles(c, op)
      PROVE  Apart'
  <2>1. PICK m \in Message :
           /\ m = current[c]
           /\ \A d \in Consumers \ {c} : wire'[d] = wire[d]
           /\ ~linkUp[c] => wire'[c] = wire[c]
           /\ linkUp[c] => wire'[c] = Append(wire[c], [op |-> op, msg |-> m])
    BY <1>0, <1>6, SettlesEffect
  <2>2. UNCHANGED <<orderQueue, retryQueue, deadLetterQueue, unacked>>
    BY <1>6 DEF Settles, QueuesUnchanged
  <2>3. PICK f \in Frame : f = [op |-> op, msg |-> m]
    BY DEF Frame
  <2>4. PublishedIn(wire'[c]) = PublishedIn(wire[c]) /\ OncePublished(wire'[c])
    <3>1. OncePublished(wire[c]) /\ f.op # "publish"
      BY <2>3 DEF Apart
    <3>2. CASE linkUp[c]
      BY <1>0, <2>1, <2>3, <3>1, <3>2, AppendPublished
    <3> QED
      BY <2>1, <3>1, <3>2
  <2>5. \A d \in Consumers : Published(d)' = Published(d) /\ OncePublished(wire'[d])
    BY <2>1, <2>4 DEF Published, Apart
  <2> QED
    BY <2>2, <2>5 DEF Apart, Queued, Kept
<1>7. ASSUME NEW c \in Consumers, PublishRetry(c)
      PROVE  Apart'
  <2>1. PICK m, n \in Message :
           /\ m = current[c] /\ n.id = FreshId
           /\ n.order = m.order /\ n.body = m.body /\ n.attempt = m.attempt + 1
           /\ linkUp[c] /\ Unused(FreshId)
           /\ pc' = [pc EXCEPT ![c] = "copied"]
           /\ \A d \in Consumers \ {c} : wire'[d] = wire[d]
           /\ wire'[c] = Append(wire[c], [op |-> "publish", msg |-> n])
    BY <1>0, <1>7, PublishEffect
  <2>2. UNCHANGED <<orderQueue, retryQueue, deadLetterQueue, unacked>>
    BY <1>7 DEF PublishRetry, QueuesUnchanged
  <2>3. PICK f \in Frame : f = [op |-> "publish", msg |-> n]
    BY DEF Frame
  <2>4. n \notin Kept /\ \A d \in Consumers : n \notin Published(d)
    BY <2>1, FreshIsNowhere
  <2>5. Published(c)' = Published(c) \cup {n} /\ OncePublished(wire'[c])
    <3>1. OncePublished(wire[c]) /\ f.op = "publish" /\ f.msg = n /\ f.msg \notin PublishedIn(wire[c])
      BY <2>3, <2>4 DEF Apart, Published
    <3> QED
      BY <1>0, <2>1, <2>3, <3>1, AppendPublished DEF Published
  <2>6. \A d \in Consumers \ {c} : Published(d)' = Published(d)
    BY <2>1 DEF Published
  <2>7. Kept' = Kept /\ Queued' = Queued
    BY <2>2 DEF Kept, Queued
  <2>8. ASSUME NEW d \in Consumers
        PROVE  Published(d)' \cap Kept' = {} /\ OncePublished(wire'[d])
    <3>1. Published(d) \cap Kept = {} /\ OncePublished(wire[d])
      BY DEF Apart
    <3>2. CASE d = c
      BY ONLY <2>4, <2>5, <2>7, <3>1, <3>2
    <3>3. CASE d # c
      <4>1. Published(d)' = Published(d) /\ wire'[d] = wire[d]
        BY ONLY <2>1, <2>6, <3>3, d \in Consumers
      <4> QED
        BY ONLY <2>7, <3>1, <4>1
    <3> QED
      BY <3>2, <3>3
  <2>9. \A d, e \in Consumers : d # e => Published(d)' \cap Published(e)' = {}
    BY <2>4, <2>5, <2>6 DEF Apart
  <2> QED
    BY <2>2, <2>7, <2>8, <2>9 DEF Apart
<1>8. ASSUME NEW c \in Consumers,
             \/ StartHandling(c) \/ LookupPrice(c)
             \/ Claims(c) \/ ClaimsUnheard(c) \/ ClaimsNothing(c)
      PROVE  UNCHANGED brokerVars
  BY <1>8, HandlerShape DEF Handles
<1>9. ASSUME NEW c \in Consumers, Proceeds(c)
      PROVE  UNCHANGED brokerVars
  BY <1>0, <1>9, ProceedsEffect
<1>10. UNCHANGED brokerVars => Apart'
  BY <1>1 DEF brokerVars
<1>11. ASSUME NEW c \in Consumers, Start(c)
       PROVE  Apart'
  BY <1>1, <1>11 DEF Start, OpenSession
<1>12. ASSUME NEW o \in Orders, LateOutcome(o)
       PROVE  UNCHANGED brokerVars
  BY <1>12, LateElsewhere DEF brokerVars
<1> QED
  BY <1>12, <1>2, <1>3, <1>4, <1>5, <1>6, <1>7, <1>8, <1>9, <1>10, <1>11, SettlementShape
  DEF ConsumerStep, ProcessStep, Proceeds

-----------------------------------------------------------------------------
(* Without a fault there is one message to be handled. *)

(* Faults are counted. *)
LEMMA FaultsCounted ==
  ASSUME Bookkeeping, ConsumerStep, faults' = 0
  PROVE  /\ faults = 0
         /\ \A c \in Consumers : ~Crash(c) /\ ~LoseConnection(c) /\ ~ClaimsUnheard(c)
         /\ \A c \in Consumers : PublishRetryFails(c) => ~linkUp[c] \/ ctxDone[c]
<1>1. faults \in Nat
  BY ConsumerAssumption DEF Bookkeeping, TypeOK
<1>2. ASSUME NEW o \in Orders, LateOutcome(o)
      PROVE  UNCHANGED <<faults, pc, linkUp, wire>>
  BY <1>2, LateElsewhere
<1> QED
  BY <1>1, <1>2
  DEF ConsumerStep, ProcessStep, BrokerExpiresRetry, Start, Deliver, Receive,
      SeeShutdown, SeeClosed, StartHandling, LookupPrice, Claims, ClaimsUnheard,
      ClaimsNothing, AckSuccess, DeadLetter, PublishRetry, PublishRetryFails,
      AckAfterCopy, Exit, Signal, Crash, LoseConnection, BrokerEndsSession,
      BrokerHandlesFrame, consumerVars, boundVars, incidentVars

(* What a running process has in hand without its result is to be handled. *)
LEMMA HandledIsLive ==
  ASSUME Bookkeeping, OneLive, faults = 0, NEW c \in Consumers,
         pc[c] \in Busy \ {"succeeded", "copied"}
  PROVE  /\ linkUp[c] /\ current[c] \in Message
         /\ current[c] \in unacked[c] /\ ~Spent(c) /\ Live(current[c])
<1>1. linkUp[c]
  BY DEF OneLive, Busy, Handling
<1>2. current[c] \in Message /\ current[c] # NoMessage
  BY BusyHasMessage, ConsumerAssumption DEF Bookkeeping
<1>3. current[c] \in unacked[c] /\ ~Settling(c)
  BY <1>1, <1>2 DEF Bookkeeping, HeldUnsettled, InHand
<1>4. ~Spent(c)
  BY <1>3 DEF Spent, Settling, Settlement
<1> QED
  BY <1>1, <1>2, <1>3, <1>4 DEF Live

(* Of the running processes, what is spent stays spent until it is acked. *)
LEMMA SpentStays ==
  ASSUME Bookkeeping, OneLive, ConsumerStep, faults' = 0,
         NEW c \in Consumers, Spent(c), unacked'[c] \cap unacked[c] # {}
  PROVE  Spent(c)'
<1>0. /\ TypeOK /\ LoopPlaces /\ faults = 0
      /\ wire \in [Consumers -> Seq(Frame)] /\ pc \in [Consumers -> Place]
      /\ unacked \in [Consumers -> SUBSET Message]
  BY FaultsCounted DEF Bookkeeping, TypeOK, BrokerTypeOK
<1>1. linkUp[c] /\ pc[c] # "down"
  <2>1. ~linkUp[c] => pc[c] = "down" /\ wire[c] = <<>>
    BY <1>0 DEF OneLive
  <2>2. linkUp[c]
    BY <2>1 DEF Spent
  <2> QED
    BY <2>2 DEF Bookkeeping, LoopPlaces
<1>2. CASE UNCHANGED <<pc, wire>>
  BY <1>2 DEF Spent
<1>3. ASSUME NEW d \in Consumers, d # c,
             Start(d) \/ ProcessStep(d) \/ Signal(d) \/ BrokerEndsSession(d) \/ BrokerHandlesFrame(d)
      PROVE  pc'[c] = pc[c] /\ wire'[c] = wire[c]
  BY <1>0, <1>3
  DEF Start, OpenSession, ProcessStep, Receive, SeeShutdown, SeeClosed, StartHandling,
      LookupPrice, Claims, ClaimsUnheard, ClaimsNothing, AckSuccess, DeadLetter,
      PublishRetry, PublishRetryFails, AckAfterCopy, Exit, Signal, Send, Enqueue,
      Fails, Goto, NextDelivery, BrokerEndsSession, EndSession, BrokerHandlesFrame,
      HandleFrame, brokerVars, consumerVars, processVars
<1>5. CASE AckSuccess(c) \/ AckAfterCopy(c)
  <2>1. Settles(c, "ack")
    BY <1>5, SettlementShape
  <2>2. PICK m \in Message :
           linkUp[c] => wire'[c] = Append(wire[c], [op |-> "ack", msg |-> m])
    BY <1>0, <2>1, SettlesEffect
  <2>3. PICK f \in Frame : f = [op |-> "ack", msg |-> m]
    BY DEF Frame
  <2>4. /\ DOMAIN wire'[c] = 1 .. Len(wire[c]) + 1 /\ Len(wire[c]) \in Nat
        /\ wire'[c][Len(wire[c]) + 1] = f
    BY <1>0, <1>1, <2>2, <2>3, AppendFrame
  <2>5. Len(wire[c]) + 1 \in DOMAIN wire'[c] /\ f.op = "ack"
    BY <2>3, <2>4
  <2> QED
    BY <2>4, <2>5 DEF Spent
<1>6. CASE DeadLetter(c) \/ PublishRetryFails(c) \/ PublishRetry(c)
  <2>1. pc[c] \in {"permanent", "transient"}
    BY <1>6 DEF DeadLetter, PublishRetryFails, PublishRetry
  <2>2. ~Spent(c)
    BY <1>0, <2>1, HandledIsLive DEF Busy
  <2> QED
    BY <2>2
<1>7. CASE \/ StartHandling(c) \/ LookupPrice(c)
           \/ Claims(c) \/ ClaimsUnheard(c) \/ ClaimsNothing(c)
  BY <1>0, <1>7, HandlerShape DEF Handles, brokerVars, Spent
<1>8. CASE Start(c) \/ Exit(c)
  BY <1>1, <1>8 DEF Start, Exit, Spent
<1>9. CASE Receive(c) \/ SeeShutdown(c) \/ SeeClosed(c) \/ Signal(c)
  BY <1>0, <1>9 DEF Receive, SeeShutdown, SeeClosed, Signal, Goto, brokerVars, Spent
<1>10. CASE BrokerEndsSession(c)
  BY <1>1, <1>10 DEF BrokerEndsSession
<1>11. CASE BrokerHandlesFrame(c)
  <2>1. HandleFrame(c) /\ UNCHANGED pc
    BY <1>11 DEF BrokerHandlesFrame, consumerVars, processVars
  <2>2. PICK f \in Frame :
           /\ session[c] /\ wire[c] # <<>> /\ f = wire[c][1]
           /\ unacked'[c] = unacked[c] \ {x \in {f.msg} : f.op # "publish"}
           /\ wire'[c] = Tail(wire[c])
    BY <1>0, <2>1, FrameEffect
  <2>3. /\ DOMAIN wire[c] = 1 .. Len(wire[c]) /\ 1 \in DOMAIN wire[c] /\ Len(wire[c]) \in Nat
        /\ DOMAIN wire'[c] = 1 .. Len(wire[c]) - 1
        /\ \A i \in DOMAIN wire'[c] : i + 1 \in DOMAIN wire[c] /\ wire'[c][i] = wire[c][i + 1]
    BY <1>0, <2>2, TailFrame
  <2>4. f.op = "publish"
    <3>1. CASE f.op # "publish"
      <4>1. f.msg \in unacked[c]
        BY <2>2, <2>3, <3>1 DEF Bookkeeping, SettledOnce
      <4>2. unacked[c] = {f.msg}
        BY <4>1 DEF Bookkeeping, Sessions
      <4> QED
        BY <2>2, <3>1, <4>2
    <3> QED
      BY <3>1
  <2>5. ASSUME NEW i \in DOMAIN wire[c], wire[c][i].op = "ack"
        PROVE  \E j \in DOMAIN wire'[c] : wire'[c][j].op = "ack"
    <3>1. i # 1
      BY <2>2, <2>4, <2>5
    <3>2. i - 1 \in DOMAIN wire'[c] /\ (i - 1) + 1 = i
      BY <2>3, <3>1
    <3> QED
      BY <2>3, <2>5, <3>2
  <2> QED
    BY <2>1, <2>5 DEF Spent
<1>12. ASSUME NEW d \in Consumers, \E m \in orderQueue : Deliver(d, m)
       PROVE  UNCHANGED <<pc, wire>>
  BY <1>12 DEF Deliver, Push
<1>13. ASSUME NEW m \in retryQueue, BrokerExpiresRetry(m)
       PROVE  UNCHANGED <<pc, wire>>
  BY <1>13 DEF BrokerExpiresRetry, RetryExpires, consumerVars, processVars
<1>14. ASSUME NEW d \in Consumers, d # c,
              Start(d) \/ ProcessStep(d) \/ Signal(d) \/ BrokerEndsSession(d) \/ BrokerHandlesFrame(d)
       PROVE  Spent(c)'
  BY <1>3, <1>14 DEF Spent
<1>15. \A d \in Consumers : ~Crash(d) /\ ~LoseConnection(d)
  BY FaultsCounted
<1>16. ASSUME NEW o \in Orders, LateOutcome(o)
       PROVE  UNCHANGED <<pc, wire>>
  BY <1>16, LateElsewhere
<1> QED
  BY <1>16, <1>2, <1>5, <1>6, <1>7, <1>8, <1>9, <1>10, <1>11, <1>12, <1>13, <1>14, <1>15
  DEF ConsumerStep, ProcessStep

(* What enters a queue was live: without a fault a session ends, and a message
   is rejected or requeued, only while it is to be handled. *)
LEMMA QueuedWasLive ==
  ASSUME Bookkeeping, Apart, OneLive, ConsumerStep, faults' = 0,
         NEW m \in Message, m \in Queued'
  PROVE  Live(m)
<1>0. /\ TypeOK /\ LoopPlaces /\ faults = 0
      /\ unacked \in [Consumers -> SUBSET Message]
      /\ wire \in [Consumers -> Seq(Frame)]
  BY FaultsCounted DEF Bookkeeping, TypeOK, BrokerTypeOK
<1>1. CASE m \in Queued
  BY <1>1 DEF Live
<1>2. ASSUME NEW c \in Consumers, BrokerEndsSession(c), m \notin Queued
      PROVE  Live(m)
  <2>1. m \in unacked[c] /\ ~linkUp[c]
    BY <1>2 DEF BrokerEndsSession, EndSession, Queued
  <2>2. pc[c] = "down" /\ wire[c] = <<>>
    BY <1>0, <2>1 DEF OneLive
  <2>3. ~Spent(c)
    BY <2>2 DEF Spent
  <2> QED
    BY <2>1, <2>3 DEF Live
<1>3. ASSUME NEW c \in Consumers, BrokerHandlesFrame(c), m \notin Queued
      PROVE  Live(m)
  <2>1. HandleFrame(c)
    BY <1>3 DEF BrokerHandlesFrame
  <2>2. PICK f \in Frame :
           /\ session[c] /\ wire[c] # <<>> /\ f = wire[c][1] /\ f.msg \in Message
           /\ retryQueue' = retryQueue \cup {x \in {f.msg} : f.op = "publish"}
           /\ deadLetterQueue' = deadLetterQueue \cup {x \in {f.msg} : f.op = "reject"}
           /\ orderQueue' = orderQueue \cup {x \in {f.msg} : f.op = "requeue"}
    BY <1>0, <2>1, FrameEffect
  <2>3. 1 \in DOMAIN wire[c]
    BY <1>0, <2>2, TailFrame
  <2>4. m = f.msg /\ f.op \in {"publish", "reject", "requeue"}
    BY <1>3, <2>2 DEF Queued
  <2>5. CASE f.op = "publish"
    <3>1. f = [op |-> "publish", msg |-> m]
      BY <2>4, <2>5 DEF Frame
    <3>2. m \in Published(c)
      BY <2>2, <2>3, <3>1 DEF Published, PublishedIn
    <3> QED
      BY <3>2 DEF Live
  <2>6. CASE f.op # "publish"
    <3>1. m \in unacked[c]
      BY <2>2, <2>3, <2>4, <2>6 DEF Bookkeeping, SettledOnce
    <3>2. linkUp[c]
      BY <1>0, <2>2 DEF OneLive
    <3>3. Settling(c)
      BY <2>2, <2>3, <2>6 DEF Settling, Settlement
    <3>4. pc[c] \notin Busy
      BY <3>2, <3>3 DEF Bookkeeping, LoopPlaces, HeldUnsettled, InHand
    <3>5. \A i \in DOMAIN wire[c] : wire[c][i].op = "ack" => i = 1
      BY <2>2, <2>3, <2>6, SettlementsOfOne DEF Bookkeeping, Settlement
    <3>6. ~Spent(c)
      BY <2>2, <2>4, <3>4, <3>5 DEF Spent, Busy
    <3> QED
      BY <3>1, <3>6 DEF Live
  <2> QED
    BY <2>5, <2>6
<1>4. ASSUME NEW n \in retryQueue, BrokerExpiresRetry(n)
      PROVE  Queued' = Queued
  BY <1>4 DEF BrokerExpiresRetry, RetryExpires, Queued
<1>5. ASSUME NEW c \in Consumers, NEW n \in orderQueue, Deliver(c, n)
      PROVE  Queued' \subseteq Queued
  BY <1>5 DEF Deliver, Push, Queued
<1>6. ASSUME NEW c \in Consumers, Start(c) \/ ProcessStep(c) \/ Signal(c) \/ Crash(c) \/ LoseConnection(c)
      PROVE  Queued' = Queued
  BY <1>6 DEF Start, OpenSession, ProcessStep, Receive, SeeShutdown, SeeClosed,
         StartHandling, LookupPrice, Claims, ClaimsUnheard, ClaimsNothing,
         AckSuccess, DeadLetter, PublishRetry, PublishRetryFails, AckAfterCopy,
         Exit, Signal, Crash, LoseConnection, QueuesUnchanged, brokerVars, Queued
<1>7. ASSUME NEW o \in Orders, LateOutcome(o)
      PROVE  Queued' = Queued
  BY <1>7, LateElsewhere DEF Queued
<1> QED
  BY <1>7, <1>1, <1>2, <1>3, <1>4, <1>5, <1>6 DEF ConsumerStep

(* Only a retry makes a message that is to be handled, from one that was. *)
LEMMA LiveSource ==
  ASSUME Bookkeeping, Apart, OneLive, ConsumerStep, faults' = 0,
         NEW m \in Message, Live(m)'
  PROVE  \/ Live(m)
         \/ \E c \in Consumers :
              /\ PublishRetry(c) /\ m.id = FreshId
              /\ m.order = current[c].order /\ m.body = current[c].body
              /\ m.attempt = current[c].attempt + 1
<1>0. /\ TypeOK /\ LoopPlaces
      /\ unacked \in [Consumers -> SUBSET Message]
  BY DEF Bookkeeping, TypeOK, BrokerTypeOK
<1>1. CASE m \in Queued'
  BY <1>1, QueuedWasLive
<1>2. ASSUME NEW c \in Consumers, m \in unacked'[c], ~Spent(c)'
      PROVE  Live(m)
  <2>1. CASE m \in unacked[c]
    BY <1>2, <2>1, SpentStays DEF Live
  <2>2. CASE m \notin unacked[c]
    <3>1. ASSUME NEW d \in Consumers, NEW n \in orderQueue, Deliver(d, n)
          PROVE  m \in orderQueue
      BY <1>0, <1>2, <2>2, <3>1 DEF Deliver, Push
    <3>2. ASSUME NEW d \in Consumers, BrokerEndsSession(d) \/ BrokerHandlesFrame(d)
          PROVE  unacked'[c] \subseteq unacked[c]
      BY <1>0, <3>2 DEF BrokerEndsSession, EndSession, BrokerHandlesFrame, HandleFrame
    <3>3. ASSUME NEW d \in Consumers, Start(d) \/ ProcessStep(d) \/ Signal(d) \/ Crash(d) \/ LoseConnection(d)
          PROVE  UNCHANGED unacked
      BY <3>3 DEF Start, OpenSession, ProcessStep, Receive, SeeShutdown, SeeClosed,
             StartHandling, LookupPrice, Claims, ClaimsUnheard, ClaimsNothing,
             AckSuccess, DeadLetter, PublishRetry, PublishRetryFails, AckAfterCopy,
             Exit, Signal, Crash, LoseConnection, QueuesUnchanged, brokerVars
    <3>4. ASSUME NEW n \in retryQueue, BrokerExpiresRetry(n)
          PROVE  UNCHANGED unacked
      BY <3>4 DEF BrokerExpiresRetry, RetryExpires
    <3>6. ASSUME NEW o \in Orders, LateOutcome(o)
          PROVE  UNCHANGED unacked
      BY <3>6, LateElsewhere
    <3>5. m \in orderQueue
      BY <1>2, <2>2, <3>1, <3>2, <3>3, <3>4, <3>6 DEF ConsumerStep
    <3> QED
      BY <3>5 DEF Live, Queued
  <2> QED
    BY <2>1, <2>2
<1>3. ASSUME NEW c \in Consumers, m \in Published(c)'
      PROVE  \/ Live(m)
             \/ /\ PublishRetry(c) /\ m.id = FreshId
                /\ m.order = current[c].order /\ m.body = current[c].body
                /\ m.attempt = current[c].attempt + 1
  <2>1. PICK i \in DOMAIN wire'[c] : wire'[c][i] = [op |-> "publish", msg |-> m]
    BY <1>3 DEF Published, PublishedIn
  <2>2. FrameFrom(c, wire'[c][i])
    BY FrameSource
  <2>3. \/ \E j \in DOMAIN wire[c] : wire[c][j] = [op |-> "publish", msg |-> m]
        \/ /\ PublishRetry(c) /\ m.id = FreshId
           /\ m.order = current[c].order /\ m.body = current[c].body
           /\ m.attempt = current[c].attempt + 1
    BY <2>1, <2>2 DEF FrameFrom
  <2> QED
    BY <2>3 DEF Live, Published, PublishedIn
<1> QED
  BY <1>1, <1>2, <1>3 DEF Live

(* In every step without a fault: one message to be handled. *)
LEMMA OneLiveStep ==
  ASSUME Bookkeeping, Apart, OneLive, ConsumerStep
  PROVE  OneLive'
<1> SUFFICES ASSUME faults' = 0
             PROVE  /\ unheard' = {}
                    /\ \A c \in Consumers : ~linkUp'[c] => pc'[c] = "down" /\ wire'[c] = <<>>
                    /\ \A o \in Orders : status'[o] = "EXECUTED" => o \in routed'
                    /\ \A m \in Message : Live(m)' =>
                         /\ m.order \in routed' /\ status'[m.order] # "EXECUTED"
                         /\ \A n \in Message : Live(n)' /\ n.order = m.order => n = m
  BY DEF OneLive
<1>0. /\ TypeOK /\ LoopPlaces /\ faults = 0
      /\ wire \in [Consumers -> Seq(Frame)] /\ pc \in [Consumers -> Place]
      /\ linkUp \in [Consumers -> BOOLEAN]
      /\ status \in [Orders -> OrderStatus]
  BY FaultsCounted DEF Bookkeeping, TypeOK, BrokerTypeOK, LedgerTypeOK
<1>1. ASSUME NEW c \in Consumers, ~linkUp'[c]
      PROVE  pc'[c] = "down" /\ wire'[c] = <<>>
  <2>0. ~linkUp[c] => pc[c] = "down" /\ wire[c] = <<>>
    BY <1>0 DEF OneLive
  <2>1. CASE linkUp[c]
    <3>1. Exit(c)
      BY <1>0, <1>1, <2>1, FaultsCounted, LinkLost
    <3> QED
      BY <1>0, <2>1, <3>1 DEF Exit, NextDelivery, Goto, brokerVars
  <2>2. CASE ~linkUp[c]
    <3>1. pc[c] = "down" /\ wire[c] = <<>> /\ ~Start(c)
      BY <1>0, <1>1, <2>0, <2>2 DEF Start
    <3>2. pc'[c] = "down"
      BY <1>0, <3>1, DownStays
    <3>3. wire'[c] = <<>>
      <4>1. ASSUME wire'[c] # <<>>
            PROVE  FALSE
        <5>1. wire'[c] \in Seq(Frame)
          BY BookkeepingStep DEF Bookkeeping, TypeOK, BrokerTypeOK
        <5>2. 1 \in DOMAIN wire'[c]
          BY <4>1, <5>1, TailFrame
        <5>3. FrameFrom(c, wire'[c][1])
          BY <5>2, FrameSource
        <5> QED
          BY <3>1, <5>3 DEF FrameFrom, PublishRetry, Busy, Handling
      <4> QED
        BY <4>1
    <3> QED
      BY <3>2, <3>3
  <2> QED
    BY <1>0, <2>1, <2>2
<1>2. routed' = routed
  BY RoutedKept
<1>10. unheard = {}
  BY <1>0 DEF OneLive
<1>11. \A o \in Orders : ~LateOutcome(o)
  BY <1>10 DEF LateOutcome
<1>3. \/ \E c \in Consumers : Claims(c)
      \/ UNCHANGED status
  BY <1>11, FaultsCounted
  DEF ConsumerStep, ProcessStep, BrokerExpiresRetry, Start, Deliver, Receive,
      SeeShutdown, SeeClosed, StartHandling, LookupPrice,
      ClaimsNothing, AckSuccess, DeadLetter, PublishRetry, PublishRetryFails,
      AckAfterCopy, Exit, Signal, BrokerEndsSession, BrokerHandlesFrame, ledgerVars
<1>12. unheard' = {}
  BY <1>10, <1>11, FaultsCounted
  DEF ConsumerStep, ProcessStep, BrokerExpiresRetry, Start, Deliver, Receive,
      SeeShutdown, SeeClosed, StartHandling, LookupPrice, Claims,
      ClaimsNothing, AckSuccess, DeadLetter, PublishRetry, PublishRetryFails,
      AckAfterCopy, Exit, Signal, BrokerEndsSession, BrokerHandlesFrame,
      consumerVars, incidentVars
<1>4. ASSUME NEW c \in Consumers, NEW m \in unacked'[c], Spent(c)'
      PROVE  ~Live(m)'
  <2>1. Apart'
    BY ApartStep
  <2>2. m \in Kept'
    BY DEF Kept
  <2>3. m \notin Queued' /\ \A d \in Consumers \ {c} : m \notin unacked'[d]
    BY <2>1 DEF Apart
  <2>4. \A d \in Consumers : m \notin Published(d)'
    BY <2>1, <2>2 DEF Apart
  <2> QED
    BY <1>4, <2>3, <2>4 DEF Live
<1>5. ASSUME NEW c \in Consumers, Claims(c)
      PROVE  /\ current[c] \in Message /\ Live(current[c]) /\ ~Live(current[c])'
             /\ \A o \in Orders : status'[o] = "EXECUTED" =>
                  o = current[c].order \/ status[o] = "EXECUTED"
             /\ \A d \in Consumers : ~PublishRetry(d)
  <2>1. pc[c] = "executing" /\ pc' = [pc EXCEPT ![c] = "succeeded"] /\ UNCHANGED brokerVars
    BY <1>5 DEF Claims, Goto
  <2>2. PICK m \in Message : m = current[c] /\ m \in unacked[c] /\ Live(m)
    <3>1. pc[c] \in Busy \ {"succeeded", "copied"}
      BY <2>1 DEF Busy, Handling
    <3> QED
      BY <1>0, <3>1, HandledIsLive
  <2>3. m \in unacked'[c] /\ Spent(c)'
    BY <1>0, <2>1, <2>2 DEF Spent, brokerVars
  <2>4. ~Live(m)'
    BY <1>4, <2>3
  <2>5. UNCHANGED <<Queued, unacked, current>>
    BY <1>5 DEF Claims, brokerVars, Queued
  <2>6. ~Live(current[c])'
    BY <2>2, <2>4, <2>5
  <2>7. \A o \in Orders : status'[o] = "EXECUTED" => o = m.order \/ status[o] = "EXECUTED"
    BY <1>0, <1>5, <2>2 DEF Claims, ClaimOrder
  <2>8. \A d \in Consumers : ~PublishRetry(d)
    BY <1>0, <2>1 DEF PublishRetry, Goto
  <2> QED
    BY <2>2, <2>6, <2>7, <2>8
<1>6. ASSUME NEW c \in Consumers, PublishRetry(c)
      PROVE  /\ current[c] \in Message /\ Live(current[c]) /\ ~Live(current[c])'
             /\ UNCHANGED status
             /\ \A d \in Consumers : PublishRetry(d) => d = c
  <2>1. /\ pc[c] = "transient" /\ pc' = [pc EXCEPT ![c] = "copied"]
        /\ UNCHANGED <<Queued, unacked, current, status>>
    BY <1>6 DEF PublishRetry, Goto, QueuesUnchanged, Queued, ledgerVars
  <2>2. PICK m \in Message : m = current[c] /\ m \in unacked[c] /\ Live(m)
    <3>1. pc[c] \in Busy \ {"succeeded", "copied"}
      BY <2>1 DEF Busy
    <3> QED
      BY <1>0, <3>1, HandledIsLive
  <2>3. m \in unacked'[c] /\ Spent(c)'
    BY <1>0, <2>1, <2>2 DEF Spent
  <2>4. ~Live(m)'
    BY <1>4, <2>3
  <2>5. ~Live(current[c])'
    BY <2>1, <2>2, <2>4 DEF Live
  <2>6. \A d \in Consumers : PublishRetry(d) => d = c
    BY <1>0, <2>1 DEF PublishRetry, Goto
  <2> QED
    BY <2>1, <2>2, <2>5, <2>6
<1>7. ASSUME NEW o \in Orders, status'[o] = "EXECUTED"
      PROVE  o \in routed
  <2>1. CASE status[o] = "EXECUTED"
    BY <1>0, <2>1 DEF OneLive
  <2>2. ASSUME NEW c \in Consumers, Claims(c), o = current[c].order
        PROVE  o \in routed
    BY <1>0, <1>5, <2>2 DEF OneLive
  <2> QED
    BY <1>3, <1>5, <1>7, <2>1, <2>2
<1>8. ASSUME NEW m \in Message, Live(m)
      PROVE  /\ m.order \in routed /\ status[m.order] # "EXECUTED" /\ m.order \in Orders
             /\ \A n \in Message : Live(n) /\ n.order = m.order => n = m
  BY <1>0, <1>8 DEF OneLive, Message
<1>9. ASSUME NEW m \in Message, Live(m)'
      PROVE  /\ m.order \in routed' /\ status'[m.order] # "EXECUTED"
             /\ \A n \in Message : Live(n)' /\ n.order = m.order => n = m
  <2>1. CASE \E c \in Consumers : PublishRetry(c)
    <3>1. PICK c \in Consumers : PublishRetry(c)
      BY <2>1
    <3>2. PICK k \in Message : k = current[c] /\ Live(k) /\ ~Live(current[c])'
      BY <1>6, <3>1
    <3>3. ~Live(k)'
      BY <3>1, <3>2 DEF PublishRetry, Live
    <3>4. ASSUME NEW n \in Message, Live(n)'
          PROVE  \/ Live(n) /\ n.order # k.order
                 \/ /\ n.id = FreshId /\ n.order = k.order /\ n.body = k.body
                    /\ n.attempt = k.attempt + 1
      <4>1. CASE Live(n)
        <5>1. n # k
          BY <3>3, <3>4
        <5> QED
          BY <1>8, <3>2, <4>1, <5>1
      <4>2. CASE ~Live(n)
        BY <1>6, <3>1, <3>2, <3>4, <4>2, LiveSource
      <4> QED
        BY <4>1, <4>2
    <3>5. UNCHANGED status
      BY <1>6, <3>1
    <3>6. m.order \in routed' /\ status'[m.order] # "EXECUTED"
      BY <1>2, <1>8, <1>9, <3>2, <3>4, <3>5
    <3>7. ASSUME NEW n \in Message, Live(n)', n.order = m.order
          PROVE  n = m
      <4>1. CASE m.order = k.order
        <5>1. m.id = n.id /\ m.order = n.order /\ m.body = n.body /\ m.attempt = n.attempt
          BY <1>9, <3>4, <3>7, <4>1
        <5> QED
          BY <5>1 DEF Message
      <4>2. CASE m.order # k.order
        BY <1>8, <1>9, <3>4, <3>7, <4>2
      <4> QED
        BY <4>1, <4>2
    <3> QED
      BY <3>6, <3>7
  <2>2. CASE ~\E c \in Consumers : PublishRetry(c)
    <3>1. \A n \in Message : Live(n)' => Live(n)
      BY <2>2, LiveSource
    <3>2. status'[m.order] # "EXECUTED"
      <4>1. ASSUME NEW c \in Consumers, Claims(c)
            PROVE  status'[m.order] # "EXECUTED"
        <5>1. PICK k \in Message : k = current[c] /\ Live(k) /\ ~Live(current[c])'
          BY <1>5, <4>1
        <5>2. ~Live(k)'
          BY <4>1, <5>1 DEF Claims, Live
        <5>3. m # k /\ Live(m)
          BY <1>9, <3>1, <5>2
        <5>4. m.order # k.order
          BY <1>8, <5>1, <5>3
        <5> QED
          BY <1>5, <1>8, <4>1, <5>1, <5>3, <5>4
      <4> QED
        BY <1>3, <1>8, <1>9, <3>1, <4>1
    <3> QED
      BY <1>2, <1>8, <1>9, <3>1, <3>2
  <2> QED
    BY <2>1, <2>2
<1> QED
  BY <1>1, <1>2, <1>7, <1>9, <1>12

(* The message of an event that arrives is a new one. *)
LEMMA ApartRoute ==
  ASSUME Bookkeeping, Apart, NEW m \in Message, Unused(m.id),
         orderQueue' = orderQueue \cup {m},
         UNCHANGED <<retryQueue, deadLetterQueue, unacked, wire>>
  PROVE  Apart'
<1>1. m \notin Kept /\ \A c \in Consumers : m \notin Published(c)
  BY FreshIsNowhere DEF Unused
<1>2. m \notin Queued /\ \A c \in Consumers : m \notin unacked[c]
  BY <1>1 DEF Kept, Queued
<1>3. /\ Kept' = Kept \cup {m} /\ Queued' = Queued \cup {m}
      /\ \A c \in Consumers : Published(c)' = Published(c)
  BY DEF Kept, Queued, Published
<1>4. orderQueue' \cap retryQueue' = {} /\ orderQueue' \cap deadLetterQueue' = {}
  BY <1>2 DEF Apart, Queued
<1>5. \A c \in Consumers : unacked'[c] \cap Queued' = {} /\ Published(c)' \cap Kept' = {}
  BY <1>1, <1>2, <1>3 DEF Apart
<1> QED
  BY <1>3, <1>4, <1>5 DEF Apart

(* It is to be handled, and the only one of its order. *)
LEMMA OneLiveRoute ==
  ASSUME Bookkeeping, OneLive, NEW m \in Message, m.order \notin routed,
         orderQueue' = orderQueue \cup {m}, routed' = routed \cup {m.order},
         UNCHANGED <<retryQueue, deadLetterQueue, unacked, wire, ledgerVars, consumerVars>>
  PROVE  OneLive'
<1>0. UNCHANGED <<pc, linkUp, faults, unheard, status>>
  BY DEF ledgerVars, consumerVars, processVars, boundVars, incidentVars
<1>1. \A n \in Message : Live(n)' => Live(n) \/ n = m
  BY <1>0 DEF Live, Queued, Spent, Published
<1>2. m.order \in Orders
  BY DEF Message
<1> QED
  BY <1>0, <1>1, <1>2 DEF OneLive

(* One place for every message, and without a fault one message for every
   order, in every state. *)
LEMMA OneLiveInvariant == Spec => [](Bookkeeping /\ Apart /\ OneLive)
<1> DEFINE Inv == Bookkeeping /\ Apart /\ OneLive
<1>1. Init => Inv
  <2> SUFFICES ASSUME Init
               PROVE  Inv
    OBVIOUS
  <2>1. TypeOK /\ BrokerInit /\ ConsumerStateInit
    BY TypeInit DEF Init
  <2>2. Bookkeeping
    BY <2>1, BookkeepingInit
  <2>3. /\ Kept = {} /\ Queued = {}
        /\ \A c \in Consumers : Published(c) = {} /\ OncePublished(wire[c])
    BY <2>1 DEF BrokerInit, Kept, Queued, Published, PublishedIn, OncePublished
  <2>4. Apart
    BY <2>1, <2>3 DEF BrokerInit, Apart
  <2>5. \A m \in Message : ~Live(m)
    BY <2>1, <2>3 DEF BrokerInit, Live
  <2>6. \A o \in Orders : status[o] # "EXECUTED"
    BY DEF Init
  <2>7. OneLive
    BY <2>1, <2>5, <2>6 DEF BrokerInit, ConsumerStateInit, OneLive
  <2> QED
    BY <2>2, <2>4, <2>7
<1>2. Inv /\ [Next]_vars => Inv'
  <2> SUFFICES ASSUME Inv, [Next]_vars
               PROVE  Inv'
    OBVIOUS
  <2>1. ASSUME NEW o \in Orders, Announce(o)
        PROVE  Inv'
    <3>1. PICK body \in Bodies : RouteEvent(o, body)
      BY <2>1 DEF Announce
    <3>2. UNCHANGED <<ledgerVars, consumerVars>> /\ o \notin routed
      BY <2>1 DEF Announce
    <3>3. PICK m \in Message :
            /\ m.id = FreshId /\ Unused(FreshId) /\ m.order = o
            /\ orderQueue' = orderQueue \cup {m}
            /\ routed' = routed \cup {o}
            /\ UNCHANGED <<bound, retryQueue, deadLetterQueue, session, unacked, wire>>
      BY <3>1, RouteEffect
    <3>4. Bookkeeping'
      BY <3>1, <3>2, BookkeepingRoute
    <3>5. Apart'
      BY <3>3, ApartRoute
    <3>6. OneLive'
      BY <3>2, <3>3, OneLiveRoute
    <3> QED
      BY <3>4, <3>5, <3>6
  <2>2. CASE ConsumerStep
    BY <2>2, BookkeepingStep, ApartStep, OneLiveStep
  <2>3. CASE UNCHANGED vars
    <3>1. UNCHANGED <<brokerVars, ledgerVars, consumerVars>>
      BY <2>3 DEF vars
    <3>2. LedgerTypeOK'
      BY <3>1 DEF ledgerVars, Bookkeeping, TypeOK, LedgerTypeOK
    <3>3. Bookkeeping'
      BY <3>1, <3>2, BookkeepingIdle
    <3>4. Apart'
      BY <3>1 DEF brokerVars, Apart, Kept, Queued, Published
    <3>5. OneLive'
      BY <3>1
      DEF brokerVars, ledgerVars, consumerVars, processVars, boundVars, incidentVars,
          OneLive,
          Live, Queued, Spent, Published
    <3> QED
      BY <3>3, <3>4, <3>5
  <2> QED
    BY <2>1, <2>2, <2>3 DEF Next
<1> QED
  BY <1>1, <1>2, PTL DEF Spec

(* As long as there was no fault, no order is handled by two processes at a
   time, and none after it was executed: retries, more consumers and graceful
   shutdowns make no duplicates. *)
THEOREM DuplicatesNeedFault == Spec => []NoDuplicateWithoutFault
<1>1. Bookkeeping /\ Apart /\ OneLive => NoDuplicateWithoutFault
  <2> SUFFICES ASSUME Bookkeeping, Apart, OneLive, faults = 0,
                      NEW c \in Consumers, pc[c] \in Handling
               PROVE  /\ status[current[c].order] # "EXECUTED"
                      /\ \A d \in Consumers \ {c} :
                           pc[d] \in Handling => current[d].order # current[c].order
    BY DEF NoDuplicateWithoutFault
  <2>1. ASSUME NEW d \in Consumers, pc[d] \in Handling
        PROVE  current[d] \in Message /\ current[d] \in unacked[d] /\ Live(current[d])
    <3>1. pc[d] \in Busy \ {"succeeded", "copied"}
      BY <2>1 DEF Busy, Handling
    <3> QED
      BY <3>1, HandledIsLive
  <2>2. PICK m \in Message : m = current[c] /\ m \in unacked[c] /\ Live(m)
    BY <2>1
  <2>3. status[m.order] # "EXECUTED"
    BY <2>2 DEF OneLive
  <2>4. ASSUME NEW d \in Consumers \ {c}, pc[d] \in Handling, current[d].order = m.order
        PROVE  FALSE
    <3>1. PICK n \in Message : n = current[d] /\ n \in unacked[d] /\ Live(n)
      BY <2>1, <2>4
    <3>2. n = m
      BY <2>2, <2>4, <3>1 DEF OneLive
    <3> QED
      BY <2>2, <3>1, <3>2 DEF Apart
  <2> QED
    BY <2>2, <2>3, <2>4
<1> QED
  BY <1>1, OneLiveInvariant, PTL

-----------------------------------------------------------------------------
(* A signalled process takes no new work. *)

(* In every step a process that saw the signal between deliveries goes on to
   stop: it may still take a delivery from the buffer, and leaves it unacked. *)
THEOREM SignalStopsWork == Spec => NoNewWorkAfterSignal
<1> DEFINE Quiet(c) == ctxDone[c] /\ pc[c] \in {"select", "received", "closing"}
           Still(c) == pc'[c] \in {"select", "received", "closing", "down"}
<1>1. Bookkeeping /\ [Next]_vars => [\A c \in Consumers : Quiet(c) => Still(c)]_vars
  <2> SUFFICES ASSUME Bookkeeping, Next, NEW c \in Consumers, Quiet(c)
               PROVE  Still(c)
    OBVIOUS
  <2>0. pc \in [Consumers -> Place]
    BY DEF Bookkeeping, TypeOK
  <2>1. CASE UNCHANGED pc
    BY <2>1
  <2>2. ASSUME NEW d \in Consumers, Start(d) \/ Receive(d) \/ SeeShutdown(d) \/ SeeClosed(d)
                 \/ Exit(d) \/ Crash(d)
        PROVE  Still(c)
    BY <2>0, <2>2 DEF Start, Receive, SeeShutdown, SeeClosed, Exit, Crash,
                      NextDelivery, Goto
  <2>3. ASSUME NEW d \in Consumers, StartHandling(d)
        PROVE  Still(c)
    BY <2>0, <2>3 DEF StartHandling, Fails, Goto
  <2>4. ASSUME NEW d \in Consumers, LookupPrice(d) \/ Claims(d) \/ ClaimsUnheard(d) \/ ClaimsNothing(d)
        PROVE  pc'[c] = pc[c]
    BY <2>0, <2>4 DEF LookupPrice, Claims, ClaimsUnheard, ClaimsNothing, Fails, Goto
  <2>5. ASSUME NEW d \in Consumers,
               \/ AckSuccess(d) \/ AckAfterCopy(d) \/ DeadLetter(d)
               \/ PublishRetry(d) \/ PublishRetryFails(d)
        PROVE  pc'[c] = pc[c]
    BY <2>0, <2>5 DEF AckSuccess, AckAfterCopy, DeadLetter, PublishRetry,
           PublishRetryFails, NextDelivery, Goto
  <2>6. ASSUME NEW d \in Consumers,
               \/ Signal(d) \/ LoseConnection(d) \/ BrokerEndsSession(d) \/ BrokerHandlesFrame(d)
               \/ \E m \in orderQueue : Deliver(d, m)
        PROVE  UNCHANGED pc
    BY <2>6 DEF Signal, LoseConnection, BrokerEndsSession, BrokerHandlesFrame, Deliver,
           consumerVars, processVars
  <2>7. CASE \E m \in retryQueue : BrokerExpiresRetry(m)
    BY <2>1, <2>7 DEF BrokerExpiresRetry, consumerVars, processVars
  <2>8. CASE \E o \in Orders : Announce(o)
    BY <2>1, <2>8 DEF Announce, consumerVars, processVars
  <2>9. CASE UNCHANGED vars
    BY <2>1, <2>9 DEF vars, consumerVars, processVars
  <2>10. CASE \E o \in Orders : LateOutcome(o)
    BY <2>1, <2>10, LateElsewhere
  <2> QED
    BY <2>10, <2>1, <2>2, <2>3, <2>4, <2>5, <2>6, <2>7, <2>8, <2>9
    DEF Next, ConsumerStep, ProcessStep
<1> QED
  BY <1>1, BookkeepingInvariant, PTL DEF Spec, NoNewWorkAfterSignal

-----------------------------------------------------------------------------
(* Retries are bounded. *)

(* A session's delivery is in hand or its settlement is on the way, as long
   as the process has its connection. *)
UnackedHeld ==
  \A c \in Consumers : linkUp[c] => \A m \in unacked[c] : m \in InHand(c) \/ Settling(c)

Requeueing(c) == \E i \in DOMAIN wire[c] : wire[c][i].op = "requeue"

(* The attempts that the delivery m of consumer c may still lead to, by their
   numbers: all from its own, until it fails; a signal may add one, as a
   canceled publish of the copy repeats the attempt. *)
Awaits(c, m, k) ==
  /\ m \in unacked[c]
  /\ \/ /\ k > m.attempt
        /\ \/ ~linkUp[c]
           \/ Requeueing(c)
           \/ m \in inbox[c]
           \/ m = current[c] /\ pc[c] \in {"received", "closing"} \cup Handling
     \/ m = current[c] /\ k > m.attempt + 1 /\ pc[c] = "transient"
     \/ /\ m = current[c] /\ ctxDone[c] /\ linkUp[c]
        /\ \/ k = m.attempt /\ pc[c] \in Handling
           \/ k = m.attempt + 1 /\ pc[c] = "transient"

SessionLeft(c, m, k) == Awaits(c, m, k) \/ (m \in Published(c) /\ k > m.attempt)

(* Message m may still be handled for the attempt k. *)
Left(m, k) ==
  \/ m \in orderQueue \cup retryQueue /\ k > m.attempt
  \/ \E c \in Consumers : SessionLeft(c, m, k)

(* A process without a connection may fail once more, with what it has in
   hand. *)
Zombie(c, o) ==
  /\ ~linkUp[c] /\ pc[c] \in {"select", "received"} \cup Handling
  /\ \E m \in InHand(c) : m.order = o

(* The failures that order o may still have, one element for each. *)
Pending(o) ==
  {t \in Message \X (0 .. MaxDeliveryAttempts) : t[1].order = o /\ Left(t[1], t[2])}
    \cup {c \in Consumers : Zombie(c, o)} \X {MaxDeliveryAttempts + 1}

Allowance(o) ==
  MaxDeliveryAttempts * (faults + (IF o \in routed THEN 1 ELSE 0)) + stops

WithinAllowance(o) ==
  IsFiniteSet(Pending(o)) /\ failures[o] + Cardinality(Pending(o)) <= Allowance(o)

AttemptsLimited == UnackedHeld /\ \A o \in Orders : WithinAllowance(o)

-----------------------------------------------------------------------------
(* Counting. *)

(* What is left of a finite set after some of its elements were exchanged. *)
LEMMA Exchange ==
  ASSUME NEW T, IsFiniteSet(T), NEW A \in SUBSET T, NEW B, IsFiniteSet(B),
         NEW S, S \subseteq (T \ A) \cup B
  PROVE  /\ IsFiniteSet(S) /\ Cardinality(S) \in Nat /\ Cardinality(T) \in Nat
         /\ Cardinality(S) + Cardinality(A) <= Cardinality(T) + Cardinality(B)
<1>1. IsFiniteSet(A) /\ Cardinality(A) \in Nat /\ Cardinality(A) <= Cardinality(T)
  BY FS_Subset, FS_CardinalityType
<1>2. Cardinality(T) \in Nat /\ Cardinality(B) \in Nat
  BY FS_CardinalityType
<1>3. IsFiniteSet(T \ A) /\ Cardinality(T \ A) = Cardinality(T) - Cardinality(A)
  <2>1. T \cap A = A
    OBVIOUS
  <2> QED
    BY <2>1, FS_Difference
<1>4. /\ IsFiniteSet((T \ A) \cup B) /\ IsFiniteSet((T \ A) \cap B)
      /\ Cardinality((T \ A) \cup B) =
           Cardinality(T \ A) + Cardinality(B) - Cardinality((T \ A) \cap B)
  <2>1. IsFiniteSet((T \ A) \cap B)
    BY <1>3, FS_Intersection
  <2> QED
    BY <1>3, <2>1, FS_Union
<1>5. Cardinality((T \ A) \cap B) \in Nat /\ Cardinality((T \ A) \cup B) \in Nat
  BY <1>4, FS_CardinalityType
<1>6. IsFiniteSet(S) /\ Cardinality(S) <= Cardinality((T \ A) \cup B)
  BY <1>4, FS_Subset
<1>7. Cardinality(S) \in Nat
  BY <1>6, FS_CardinalityType
<1>8. Cardinality(S) + Cardinality(A) <= Cardinality(T) + Cardinality(B)
  BY ONLY <1>1, <1>2, <1>3, <1>4, <1>5, <1>6, <1>7
<1> QED
  BY <1>2, <1>6, <1>7, <1>8

(* The attempts of one message. *)
LEMMA OneMessage ==
  ASSUME NEW m, NEW i \in Nat, NEW j \in Nat
  PROVE  /\ IsFiniteSet({m} \X (i .. j))
         /\ Cardinality({m} \X (i .. j)) = IF i > j THEN 0 ELSE j - i + 1
<1>1. IsFiniteSet(i .. j) /\ Cardinality(i .. j) = IF i > j THEN 0 ELSE j - i + 1
  BY FS_Interval
<1>2. IsFiniteSet({m}) /\ Cardinality({m}) = 1
  BY FS_Singleton
<1>3. /\ IsFiniteSet({m} \X (i .. j))
      /\ Cardinality({m} \X (i .. j)) = Cardinality({m}) * Cardinality(i .. j)
  BY <1>1, <1>2, FS_Product
<1>4. Cardinality(i .. j) \in Nat
  BY <1>1, FS_CardinalityType
<1>5. Cardinality({m}) * Cardinality(i .. j) = Cardinality(i .. j)
  BY <1>2, <1>4
<1> QED
  BY <1>1, <1>3, <1>5

(* A session's delivery has MaxDeliveryAttempts at most. *)
LEMMA OneDelivery ==
  ASSUME Bookkeeping, NEW c \in Consumers
  PROVE  /\ IsFiniteSet(unacked[c] \X (1 .. MaxDeliveryAttempts))
         /\ Cardinality(unacked[c] \X (1 .. MaxDeliveryAttempts)) \in Nat
         /\ Cardinality(unacked[c] \X (1 .. MaxDeliveryAttempts)) <= MaxDeliveryAttempts
<1>0. MaxDeliveryAttempts \in Nat /\ MaxDeliveryAttempts >= 1
  BY BrokerAssumption
<1>1. CASE unacked[c] = {}
  <2>1. unacked[c] \X (1 .. MaxDeliveryAttempts) = {}
    BY <1>1
  <2> QED
    BY <1>0, <2>1, FS_EmptySet
<1>2. CASE unacked[c] # {}
  <2>1. PICK m : unacked[c] = {m}
    BY <1>2 DEF Bookkeeping, Sessions
  <2>2. /\ IsFiniteSet({m} \X (1 .. MaxDeliveryAttempts))
        /\ Cardinality({m} \X (1 .. MaxDeliveryAttempts)) =
             IF 1 > MaxDeliveryAttempts THEN 0 ELSE MaxDeliveryAttempts - 1 + 1
    BY <1>0, OneMessage
  <2>3. Cardinality({m} \X (1 .. MaxDeliveryAttempts)) = MaxDeliveryAttempts
    BY <1>0, <2>2
  <2> QED
    BY <1>0, <2>1, <2>2, <2>3
<1> QED
  BY <1>1, <1>2

(* How the failures an order may still have change in a step, from what its
   messages and processes do. *)
LEMMA PendingStep ==
  ASSUME NEW o \in Orders, IsFiniteSet(Pending(o)),
         NEW A \in SUBSET Pending(o), NEW B, IsFiniteSet(B),
         \A m \in Message, k \in 0 .. MaxDeliveryAttempts :
           m.order = o /\ Left(m, k)' => (Left(m, k) /\ <<m, k>> \notin A) \/ <<m, k>> \in B,
         \A c \in Consumers : Zombie(c, o)' =>
           \/ Zombie(c, o) /\ <<c, MaxDeliveryAttempts + 1>> \notin A
           \/ <<c, MaxDeliveryAttempts + 1>> \in B
  PROVE  /\ IsFiniteSet(Pending(o)')
         /\ Cardinality(Pending(o)') \in Nat /\ Cardinality(Pending(o)) \in Nat
         /\ Cardinality(Pending(o)') + Cardinality(A) <= Cardinality(Pending(o)) + Cardinality(B)
<1>1. ASSUME NEW t \in Pending(o)'
      PROVE  t \in (Pending(o) \ A) \cup B
  <2>1. CASE /\ t \in Message \X (0 .. MaxDeliveryAttempts)
             /\ t[1].order = o /\ Left(t[1], t[2])'
    <3>1. PICK m \in Message, k \in 0 .. MaxDeliveryAttempts : t = <<m, k>>
      BY <2>1
    <3>2. m.order = o /\ Left(m, k)'
      BY <2>1, <3>1
    <3>3. (Left(m, k) /\ <<m, k>> \notin A) \/ <<m, k>> \in B
      BY <3>2
    <3> QED
      BY <3>1, <3>2, <3>3 DEF Pending
  <2>2. CASE t \in {c \in Consumers : Zombie(c, o)'} \X {MaxDeliveryAttempts + 1}
    <3>1. PICK c \in Consumers : t = <<c, MaxDeliveryAttempts + 1>> /\ Zombie(c, o)'
      BY <2>2
    <3> QED
      BY <3>1 DEF Pending
  <2> QED
    BY <1>1, <2>1, <2>2 DEF Pending
<1> QED
  BY <1>1, Exchange

-----------------------------------------------------------------------------
(* What the steps do to the attempts that are left. *)

(* A step keeps a session's delivery with its process, or its settlement on
   the way. *)
LEMMA UnackedHeldStep == Bookkeeping /\ UnackedHeld /\ ConsumerStep => UnackedHeld'
<1> SUFFICES ASSUME Bookkeeping, UnackedHeld, ConsumerStep
             PROVE  UnackedHeld'
  OBVIOUS
<1> USE DEF Bookkeeping
<1>0. /\ session \in [Consumers -> BOOLEAN] /\ linkUp \in [Consumers -> BOOLEAN]
      /\ unacked \in [Consumers -> SUBSET Message]
      /\ wire \in [Consumers -> Seq(Frame)]
      /\ inbox \in [Consumers -> SUBSET Message]
      /\ current \in [Consumers -> Message \cup {NoMessage}]
  BY DEF TypeOK, BrokerTypeOK
<1>1. ASSUME NEW m \in retryQueue, BrokerExpiresRetry(m)
      PROVE  UnackedHeld'
  BY <1>1 DEF BrokerExpiresRetry, RetryExpires, consumerVars, processVars,
              UnackedHeld, InHand, Settling
<1>2. ASSUME NEW c \in Consumers, Start(c)
      PROVE  UnackedHeld'
  <2>1. unacked[c] = {}
    BY <1>2 DEF Start, OpenSession, Sessions
  <2>2. /\ \A d \in Consumers \ {c} : linkUp'[d] = linkUp[d]
        /\ UNCHANGED <<unacked, wire, inbox, current>>
    BY <1>0, <1>2 DEF Start, OpenSession
  <2> QED
    BY <2>1, <2>2 DEF UnackedHeld, InHand, Settling
<1>3. ASSUME NEW c \in Consumers, NEW m \in orderQueue, Deliver(c, m)
      PROVE  UnackedHeld'
  <2>1. /\ \A d \in Consumers \ {c} : inbox'[d] = inbox[d] /\ unacked'[d] = unacked[d]
        /\ inbox'[c] = {m} /\ unacked'[c] = {m}
        /\ UNCHANGED <<linkUp, wire, current>>
    BY <1>0, <1>3 DEF Deliver, Push
  <2> QED
    BY <2>1 DEF UnackedHeld, InHand, Settling
<1>4. ASSUME NEW c \in Consumers, Receive(c)
      PROVE  UnackedHeld'
  <2>1. PICK m \in inbox[c] : current' = [current EXCEPT ![c] = m]
    BY <1>4 DEF Receive
  <2>2. /\ \A d \in Consumers \ {c} : inbox'[d] = inbox[d] /\ current'[d] = current[d]
        /\ current'[c] = m /\ m \in Message
        /\ UNCHANGED <<linkUp, wire, unacked>>
    BY <1>0, <1>4, <2>1 DEF Receive, brokerVars
  <2>3. current[c] = NoMessage
    BY <1>4 DEF Receive, LoopPlaces
  <2>4. ASSUME linkUp[c], NEW x \in unacked[c]
        PROVE  x \in InHand(c)' \/ Settling(c)'
    <3>1. m \in unacked[c]
      BY <2>1, <2>4 DEF HeldUnsettled, InHand
    <3>2. x = m
      BY <2>4, <3>1 DEF Sessions
    <3> QED
      BY <2>2, <3>2, ConsumerAssumption DEF InHand
  <2> QED
    BY <2>2, <2>4 DEF UnackedHeld, InHand, Settling
<1>5. ASSUME NEW c \in Consumers, SeeShutdown(c) \/ SeeClosed(c) \/ Signal(c)
      PROVE  UnackedHeld'
  BY <1>5 DEF SeeShutdown, SeeClosed, Signal, brokerVars, UnackedHeld, InHand, Settling
<1>6. ASSUME NEW c \in Consumers, Exit(c) \/ Crash(c)
      PROVE  UnackedHeld'
  <2>1. /\ \A d \in Consumers \ {c} :
             inbox'[d] = inbox[d] /\ current'[d] = current[d] /\ linkUp'[d] = linkUp[d]
        /\ ~linkUp'[c]
        /\ UNCHANGED <<wire, unacked>>
    BY <1>0, <1>6 DEF Exit, Crash, NextDelivery, brokerVars
  <2> QED
    BY <2>1 DEF UnackedHeld, InHand, Settling
<1>7. ASSUME NEW c \in Consumers, LoseConnection(c)
      PROVE  UnackedHeld'
  <2>1. /\ \A d \in Consumers \ {c} :
             inbox'[d] = inbox[d] /\ current'[d] = current[d] /\ linkUp'[d] = linkUp[d]
        /\ ~linkUp'[c]
        /\ UNCHANGED <<wire, unacked>>
    BY <1>0, <1>7 DEF LoseConnection, brokerVars
  <2> QED
    BY <2>1 DEF UnackedHeld, InHand, Settling
<1>8. ASSUME NEW c \in Consumers,
             \/ StartHandling(c) \/ LookupPrice(c)
             \/ Claims(c) \/ ClaimsUnheard(c) \/ ClaimsNothing(c)
      PROVE  UnackedHeld'
  BY <1>8, HandlerShape DEF Handles, brokerVars, UnackedHeld, InHand, Settling
<1>9. ASSUME NEW c \in Consumers, NEW op \in {"ack", "reject", "requeue"}, Settles(c, op)
      PROVE  UnackedHeld'
  <2>1. PICK m \in Message :
          /\ current' = [current EXCEPT ![c] = NoMessage]
          /\ \A d \in Consumers \ {c} : wire'[d] = wire[d]
          /\ linkUp[c] => wire'[c] = Append(wire[c], [op |-> op, msg |-> m])
    BY <1>9, SettlesEffect
  <2>2. UNCHANGED <<linkUp, unacked, inbox>>
    BY <1>9 DEF Settles, QueuesUnchanged
  <2>3. [op |-> op, msg |-> m] \in Frame
    BY DEF Frame
  <2>4. linkUp[c] => Settling(c)'
    BY <1>0, <2>1, <2>3, AppendFrame DEF Settling, Settlement
  <2> QED
    BY <1>0, <2>1, <2>2, <2>4 DEF UnackedHeld, InHand, Settling
<1>10. ASSUME NEW c \in Consumers, PublishRetry(c)
       PROVE  UnackedHeld'
  <2>1. PICK n \in Message :
          /\ \A d \in Consumers \ {c} : wire'[d] = wire[d]
          /\ wire'[c] = Append(wire[c], [op |-> "publish", msg |-> n])
    BY <1>10, PublishEffect
  <2>2. UNCHANGED <<linkUp, unacked, inbox, current>>
    BY <1>10 DEF PublishRetry, QueuesUnchanged
  <2>3. [op |-> "publish", msg |-> n] \in Frame
    BY DEF Frame
  <2>4. ASSUME NEW i \in DOMAIN wire[c], Settlement(wire[c][i])
        PROVE  Settling(c)'
    <3>1. /\ i \in DOMAIN Append(wire[c], [op |-> "publish", msg |-> n])
          /\ Append(wire[c], [op |-> "publish", msg |-> n])[i] = wire[c][i]
      BY <1>0, <2>3, AppendFrame
    <3> QED
      BY <2>1, <2>4, <3>1 DEF Settling, Settlement
  <2>5. Settling(c) => Settling(c)'
    BY <2>4 DEF Settling
  <2> QED
    BY <1>0, <2>1, <2>2, <2>5 DEF UnackedHeld, InHand, Settling
<1>11. ASSUME NEW c \in Consumers, BrokerEndsSession(c)
       PROVE  UnackedHeld'
  <2>1. /\ \A d \in Consumers \ {c} : wire'[d] = wire[d] /\ unacked'[d] = unacked[d]
        /\ UNCHANGED <<linkUp, inbox, current>> /\ ~linkUp[c]
    BY <1>0, <1>11 DEF BrokerEndsSession, EndSession, consumerVars, processVars
  <2> QED
    BY <2>1 DEF UnackedHeld, InHand, Settling
<1>12. ASSUME NEW c \in Consumers, BrokerHandlesFrame(c)
       PROVE  UnackedHeld'
  <2>1. PICK f \in Frame :
          /\ session[c] /\ wire[c] # <<>> /\ f = wire[c][1]
          /\ \A d \in Consumers \ {c} : unacked'[d] = unacked[d] /\ wire'[d] = wire[d]
          /\ unacked'[c] = unacked[c] \ {x \in {f.msg} : f.op # "publish"}
          /\ wire'[c] = Tail(wire[c])
    BY <1>12, FrameEffect DEF BrokerHandlesFrame
  <2>2. UNCHANGED <<linkUp, inbox, current>>
    BY <1>12 DEF BrokerHandlesFrame, consumerVars, processVars
  <2>3. 1 \in DOMAIN wire[c]
    BY <1>0, <2>1, TailFrame
  <2>4. CASE f.op # "publish"
    <3>1. f.msg \in unacked[c]
      BY <2>1, <2>3, <2>4 DEF SettledOnce
    <3>2. unacked'[c] = {}
      BY <2>1, <2>4, <3>1 DEF Sessions
    <3> QED
      BY <2>1, <2>2, <3>2 DEF UnackedHeld, InHand, Settling
  <2>5. CASE f.op = "publish"
    <3>1. unacked'[c] = unacked[c]
      BY <2>1, <2>5
    <3>2. ASSUME NEW i \in DOMAIN wire[c], Settlement(wire[c][i])
          PROVE  Settling(c)'
      <4>1. /\ Len(wire[c]) \in Nat /\ DOMAIN wire[c] = 1 .. Len(wire[c])
            /\ DOMAIN Tail(wire[c]) = 1 .. Len(wire[c]) - 1
            /\ \A j \in DOMAIN Tail(wire[c]) : Tail(wire[c])[j] = wire[c][j + 1]
        BY <1>0, <2>1, TailFrame
      <4>2. i # 1
        BY <2>1, <2>5, <3>2 DEF Settlement
      <4>3. i - 1 \in DOMAIN Tail(wire[c]) /\ wire[c][(i - 1) + 1] = wire[c][i]
        BY <4>1, <4>2
      <4>4. i - 1 \in DOMAIN wire'[c] /\ Settlement(wire'[c][i - 1])
        BY <2>1, <3>2, <4>1, <4>3
      <4> QED
        BY <4>4 DEF Settling, Settlement
    <3>3. Settling(c) => Settling(c)'
      BY <3>2 DEF Settling
    <3> QED
      BY <2>1, <2>2, <3>1, <3>3 DEF UnackedHeld, InHand, Settling
  <2> QED
    BY <2>4, <2>5
<1>13. ASSUME NEW o \in Orders, LateOutcome(o)
       PROVE  UnackedHeld'
  BY <1>13, LateElsewhere DEF UnackedHeld, InHand, Settling
<1> QED
  BY <1>13, <1>1, <1>2, <1>3, <1>4, <1>5, <1>6, <1>7, <1>8, <1>9, <1>10, <1>11, <1>12,
     SettlementShape
  DEF ConsumerStep, ProcessStep

(* The others do not notice. *)
ActsAlone(c) ==
  \A d \in Consumers \ {c} :
    /\ pc'[d] = pc[d] /\ inbox'[d] = inbox[d] /\ current'[d] = current[d]
    /\ linkUp'[d] = linkUp[d] /\ ctxDone'[d] = ctxDone[d]
    /\ unacked'[d] = unacked[d] /\ wire'[d] = wire[d]

(* The steps of consumer c, and of the broker for it. *)
StepOf(c) ==
  \/ Start(c)
  \/ \E m \in orderQueue : Deliver(c, m)
  \/ ProcessStep(c)
  \/ Signal(c)
  \/ Crash(c)
  \/ LoseConnection(c)
  \/ BrokerEndsSession(c)
  \/ BrokerHandlesFrame(c)

(* The steps of a consumer leave the others alone. *)
LEMMA StepsAlone ==
  ASSUME TypeOK, LoopPlaces, NEW c \in Consumers, StepOf(c)
  PROVE  ActsAlone(c)
<1>0. /\ linkUp \in [Consumers -> BOOLEAN] /\ ctxDone \in [Consumers -> BOOLEAN]
      /\ unacked \in [Consumers -> SUBSET Message]
      /\ wire \in [Consumers -> Seq(Frame)]
      /\ inbox \in [Consumers -> SUBSET Message]
      /\ current \in [Consumers -> Message \cup {NoMessage}]
      /\ pc \in [Consumers -> Place]
  BY DEF TypeOK, BrokerTypeOK
<1>1. CASE Start(c)
  BY <1>0, <1>1 DEF Start, OpenSession, Goto, ActsAlone
<1>2. ASSUME NEW m \in orderQueue, Deliver(c, m)
      PROVE  ActsAlone(c)
  BY <1>0, <1>2 DEF Deliver, Push, ActsAlone
<1>3. CASE Receive(c)
  BY <1>0, <1>3 DEF Receive, Goto, brokerVars, ActsAlone
<1>4. CASE SeeShutdown(c) \/ SeeClosed(c) \/ Signal(c)
  BY <1>0, <1>4 DEF SeeShutdown, SeeClosed, Signal, Goto, brokerVars, ActsAlone
<1>5. CASE Exit(c) \/ Crash(c)
  BY <1>0, <1>5 DEF Exit, Crash, NextDelivery, Goto, brokerVars, ActsAlone
<1>6. CASE LoseConnection(c)
  BY <1>0, <1>6 DEF LoseConnection, brokerVars, ActsAlone
<1>7. CASE \/ StartHandling(c) \/ LookupPrice(c)
           \/ Claims(c) \/ ClaimsUnheard(c) \/ ClaimsNothing(c)
  BY <1>0, <1>7, HandlerShape DEF Handles, brokerVars, ActsAlone
<1>8. ASSUME NEW op \in {"ack", "reject", "requeue"}, Settles(c, op)
      PROVE  ActsAlone(c)
  <2>1. \A d \in Consumers \ {c} : wire'[d] = wire[d]
    BY <1>8, SettlesEffect
  <2> QED
    BY <1>0, <1>8, <2>1 DEF Settles, NextDelivery, Goto, QueuesUnchanged, ActsAlone
<1>9. CASE PublishRetry(c)
  <2>1. \A d \in Consumers \ {c} : wire'[d] = wire[d]
    BY <1>9, PublishEffect
  <2> QED
    BY <1>0, <1>9, <2>1 DEF PublishRetry, Goto, QueuesUnchanged, ActsAlone
<1>10. CASE BrokerEndsSession(c)
  BY <1>0, <1>10 DEF BrokerEndsSession, EndSession, consumerVars, processVars, ActsAlone
<1>11. CASE BrokerHandlesFrame(c)
  BY <1>0, <1>11, FrameEffect
  DEF BrokerHandlesFrame, consumerVars, processVars, ActsAlone
<1> QED
  BY <1>1, <1>2, <1>3, <1>4, <1>5, <1>6, <1>7, <1>8, <1>9, <1>10, <1>11, SettlementShape
  DEF StepOf, ProcessStep

(* Then the others may still fail as often as before. *)
LEMMA OthersStay ==
  ASSUME NEW c, NEW d \in Consumers \ {c}, ActsAlone(c), NEW m, NEW k, NEW o
  PROVE  /\ SessionLeft(d, m, k)' <=> SessionLeft(d, m, k)
         /\ Zombie(d, o)' <=> Zombie(d, o)
<1> USE DEF ActsAlone
<1>1. /\ Published(d)' = Published(d)
      /\ Requeueing(d)' <=> Requeueing(d)
      /\ InHand(d)' = InHand(d)
  BY DEF Published, PublishedIn, Requeueing, InHand
<1>2. Awaits(d, m, k)' <=> Awaits(d, m, k)
  BY <1>1 DEF Awaits
<1>3. Zombie(d, o)' <=> Zombie(d, o)
  BY <1>1 DEF Zombie
<1> QED
  BY <1>1, <1>2, <1>3 DEF SessionLeft

-----------------------------------------------------------------------------
(* What the allowance of an order gains. *)
LEMMA AllowanceGains ==
  ASSUME TypeOK, TypeOK', NEW o \in Orders, routed \subseteq routed'
  PROVE  /\ Allowance(o) \in Nat /\ Allowance(o)' \in Nat
         /\ faults' = faults /\ stops' = stops => Allowance(o)' >= Allowance(o)
         /\ faults' = faults + 1 /\ stops' = stops =>
              Allowance(o)' >= Allowance(o) + MaxDeliveryAttempts
         /\ faults' = faults /\ stops' = stops + 1 => Allowance(o)' >= Allowance(o) + 1
         /\ faults' = faults /\ stops' = stops /\ o \in routed' \ routed =>
              Allowance(o)' >= Allowance(o) + MaxDeliveryAttempts
<1>0. PICK M \in Nat : M = MaxDeliveryAttempts
  BY BrokerAssumption
<1>1. /\ faults \in Nat /\ stops \in Nat
      /\ faults' \in Nat /\ stops' \in Nat
  BY ConsumerAssumption DEF TypeOK
<1>2. PICK r \in Nat : r = IF o \in routed THEN 1 ELSE 0
  OBVIOUS
<1>3. PICK q \in Nat : q = IF o \in routed' THEN 1 ELSE 0
  OBVIOUS
<1>4. PICK f \in Nat : f = faults
  BY <1>1
<1>5. PICK g \in Nat : g = faults'
  BY <1>1
<1>6. PICK x \in Nat : x = stops
  BY <1>1
<1>7. PICK y \in Nat : y = stops'
  BY <1>1
<1>8. r <= q /\ (o \in routed' \ routed => q = r + 1)
  BY <1>2, <1>3
<1>9. Allowance(o) = M * (f + r) + x /\ Allowance(o)' = M * (g + q) + y
  BY <1>0, <1>2, <1>3, <1>4, <1>5, <1>6, <1>7 DEF Allowance
<1>10. M * (f + r) \in Nat /\ M * (g + q) \in Nat
  OBVIOUS
<1>11. \A i, j \in Nat : i <= j => M * i <= M * j
  <2>1. ASSUME NEW i \in Nat, NEW j \in Nat, i <= j
        PROVE  M * i <= M * j
    <3>1. PICK d \in Nat : j = i + d
      <4>1. j - i \in Nat /\ j = i + (j - i)
        BY <2>1
      <4> QED
        BY <4>1
    <3>2. M * j = M * i + M * d /\ M * i \in Nat /\ M * d \in Nat
      BY ONLY <3>1
    <3> QED
      BY ONLY <3>2
  <2> QED
    BY <2>1
<1>12. \A i \in Nat : M * (i + 1) = M * i + M
  OBVIOUS
<1>13. f = g => M * (g + q) >= M * (f + r)
  BY ONLY <1>8, <1>11
<1>14. g = f + 1 => M * (g + q) >= M * (f + r) + M
  <2>1. g = f + 1 => (f + r) + 1 <= g + q
    BY ONLY <1>8
  <2>2. g = f + 1 => M * ((f + r) + 1) <= M * (g + q)
    BY ONLY <1>11, <2>1
  <2>3. M * ((f + r) + 1) = M * (f + r) + M
    BY ONLY <1>12
  <2> QED
    BY ONLY <1>10, <2>2, <2>3
<1>15. g = f /\ q = r + 1 => M * (g + q) >= M * (f + r) + M
  <2>1. g = f /\ q = r + 1 => g + q = (f + r) + 1
    OBVIOUS
  <2>2. M * ((f + r) + 1) = M * (f + r) + M
    BY ONLY <1>12
  <2> QED
    BY ONLY <1>10, <2>1, <2>2
<1>16. PICK a, b \in Nat : a = M * (f + r) /\ b = M * (g + q)
  BY <1>10
<1>17. PICK A, B \in Nat : A = Allowance(o) /\ B = Allowance(o)' /\ A = a + x /\ B = b + y
  BY <1>9, <1>16
<1>18. /\ f = g /\ x = y => B >= A
       /\ g = f + 1 /\ x = y => B >= A + M
       /\ g = f /\ y = x + 1 => B >= A + 1
       /\ g = f /\ x = y /\ q = r + 1 => B >= A + M
  BY ONLY <1>13, <1>14, <1>15, <1>16, <1>17
<1> QED
  BY <1>0, <1>4, <1>5, <1>6, <1>7, <1>8, <1>17, <1>18

(* Only B is new of what a step of consumer c may still lead to. *)
NewOnly(c, o, B) ==
  /\ \A m \in Message, k \in 0 .. MaxDeliveryAttempts : m.order = o =>
       /\ m \in orderQueue' \cup retryQueue' /\ k > m.attempt =>
            Left(m, k) \/ <<m, k>> \in B
       /\ SessionLeft(c, m, k)' => Left(m, k) \/ <<m, k>> \in B
  /\ Zombie(c, o)' => Zombie(c, o) \/ <<c, MaxDeliveryAttempts + 1>> \in B

(* An order stays within its allowance if that grows by as much. *)
LEMMA WithinNew ==
  ASSUME TypeOK, TypeOK', NEW c \in Consumers, NEW o \in Orders, WithinAllowance(o),
         ActsAlone(c), NEW B, IsFiniteSet(B), NewOnly(c, o, B),
         failures'[o] = failures[o], routed \subseteq routed',
         Allowance(o)' >= Allowance(o) + Cardinality(B)
  PROVE  WithinAllowance(o)'
<1>1. IsFiniteSet(Pending(o))
  BY DEF WithinAllowance
<1>2. ASSUME NEW m \in Message, NEW k \in 0 .. MaxDeliveryAttempts,
             m.order = o, Left(m, k)'
      PROVE  (Left(m, k) /\ <<m, k>> \notin {}) \/ <<m, k>> \in B
  <2>1. CASE m \in orderQueue' \cup retryQueue' /\ k > m.attempt
    BY <1>2, <2>1 DEF NewOnly
  <2>2. CASE SessionLeft(c, m, k)'
    BY <1>2, <2>2 DEF NewOnly
  <2>3. ASSUME NEW d \in Consumers \ {c}, SessionLeft(d, m, k)'
        PROVE  Left(m, k)
    <3>1. SessionLeft(d, m, k)
      BY <2>3, OthersStay
    <3> QED
      BY <3>1 DEF Left
  <2> QED
    BY <1>2, <2>1, <2>2, <2>3 DEF Left
<1>3. ASSUME NEW d \in Consumers, Zombie(d, o)'
      PROVE  \/ Zombie(d, o) /\ <<d, MaxDeliveryAttempts + 1>> \notin {}
             \/ <<d, MaxDeliveryAttempts + 1>> \in B
  <2>1. CASE d = c
    BY <1>3, <2>1 DEF NewOnly
  <2>2. CASE d # c
    BY <1>3, <2>2, OthersStay
  <2> QED
    BY <2>1, <2>2
<1>4. /\ IsFiniteSet(Pending(o)')
      /\ Cardinality(Pending(o)') \in Nat /\ Cardinality(Pending(o)) \in Nat
      /\ Cardinality(Pending(o)') + Cardinality({}) <= Cardinality(Pending(o)) + Cardinality(B)
  BY <1>1, <1>2, <1>3, PendingStep
<1>5. Cardinality({}) = 0 /\ Cardinality(B) \in Nat
  BY FS_EmptySet, FS_CardinalityType
<1>6. Allowance(o) \in Nat /\ Allowance(o)' \in Nat
  BY AllowanceGains
<1>7. failures[o] \in Nat
  BY DEF TypeOK
<1>8. failures[o] + Cardinality(Pending(o)) <= Allowance(o)
  BY DEF WithinAllowance
<1>9. failures'[o] + Cardinality(Pending(o)') <= Allowance(o)'
  <2>1. PICK p, q, b, x, y, z \in Nat :
          /\ p = Cardinality(Pending(o)) /\ q = Cardinality(Pending(o)')
          /\ b = Cardinality(B) /\ x = Allowance(o) /\ y = Allowance(o)'
          /\ z = failures[o]
    BY <1>4, <1>5, <1>6, <1>7
  <2>2. z + q <= y
    BY <1>4, <1>5, <1>8, <2>1
  <2> QED
    BY <2>1, <2>2
<1> QED
  BY <1>4, <1>9 DEF WithinAllowance

-----------------------------------------------------------------------------
(* The steps that give no message another attempt. *)

(* What the handler makes of the place in the loop. *)
LEMMA HandlerPlaces ==
  ASSUME TypeOK, NEW c \in Consumers,
         \/ StartHandling(c) \/ LookupPrice(c)
         \/ Claims(c) \/ ClaimsUnheard(c) \/ ClaimsNothing(c)
  PROVE  /\ \/ /\ pc[c] = "received"
               /\ \/ pc'[c] \in {"closing", "permanent"}
                  \/ pc'[c] = "pricing" /\ ~ctxDone[c]
            \/ /\ pc[c] \in Handling
               /\ pc'[c] \in {"executing", "succeeded", "permanent", "transient"}
         /\ failures' = IF pc'[c] = "transient"
                        THEN [failures EXCEPT ![current[c].order] = @ + 1]
                        ELSE failures
<1>0. pc \in [Consumers -> Place]
  BY DEF TypeOK
<1> USE DEF Goto, Handling, Fails, ClassifyFailure
<1>1. CASE StartHandling(c)
  BY <1>0, <1>1 DEF StartHandling
<1>2. CASE LookupPrice(c)
  BY <1>0, <1>2 DEF LookupPrice
<1>3. CASE Claims(c)
  BY <1>0, <1>3 DEF Claims
<1>4. CASE ClaimsUnheard(c)
  BY <1>0, <1>4 DEF ClaimsUnheard
<1>5. CASE ClaimsNothing(c)
  BY <1>0, <1>5 DEF ClaimsNothing
<1> QED
  BY <1>1, <1>2, <1>3, <1>4, <1>5

(* Where the attempts of a session come from, for a step that leaves the
   queues and the frames alone. *)
LEMMA LoopNewOnly ==
  ASSUME NEW c \in Consumers, NEW o \in Orders, NEW B,
         UNCHANGED <<orderQueue, retryQueue, unacked, wire>>,
         \A m \in Message, k \in 0 .. MaxDeliveryAttempts :
           m.order = o /\ Awaits(c, m, k)' => Awaits(c, m, k) \/ <<m, k>> \in B,
         Zombie(c, o)' => Zombie(c, o) \/ <<c, MaxDeliveryAttempts + 1>> \in B
  PROVE  NewOnly(c, o, B)
<1>1. Published(c)' = Published(c)
  BY DEF Published, PublishedIn
<1> QED
  BY <1>1 DEF NewOnly, SessionLeft, Left

(* The broker gives a consumer what it queued. *)
LEMMA TakingNewOnly ==
  ASSUME Bookkeeping, NEW c \in Consumers, NEW o \in Orders,
         Start(c) \/ \E m \in orderQueue : Deliver(c, m)
  PROVE  NewOnly(c, o, {})
<1> USE DEF Bookkeeping
<1>0. /\ session \in [Consumers -> BOOLEAN] /\ linkUp \in [Consumers -> BOOLEAN]
      /\ unacked \in [Consumers -> SUBSET Message]
      /\ inbox \in [Consumers -> SUBSET Message]
      /\ current \in [Consumers -> Message \cup {NoMessage}]
      /\ orderQueue \subseteq Message
  BY DEF TypeOK, BrokerTypeOK
<1>1. CASE Start(c)
  <2>1. /\ UNCHANGED <<orderQueue, retryQueue, unacked, wire>>
        /\ unacked[c] = {} /\ linkUp'[c]
    BY <1>0, <1>1 DEF Start, OpenSession, Sessions
  <2> QED
    BY <2>1, LoopNewOnly DEF Awaits, Zombie
<1>2. ASSUME NEW n \in orderQueue, Deliver(c, n)
      PROVE  NewOnly(c, o, {})
  <2>1. /\ unacked[c] = {} /\ unacked'[c] = {n} /\ linkUp[c]
        /\ orderQueue' \subseteq orderQueue
        /\ UNCHANGED <<retryQueue, wire, pc, current, linkUp, ctxDone>>
    BY <1>0, <1>2 DEF Deliver, Push
  <2>2. current[c] = NoMessage
    BY <2>1 DEF HeldUnsettled, InHand
  <2>3. ASSUME NEW m \in Message, NEW k \in 0 .. MaxDeliveryAttempts, Awaits(c, m, k)'
        PROVE  m \in orderQueue /\ k > m.attempt
    <3>1. m = n
      BY <2>1, <2>3 DEF Awaits
    <3>2. m # current[c]
      BY <2>2, ConsumerAssumption
    <3> QED
      BY <2>1, <2>3, <3>1, <3>2 DEF Awaits
  <2>4. Published(c)' = Published(c) /\ ~Zombie(c, o)'
    BY <2>1 DEF Published, PublishedIn, Zombie
  <2> QED
    BY <2>1, <2>3, <2>4 DEF NewOnly, SessionLeft, Left
<1> QED
  BY <1>1, <1>2

(* The loop takes a delivery from the buffer, or ends. *)
LEMMA LoopingNewOnly ==
  ASSUME Bookkeeping, UnackedHeld, NEW c \in Consumers, NEW o \in Orders,
         Receive(c) \/ SeeShutdown(c) \/ SeeClosed(c) \/ Exit(c)
  PROVE  NewOnly(c, o, {})
<1> USE DEF Bookkeeping
<1>0. /\ linkUp \in [Consumers -> BOOLEAN] /\ ctxDone \in [Consumers -> BOOLEAN]
      /\ unacked \in [Consumers -> SUBSET Message]
      /\ wire \in [Consumers -> Seq(Frame)]
      /\ inbox \in [Consumers -> SUBSET Message]
      /\ current \in [Consumers -> Message \cup {NoMessage}]
      /\ pc \in [Consumers -> Place]
  BY DEF TypeOK, BrokerTypeOK
<1>1. CASE Receive(c)
  <2>1. PICK n \in inbox[c] : current' = [current EXCEPT ![c] = n]
    BY <1>1 DEF Receive
  <2>2. /\ current'[c] = n /\ inbox'[c] = {} /\ pc[c] = "select" /\ pc'[c] = "received"
        /\ UNCHANGED <<brokerVars, linkUp, ctxDone>>
    BY <1>0, <1>1, <2>1 DEF Receive, Goto
  <2>3. n # NoMessage /\ current[c] = NoMessage
    BY <1>0, <2>2, ConsumerAssumption DEF LoopPlaces
  <2>4. ASSUME NEW m \in Message, NEW k \in 0 .. MaxDeliveryAttempts, Awaits(c, m, k)'
        PROVE  Awaits(c, m, k)
    BY <2>2, <2>4 DEF Awaits, Requeueing, Handling, brokerVars
  <2>5. Zombie(c, o)' => Zombie(c, o)
    BY <2>2, <2>3 DEF Zombie, InHand
  <2> QED
    BY <2>2, <2>4, <2>5, LoopNewOnly DEF brokerVars
<1>2. CASE SeeShutdown(c) \/ SeeClosed(c)
  <2>1. /\ pc[c] = "select" /\ pc'[c] = "closing"
        /\ UNCHANGED <<brokerVars, inbox, current, linkUp, ctxDone>>
    BY <1>0, <1>2 DEF SeeShutdown, SeeClosed, Goto
  <2>2. \A m \in Message : m # current[c]
    BY <2>1, ConsumerAssumption DEF LoopPlaces
  <2>3. ASSUME NEW m \in Message, NEW k \in 0 .. MaxDeliveryAttempts, Awaits(c, m, k)'
        PROVE  Awaits(c, m, k)
    BY <2>1, <2>2, <2>3 DEF Awaits, Requeueing, brokerVars
  <2>4. ~Zombie(c, o)'
    BY <2>1 DEF Zombie, Handling
  <2> QED
    BY <2>1, <2>3, <2>4, LoopNewOnly DEF brokerVars
<1>3. CASE Exit(c)
  <2>1. /\ pc[c] = "closing" /\ pc'[c] = "down"
        /\ linkUp[c] => wire[c] = <<>>
        /\ UNCHANGED brokerVars
        /\ current'[c] = NoMessage /\ inbox'[c] = {}
    BY <1>0, <1>3 DEF Exit, NextDelivery, Goto
  <2>2. linkUp[c] => ~Settling(c)
    BY <2>1 DEF Settling
  <2>3. ASSUME NEW m \in Message, NEW k \in 0 .. MaxDeliveryAttempts, Awaits(c, m, k)'
        PROVE  Awaits(c, m, k)
    <3>1. m \in unacked[c] /\ m # current'[c] /\ k > m.attempt
      BY <2>1, <2>3, ConsumerAssumption DEF Awaits, brokerVars
    <3>2. linkUp[c] => m \in inbox[c] \/ m = current[c]
      BY <2>2, <3>1 DEF UnackedHeld, InHand
    <3> QED
      BY <2>1, <3>1, <3>2 DEF Awaits
  <2>4. ~Zombie(c, o)'
    BY <2>1 DEF Zombie, Handling
  <2> QED
    BY <2>1, <2>3, <2>4, LoopNewOnly DEF brokerVars
<1> QED
  BY <1>1, <1>2, <1>3

(* The handler goes on, or ends without a transient failure. *)
LEMMA HandlingNewOnly ==
  ASSUME Bookkeeping, NEW c \in Consumers, NEW o \in Orders,
         \/ StartHandling(c) \/ LookupPrice(c)
         \/ Claims(c) \/ ClaimsUnheard(c) \/ ClaimsNothing(c),
         pc'[c] # "transient"
  PROVE  NewOnly(c, o, {})
<1>1. /\ pc[c] = "received" \/ pc[c] \in Handling
      /\ pc[c] = "received" => \/ pc'[c] \in {"closing", "permanent"}
                               \/ pc'[c] = "pricing" /\ ~ctxDone[c]
      /\ pc[c] \in Handling => pc'[c] \in {"executing", "succeeded", "permanent"}
  BY HandlerPlaces DEF Handling, Bookkeeping
<1>2. UNCHANGED <<brokerVars, inbox, current, linkUp, ctxDone>>
  BY HandlerShape DEF Handles
<1>3. ASSUME NEW m \in Message, NEW k \in 0 .. MaxDeliveryAttempts, Awaits(c, m, k)'
      PROVE  Awaits(c, m, k)
  BY <1>1, <1>2, <1>3 DEF Awaits, Requeueing, brokerVars, Handling
<1>4. Zombie(c, o)' => Zombie(c, o)
  BY <1>1, <1>2 DEF Zombie, InHand, Handling
<1> QED
  BY <1>2, <1>3, <1>4, LoopNewOnly DEF brokerVars

(* A settlement gives nothing but, if the publish of the copy failed with a
   fault, the same attempt once more. *)
LEMMA SettlingNewOnly ==
  ASSUME Bookkeeping, Apart, NEW c \in Consumers, NEW o \in Orders, NEW B,
         NEW op \in {"ack", "reject", "requeue"}, Settles(c, op),
         op = "requeue" /\ linkUp[c] =>
           /\ pc[c] = "transient"
           /\ ctxDone[c] \/ <<current[c], current[c].attempt + 1>> \in B
  PROVE  NewOnly(c, o, B)
<1> USE DEF Bookkeeping
<1>0. /\ linkUp \in [Consumers -> BOOLEAN]
      /\ unacked \in [Consumers -> SUBSET Message]
      /\ wire \in [Consumers -> Seq(Frame)]
      /\ current \in [Consumers -> Message \cup {NoMessage}]
      /\ pc \in [Consumers -> Place]
  BY DEF TypeOK, BrokerTypeOK
<1>1. PICK n \in Message :
        /\ n = current[c]
        /\ pc' = [pc EXCEPT ![c] = "select"]
        /\ current' = [current EXCEPT ![c] = NoMessage]
        /\ ~linkUp[c] => wire'[c] = wire[c]
        /\ linkUp[c] => wire'[c] = Append(wire[c], [op |-> op, msg |-> n])
  BY SettlesEffect
<1>2. /\ UNCHANGED <<orderQueue, retryQueue, unacked, linkUp, inbox, ctxDone>>
      /\ pc'[c] = "select" /\ current'[c] = NoMessage
      /\ n # NoMessage /\ inbox[c] = {}
  BY <1>0, <1>1, ConsumerAssumption DEF Settles, QueuesUnchanged, LoopPlaces
<1>3. ~Zombie(c, o)'
  BY <1>2 DEF Zombie, InHand
<1>4. PICK f \in Frame : f = [op |-> op, msg |-> n]
  BY DEF Frame
<1>5. Published(c)' = Published(c)
  <2>1. OncePublished(wire[c])
    BY DEF Apart
  <2>2. f.op # "publish"
    BY <1>4
  <2>3. PublishedIn(Append(wire[c], f)) = PublishedIn(wire[c])
    BY <1>0, <2>1, <2>2, AppendPublished
  <2> QED
    BY <1>0, <1>1, <1>4, <2>3 DEF Published
<1>6. ASSUME NEW m \in Message, NEW k \in 0 .. MaxDeliveryAttempts, Awaits(c, m, k)'
      PROVE  Awaits(c, m, k) \/ <<m, k>> \in B
  <2>1. m \in unacked[c] /\ m # current'[c] /\ k > m.attempt
    BY <1>2, <1>6, ConsumerAssumption DEF Awaits
  <2>2. CASE ~linkUp[c]
    BY <2>1, <2>2 DEF Awaits
  <2>3. CASE linkUp[c]
    <3>1. n \in unacked[c] /\ ~Settling(c)
      BY <1>1, <1>2, <2>3 DEF HeldUnsettled, InHand
    <3>2. m = n
      BY <2>1, <3>1 DEF Sessions
    <3>3. Requeueing(c)'
      BY <1>2, <1>6, <2>3, ConsumerAssumption DEF Awaits
    <3>4. PICK i \in DOMAIN wire'[c] : wire'[c][i].op = "requeue"
      BY <3>3 DEF Requeueing
    <3>5. op = "requeue"
      <4>1. /\ Len(wire[c]) \in Nat /\ DOMAIN wire[c] = 1 .. Len(wire[c])
            /\ DOMAIN Append(wire[c], f) = 1 .. Len(wire[c]) + 1
            /\ \A j \in DOMAIN wire[c] : Append(wire[c], f)[j] = wire[c][j]
            /\ Append(wire[c], f)[Len(wire[c]) + 1] = f
        BY <1>0, AppendFrame
      <4>2. i \in DOMAIN wire[c] \/ i = Len(wire[c]) + 1
        BY <1>1, <1>4, <2>3, <4>1
      <4>3. i \notin DOMAIN wire[c]
        BY <1>1, <1>4, <2>3, <3>1, <3>4, <4>1 DEF Settling, Settlement
      <4> QED
        BY <1>1, <1>4, <2>3, <3>4, <4>1, <4>2, <4>3
    <3>6. k = m.attempt + 1 \/ k > m.attempt + 1
      BY <2>1 DEF Message, Attempt
    <3> QED
      BY <1>1, <2>1, <2>3, <3>2, <3>5, <3>6 DEF Awaits
  <2> QED
    BY <2>2, <2>3
<1> QED
  BY <1>2, <1>3, <1>5, <1>6 DEF NewOnly, SessionLeft, Left

(* The broker's steps move a message with its attempts. *)
LEMMA BrokerNewOnly ==
  ASSUME Bookkeeping, Apart, NEW c \in Consumers, NEW o \in Orders,
         BrokerEndsSession(c) \/ BrokerHandlesFrame(c)
  PROVE  NewOnly(c, o, {})
<1> USE DEF Bookkeeping
<1>0. /\ linkUp \in [Consumers -> BOOLEAN]
      /\ unacked \in [Consumers -> SUBSET Message]
      /\ wire \in [Consumers -> Seq(Frame)]
  BY DEF TypeOK, BrokerTypeOK
<1>1. UNCHANGED <<pc, inbox, current, linkUp, ctxDone>>
  BY DEF BrokerEndsSession, BrokerHandlesFrame, consumerVars, processVars
<1>2. Zombie(c, o)' <=> Zombie(c, o)
  BY <1>1 DEF Zombie, InHand
<1>3. CASE BrokerEndsSession(c)
  <2>1. /\ ~linkUp[c] /\ unacked'[c] = {} /\ wire'[c] = <<>>
        /\ orderQueue' = orderQueue \cup unacked[c]
        /\ retryQueue' = retryQueue
    BY <1>0, <1>3 DEF BrokerEndsSession, EndSession
  <2>2. Published(c)' = {}
    BY <2>1 DEF Published, PublishedIn
  <2>3. ASSUME NEW m \in unacked[c], NEW k, k > m.attempt
        PROVE  Left(m, k)
    BY <2>1, <2>3 DEF Left, SessionLeft, Awaits
  <2> QED
    BY <1>2, <2>1, <2>2, <2>3 DEF NewOnly, SessionLeft, Awaits, Left
<1>4. CASE BrokerHandlesFrame(c)
  <2>1. PICK f \in Frame :
          /\ session[c] /\ wire[c] # <<>> /\ f = wire[c][1] /\ f.msg \in Message
          /\ retryQueue' = retryQueue \cup {x \in {f.msg} : f.op = "publish"}
          /\ orderQueue' = orderQueue \cup {x \in {f.msg} : f.op = "requeue"}
          /\ unacked'[c] = unacked[c] \ {x \in {f.msg} : f.op # "publish"}
          /\ wire'[c] = Tail(wire[c])
    BY <1>4, FrameEffect DEF BrokerHandlesFrame
  <2>2. /\ 1 \in DOMAIN wire[c]
        /\ \A i \in DOMAIN wire'[c] : i + 1 \in DOMAIN wire[c] /\ wire'[c][i] = wire[c][i + 1]
    BY <1>0, <2>1, TailFrame
  <2>3. OncePublished(wire[c])
    BY DEF Apart
  <2>4. /\ Published(c)' \subseteq Published(c)
        /\ f.op = "publish" => f.msg \in Published(c)
    BY <1>0, <2>1, <2>3, TailPublished DEF Published
  <2>5. Requeueing(c)' => Requeueing(c)
    BY <2>2 DEF Requeueing
  <2>6. ASSUME NEW m \in Message, NEW k \in 0 .. MaxDeliveryAttempts, Awaits(c, m, k)'
        PROVE  Awaits(c, m, k)
    BY <1>1, <2>1, <2>5, <2>6 DEF Awaits
  <2>7. f.op = "requeue" => f.msg \in unacked[c] /\ Requeueing(c)
    BY <2>1, <2>2 DEF SettledOnce, Requeueing
  <2>8. ASSUME NEW m \in orderQueue' \cup retryQueue', NEW k, k > m.attempt
        PROVE  Left(m, k)
    BY <2>1, <2>4, <2>7, <2>8 DEF Left, SessionLeft, Awaits
  <2> QED
    BY <1>2, <2>4, <2>6, <2>8 DEF NewOnly, SessionLeft, Left
<1> QED
  BY <1>3, <1>4

-----------------------------------------------------------------------------
(* The steps that give attempts, and what they cost. *)

(* A signal may have an attempt repeated: a publish with the canceled context
   can fail. *)
LEMMA SignalNewOnly ==
  ASSUME Bookkeeping, NEW c \in Consumers, NEW o \in Orders, Signal(c)
  PROVE  \E t : NewOnly(c, o, {t})
<1> USE DEF Bookkeeping
<1> DEFINE t == <<current[c], IF pc[c] = "transient" THEN current[c].attempt + 1
                             ELSE current[c].attempt>>
<1>1. UNCHANGED <<brokerVars, pc, inbox, current, linkUp>>
  BY DEF Signal
<1>2. ASSUME NEW m \in Message, NEW k \in 0 .. MaxDeliveryAttempts, Awaits(c, m, k)'
      PROVE  Awaits(c, m, k) \/ <<m, k>> \in {t}
  BY <1>1, <1>2 DEF Awaits, Requeueing, brokerVars, Handling
<1>3. Zombie(c, o)' => Zombie(c, o)
  BY <1>1 DEF Zombie, InHand
<1>4. NewOnly(c, o, {t})
  BY <1>1, <1>2, <1>3, LoopNewOnly DEF brokerVars
<1> QED
  BY <1>4

(* A crash may have all the attempts of the delivery repeated. *)
LEMMA CrashNewOnly ==
  ASSUME Bookkeeping, NEW c \in Consumers, NEW o \in Orders, Crash(c)
  PROVE  NewOnly(c, o, unacked[c] \X (1 .. MaxDeliveryAttempts))
<1> USE DEF Bookkeeping
<1>0. /\ linkUp \in [Consumers -> BOOLEAN] /\ pc \in [Consumers -> Place]
      /\ current \in [Consumers -> Message \cup {NoMessage}]
      /\ MaxDeliveryAttempts \in Nat
  BY BrokerAssumption DEF TypeOK
<1>1. /\ UNCHANGED brokerVars
      /\ pc'[c] = "down" /\ current'[c] = NoMessage
  BY <1>0 DEF Crash, NextDelivery, Goto
<1>2. ASSUME NEW m \in Message, NEW k \in 0 .. MaxDeliveryAttempts, Awaits(c, m, k)'
      PROVE  <<m, k>> \in unacked[c] \X (1 .. MaxDeliveryAttempts)
  <2>1. m \in unacked[c] /\ k > m.attempt
    BY <1>1, <1>2, ConsumerAssumption DEF Awaits, brokerVars
  <2>2. m.attempt \in Nat
    BY DEF Message, Attempt
  <2>3. k \in 1 .. MaxDeliveryAttempts
    BY <1>0, <2>1, <2>2
  <2> QED
    BY <2>1, <2>3
<1>3. ~Zombie(c, o)'
  BY <1>1 DEF Zombie, Handling
<1> QED
  BY <1>1, <1>2, <1>3, LoopNewOnly DEF brokerVars

(* So may a lost connection; or, if the process goes on with the delivery, it
   fails once more in vain. *)
LEMMA LossNewOnly ==
  ASSUME Bookkeeping, NEW c \in Consumers, NEW o \in Orders, LoseConnection(c)
  PROVE  \/ NewOnly(c, o, {<<c, MaxDeliveryAttempts + 1>>})
         \/ NewOnly(c, o, unacked[c] \X (1 .. MaxDeliveryAttempts))
<1> USE DEF Bookkeeping
<1>0. /\ linkUp \in [Consumers -> BOOLEAN] /\ pc \in [Consumers -> Place]
      /\ current \in [Consumers -> Message \cup {NoMessage}]
      /\ inbox \in [Consumers -> SUBSET Message]
      /\ MaxDeliveryAttempts \in Nat
  BY BrokerAssumption DEF TypeOK
<1>1. /\ UNCHANGED <<brokerVars, pc, current, ctxDone>>
      /\ inbox'[c] \subseteq inbox[c]
      /\ linkUp[c] /\ ~linkUp'[c]
  BY <1>0 DEF LoseConnection
<1>2. ASSUME NEW m \in Message, NEW k \in 0 .. MaxDeliveryAttempts, Awaits(c, m, k)'
      PROVE  m \in unacked[c] /\ k > m.attempt
  <2>1. m.attempt \in Nat /\ k \in Nat
    BY <1>0 DEF Message, Attempt
  <2> QED
    BY <1>1, <1>2, <2>1 DEF Awaits, brokerVars
<1>3. CASE Zombie(c, o)'
  <2>1. PICK n \in InHand(c) : n.order = o
    BY <1>1, <1>3 DEF Zombie, InHand
  <2>2. n \in unacked[c] /\ pc[c] \in {"select", "received"} \cup Handling
    BY <1>1, <1>3, <2>1 DEF HeldUnsettled, Zombie
  <2>3. n \in inbox[c] \/ (n = current[c] /\ pc[c] \in {"received"} \cup Handling)
    BY <2>1, <2>2, ConsumerAssumption DEF InHand, LoopPlaces
  <2>4. ASSUME NEW m \in Message, NEW k \in 0 .. MaxDeliveryAttempts, Awaits(c, m, k)'
        PROVE  Awaits(c, m, k)
    <3>1. m = n /\ m \in unacked[c] /\ k > m.attempt
      BY <1>2, <2>2, <2>4 DEF Sessions
    <3> QED
      BY <2>3, <3>1 DEF Awaits
  <2> QED
    BY <1>1, <2>4, LoopNewOnly DEF brokerVars
<1>4. CASE ~Zombie(c, o)'
  <2>1. ASSUME NEW m \in Message, NEW k \in 0 .. MaxDeliveryAttempts, Awaits(c, m, k)'
        PROVE  <<m, k>> \in unacked[c] \X (1 .. MaxDeliveryAttempts)
    <3>1. m \in unacked[c] /\ k > m.attempt
      BY <1>2, <2>1
    <3>2. m.attempt \in Nat
      BY DEF Message, Attempt
    <3>3. k \in 1 .. MaxDeliveryAttempts
      BY <1>0, <3>1, <3>2
    <3> QED
      BY <3>1, <3>3
  <2> QED
    BY <1>1, <1>4, <2>1, LoopNewOnly DEF brokerVars
<1> QED
  BY <1>3, <1>4

-----------------------------------------------------------------------------
(* The steps that use attempts up. *)

(* An order stays within its allowance if as many attempts are gone as there
   are new failures and attempts. *)
LEMMA WithinExchange ==
  ASSUME TypeOK, TypeOK', NEW o \in Orders, WithinAllowance(o),
         NEW A \in SUBSET Pending(o), NEW B, IsFiniteSet(B),
         \A m \in Message, k \in 0 .. MaxDeliveryAttempts :
           m.order = o /\ Left(m, k)' => (Left(m, k) /\ <<m, k>> \notin A) \/ <<m, k>> \in B,
         \A c \in Consumers : Zombie(c, o)' =>
           \/ Zombie(c, o) /\ <<c, MaxDeliveryAttempts + 1>> \notin A
           \/ <<c, MaxDeliveryAttempts + 1>> \in B,
         failures'[o] + Cardinality(B) <= failures[o] + Cardinality(A),
         routed \subseteq routed', Allowance(o)' >= Allowance(o)
  PROVE  WithinAllowance(o)'
<1>1. IsFiniteSet(Pending(o))
  BY DEF WithinAllowance
<1>2. /\ IsFiniteSet(Pending(o)')
      /\ Cardinality(Pending(o)') \in Nat /\ Cardinality(Pending(o)) \in Nat
      /\ Cardinality(Pending(o)') + Cardinality(A) <= Cardinality(Pending(o)) + Cardinality(B)
  BY <1>1, PendingStep
<1>3. Cardinality(A) \in Nat /\ Cardinality(B) \in Nat
  BY <1>1, FS_Subset, FS_CardinalityType
<1>4. Allowance(o) \in Nat /\ Allowance(o)' \in Nat
  BY AllowanceGains
<1>5. failures[o] \in Nat /\ failures'[o] \in Nat
  BY DEF TypeOK
<1>6. failures[o] + Cardinality(Pending(o)) <= Allowance(o)
  BY DEF WithinAllowance
<1>7. failures'[o] + Cardinality(Pending(o)') <= Allowance(o)'
  <2>1. PICK p, q, a, b, x, y, z, w \in Nat :
          /\ p = Cardinality(Pending(o)) /\ q = Cardinality(Pending(o)')
          /\ a = Cardinality(A) /\ b = Cardinality(B)
          /\ x = Allowance(o) /\ y = Allowance(o)'
          /\ z = failures[o] /\ w = failures'[o]
    BY <1>2, <1>3, <1>4, <1>5
  <2>2. /\ q + a <= p + b /\ w + b <= z + a
        /\ z + p <= x /\ x <= y
    BY <1>2, <1>6, <2>1
  <2>3. w + q <= y
    BY ONLY <2>2
  <2> QED
    BY <2>1, <2>3
<1> QED
  BY <1>2, <1>7 DEF WithinAllowance

(* Nobody else has the delivery that a connected process works on. *)
LEMMA HeldAlone ==
  ASSUME Bookkeeping, Apart, NEW c \in Consumers, linkUp[c],
         NEW n \in Message, n = current[c]
  PROVE  /\ n \in unacked[c] /\ n \in Kept /\ inbox[c] = {}
         /\ ~Settling(c) /\ ~Requeueing(c)
         /\ n \notin orderQueue \cup retryQueue
         /\ n \notin Published(c)
         /\ \A d \in Consumers \ {c} : n \notin unacked[d] /\ n \notin Published(d)
         /\ \A d \in Consumers \ {c} : \A k : ~SessionLeft(d, n, k)
<1>1. n # NoMessage
  BY ConsumerAssumption
<1>2. n \in unacked[c] /\ ~Settling(c) /\ inbox[c] = {}
  BY <1>1 DEF Bookkeeping, HeldUnsettled, InHand, LoopPlaces
<1>3. ~Requeueing(c)
  BY <1>2 DEF Settling, Settlement, Requeueing
<1>4. n \in Kept
  BY <1>2 DEF Kept
<1>5. n \notin orderQueue \cup retryQueue
  BY <1>2 DEF Apart, Queued
<1>6. n \notin Published(c)
  BY <1>4 DEF Apart
<1>7. \A d \in Consumers \ {c} : n \notin unacked[d] /\ n \notin Published(d)
  BY <1>2, <1>4 DEF Apart
<1>8. \A d \in Consumers \ {c} : \A k : ~SessionLeft(d, n, k)
  BY <1>7 DEF SessionLeft, Awaits
<1> QED
  BY <1>2, <1>3, <1>4, <1>5, <1>6, <1>7, <1>8

(* A transient failure uses one attempt up, or the last act of a process that
   has lost its connection. *)
LEMMA FailureWithin ==
  ASSUME Bookkeeping, Bookkeeping', Apart, NEW c \in Consumers, NEW o \in Orders,
         \/ StartHandling(c) \/ LookupPrice(c)
         \/ Claims(c) \/ ClaimsUnheard(c) \/ ClaimsNothing(c),
         pc'[c] = "transient", ActsAlone(c), WithinAllowance(o),
         Allowance(o)' >= Allowance(o)
  PROVE  WithinAllowance(o)'
<1> USE DEF Bookkeeping
<1>0. MaxDeliveryAttempts \in Nat /\ MaxDeliveryAttempts >= 1
  BY BrokerAssumption
<1>1. /\ pc[c] \in Handling
      /\ failures' = [failures EXCEPT ![current[c].order] = @ + 1]
  BY HandlerPlaces DEF Handling
<1>2. UNCHANGED <<brokerVars, inbox, current, linkUp, ctxDone>>
  BY HandlerShape DEF Handles
<1>3. PICK n \in Message : n = current[c] /\ n.order \in Orders
  BY <1>1, BusyHasMessage DEF Busy
<1>4. n.attempt \in Nat /\ n.attempt + 1 <= MaxDeliveryAttempts
  BY <1>0 DEF Message, Attempt
<1>5. failures \in [Orders -> Nat]
  BY DEF TypeOK
<1>6. ~Zombie(c, o)'
  BY DEF Zombie, Handling
<1>7. CASE o # n.order
  <2>1. ASSUME NEW m \in Message, NEW k \in 0 .. MaxDeliveryAttempts,
               m.order = o, Awaits(c, m, k)'
        PROVE  Awaits(c, m, k)
    <3>1. m # current'[c]
      BY <1>2, <1>3, <1>7, <2>1
    <3> QED
      BY <1>2, <2>1, <3>1 DEF Awaits, Requeueing, brokerVars
  <2>2. NewOnly(c, o, {})
    BY <1>2, <1>6, <2>1, LoopNewOnly DEF brokerVars
  <2>3. failures'[o] = failures[o]
    BY <1>1, <1>3, <1>5, <1>7
  <2>4. IsFiniteSet({}) /\ Cardinality({}) = 0
    BY FS_EmptySet
  <2>5. Allowance(o) \in Nat /\ Allowance(o)' >= Allowance(o) + Cardinality({})
    <3>1. Allowance(o) \in Nat
      BY <1>2, AllowanceGains DEF brokerVars
    <3> QED
      BY <2>4, <3>1
  <2> QED
    BY <1>2, <2>2, <2>3, <2>4, <2>5, WithinNew DEF brokerVars
<1>8. ASSUME o = n.order, NEW t, t \in Pending(o),
             \A m \in Message, k \in 0 .. MaxDeliveryAttempts :
               m.order = o /\ Left(m, k)' => Left(m, k) /\ <<m, k>> # t,
             \A d \in Consumers : Zombie(d, o)' =>
               Zombie(d, o) /\ <<d, MaxDeliveryAttempts + 1>> # t
      PROVE  WithinAllowance(o)'
  <2>1. failures'[o] = failures[o] + 1 /\ failures[o] \in Nat
    BY <1>1, <1>3, <1>5, <1>8
  <2>2. Cardinality({t}) = 1 /\ IsFiniteSet({}) /\ Cardinality({}) = 0
    BY FS_Singleton, FS_EmptySet
  <2>3. failures'[o] + Cardinality({}) <= failures[o] + Cardinality({t})
    BY ONLY <2>1, <2>2
  <2>4. {t} \in SUBSET Pending(o)
    BY <1>8
  <2>5. routed \subseteq routed'
    BY <1>2 DEF brokerVars
  <2> QED
    BY <1>8, <2>2, <2>3, <2>4, <2>5, WithinExchange
<1>9. CASE o = n.order /\ linkUp[c]
  <2>1. /\ n \in unacked[c] /\ inbox[c] = {} /\ ~Requeueing(c)
        /\ n \notin orderQueue \cup retryQueue
        /\ n \notin Published(c)
        /\ \A d \in Consumers \ {c} : \A k : ~SessionLeft(d, n, k)
    BY <1>3, <1>9, HeldAlone
  <2>2. PICK j \in Nat : j = IF ctxDone[c] THEN n.attempt ELSE n.attempt + 1
    BY <1>4
  <2>3. <<n, j>> \in Pending(o)
    <3>1. Awaits(c, n, j)
      BY <1>1, <1>3, <1>4, <1>9, <2>1, <2>2 DEF Awaits
    <3>2. Left(n, j)
      BY <3>1 DEF Left, SessionLeft
    <3>3. j \in 0 .. MaxDeliveryAttempts
      BY <1>0, <1>4, <2>2
    <3> QED
      BY <1>9, <3>2, <3>3 DEF Pending
  <2>4. ASSUME NEW m \in Message, NEW k \in 0 .. MaxDeliveryAttempts, Left(m, k)'
        PROVE  Left(m, k) /\ <<m, k>> # <<n, j>>
    <3>1. CASE m \in orderQueue' \cup retryQueue' /\ k > m.attempt
      BY <1>2, <2>1, <3>1 DEF Left, brokerVars
    <3>2. ASSUME NEW d \in Consumers \ {c}, SessionLeft(d, m, k)'
          PROVE  Left(m, k) /\ <<m, k>> # <<n, j>>
      <4>1. SessionLeft(d, m, k)
        BY <3>2, OthersStay
      <4> QED
        BY <2>1, <4>1 DEF Left
    <3>3. CASE m \in Published(c)' /\ k > m.attempt
      <4>1. m \in Published(c)
        BY <1>2, <3>3 DEF Published, PublishedIn, brokerVars
      <4> QED
        BY <2>1, <3>3, <4>1 DEF Left, SessionLeft
    <3>4. CASE Awaits(c, m, k)'
      <4>1. ~Requeueing(c)'
        BY <1>2, <2>1 DEF Requeueing, brokerVars
      <4>2. m = n /\ (k > n.attempt + 1 \/ (ctxDone[c] /\ k = n.attempt + 1))
        BY <1>2, <1>3, <1>9, <2>1, <3>4, <4>1 DEF Awaits, Handling
      <4>3. k > n.attempt /\ k # j
        BY <1>4, <2>2, <4>2
      <4>4. Awaits(c, m, k)
        BY <1>1, <1>3, <2>1, <4>2, <4>3 DEF Awaits
      <4> QED
        BY <4>3, <4>4 DEF Left, SessionLeft
    <3> QED
      BY <2>4, <3>1, <3>2, <3>3, <3>4 DEF Left, SessionLeft
  <2>5. ASSUME NEW d \in Consumers, Zombie(d, o)'
        PROVE  Zombie(d, o) /\ <<d, MaxDeliveryAttempts + 1>> # <<n, j>>
    <3>1. d # c
      BY <1>6, <2>5
    <3>2. Zombie(d, o)
      BY <2>5, <3>1, OthersStay
    <3>3. j # MaxDeliveryAttempts + 1
      BY <1>0, <1>4, <2>2
    <3> QED
      BY <3>2, <3>3
  <2> QED
    BY <1>8, <1>9, <2>3, <2>4, <2>5
<1>10. CASE o = n.order /\ ~linkUp[c]
  <2>1. Zombie(c, o)
    BY <1>1, <1>3, <1>10, ConsumerAssumption DEF Zombie, InHand
  <2>2. <<c, MaxDeliveryAttempts + 1>> \in Pending(o)
    BY <2>1 DEF Pending
  <2>3. ASSUME NEW m \in Message, NEW k \in 0 .. MaxDeliveryAttempts, Left(m, k)'
        PROVE  Left(m, k) /\ <<m, k>> # <<c, MaxDeliveryAttempts + 1>>
    <3>1. k # MaxDeliveryAttempts + 1
      BY <1>0
    <3>2. CASE m \in orderQueue' \cup retryQueue' /\ k > m.attempt
      BY <1>2, <3>1, <3>2 DEF Left, brokerVars
    <3>3. ASSUME NEW d \in Consumers \ {c}, SessionLeft(d, m, k)'
          PROVE  Left(m, k)
      <4>1. SessionLeft(d, m, k)
        BY <3>3, OthersStay
      <4> QED
        BY <4>1 DEF Left
    <3>4. CASE SessionLeft(c, m, k)'
      <4>1. m.attempt \in Nat
        BY DEF Message, Attempt
      <4>2. Awaits(c, m, k)' => m \in unacked[c] /\ k > m.attempt
        BY <1>2, <1>10, <4>1 DEF Awaits, Handling, brokerVars
      <4>3. Published(c)' = Published(c)
        BY <1>2 DEF Published, PublishedIn, brokerVars
      <4>4. SessionLeft(c, m, k)
        BY <1>10, <3>4, <4>2, <4>3 DEF SessionLeft, Awaits
      <4> QED
        BY <3>1, <4>4 DEF Left
    <3> QED
      BY <2>3, <3>1, <3>2, <3>3, <3>4 DEF Left
  <2>4. ASSUME NEW d \in Consumers, Zombie(d, o)'
        PROVE  Zombie(d, o) /\ <<d, MaxDeliveryAttempts + 1>> # <<c, MaxDeliveryAttempts + 1>>
    BY <1>6, <2>4, OthersStay
  <2> QED
    BY <1>8, <1>10, <2>2, <2>3, <2>4
<1> QED
  BY <1>7, <1>9, <1>10

(* The copy gets the attempts that the original has left. *)
LEMMA CopyWithin ==
  ASSUME Bookkeeping, Bookkeeping', Apart, NEW c \in Consumers, NEW o \in Orders,
         PublishRetry(c), ActsAlone(c), WithinAllowance(o),
         Allowance(o)' >= Allowance(o)
  PROVE  WithinAllowance(o)'
<1> USE DEF Bookkeeping
<1>0. MaxDeliveryAttempts \in Nat /\ MaxDeliveryAttempts >= 1
  BY BrokerAssumption
<1>1. PICK m, n \in Message :
        /\ m = current[c] /\ n.id = FreshId
        /\ n.order = m.order /\ n.body = m.body /\ n.attempt = m.attempt + 1
        /\ linkUp[c] /\ Unused(FreshId)
        /\ pc' = [pc EXCEPT ![c] = "copied"]
        /\ \A d \in Consumers \ {c} : wire'[d] = wire[d]
        /\ wire'[c] = Append(wire[c], [op |-> "publish", msg |-> n])
  BY PublishEffect
<1>2. /\ UNCHANGED <<orderQueue, retryQueue, unacked, routed, inbox, current, linkUp, ctxDone>>
      /\ failures' = failures /\ pc[c] = "transient"
  BY DEF PublishRetry, QueuesUnchanged
<1>3. pc'[c] = "copied"
  BY <1>1 DEF TypeOK
<1>4. wire[c] \in Seq(Frame)
  BY DEF TypeOK, BrokerTypeOK
<1>5. PICK f \in Frame : f = [op |-> "publish", msg |-> n]
  BY DEF Frame
<1>6. /\ m \in unacked[c] /\ inbox[c] = {} /\ ~Requeueing(c)
      /\ m \notin orderQueue \cup retryQueue
      /\ m \notin Published(c)
      /\ \A d \in Consumers \ {c} : \A k : ~SessionLeft(d, m, k)
  BY <1>1, HeldAlone
<1>7. Published(c)' = Published(c) \cup {n}
  <2>1. OncePublished(wire[c])
    BY DEF Apart
  <2>2. PublishedIn(Append(wire[c], f)) = PublishedIn(wire[c]) \cup {f.msg}
    BY <1>4, <1>5, <2>1, AppendPublished
  <2> QED
    BY <1>1, <1>5, <2>2 DEF Published
<1>8. ~Requeueing(c)'
  <2>1. /\ Len(wire[c]) \in Nat /\ DOMAIN wire[c] = 1 .. Len(wire[c])
        /\ DOMAIN Append(wire[c], f) = 1 .. Len(wire[c]) + 1
        /\ \A i \in DOMAIN wire[c] : Append(wire[c], f)[i] = wire[c][i]
        /\ Append(wire[c], f)[Len(wire[c]) + 1] = f
    BY <1>4, AppendFrame
  <2>2. ASSUME NEW i \in DOMAIN wire'[c]
        PROVE  wire'[c][i].op # "requeue"
    <3>1. i \in DOMAIN wire[c] \/ i = Len(wire[c]) + 1
      BY <1>1, <1>5, <2>1, <2>2
    <3> QED
      BY <1>1, <1>5, <1>6, <2>1, <3>1 DEF Requeueing
  <2> QED
    BY <2>2 DEF Requeueing
<1>9. \A x \in Message, k \in 0 .. MaxDeliveryAttempts : ~Awaits(c, x, k)'
  BY <1>1, <1>2, <1>3, <1>6, <1>8 DEF Awaits, Handling
<1>10. ~Zombie(c, o)'
  BY <1>1, <1>2 DEF Zombie
<1>11. m.attempt \in Nat /\ n.attempt \in Nat /\ n.attempt < MaxDeliveryAttempts
  BY <1>0 DEF Message, Attempt
(* What is left of message x was left before, of the same message, or it is the
   copy. *)
<1>12. ASSUME NEW x \in Message, NEW k \in 0 .. MaxDeliveryAttempts, Left(x, k)'
       PROVE  \/ Left(x, k) /\ x # m
              \/ x = n /\ k > n.attempt
  <2>1. CASE x \in orderQueue' \cup retryQueue' /\ k > x.attempt
    BY <1>2, <1>6, <2>1 DEF Left
  <2>2. ASSUME NEW d \in Consumers \ {c}, SessionLeft(d, x, k)'
        PROVE  Left(x, k) /\ x # m
    <3>1. SessionLeft(d, x, k)
      BY <2>2, OthersStay
    <3> QED
      BY <1>6, <3>1 DEF Left
  <2>3. CASE SessionLeft(c, x, k)'
    <3>1. x \in Published(c) \cup {n} /\ k > x.attempt
      BY <1>7, <1>9, <2>3 DEF SessionLeft
    <3> QED
      BY <1>6, <3>1 DEF Left, SessionLeft
  <2> QED
    BY <1>12, <2>1, <2>2, <2>3 DEF Left
<1>13. ASSUME NEW d \in Consumers, Zombie(d, o)'
       PROVE  Zombie(d, o)
  BY <1>10, <1>13, OthersStay
<1>14. CASE o # m.order
  <2>1. ASSUME NEW x \in Message, NEW k \in 0 .. MaxDeliveryAttempts,
               x.order = o, Left(x, k)'
        PROVE  Left(x, k) /\ <<x, k>> \notin {}
    BY <1>1, <1>12, <1>14, <2>1
  <2>2. IsFiniteSet({}) /\ Cardinality({}) = 0 /\ {} \in SUBSET Pending(o)
    BY FS_EmptySet
  <2>3. failures'[o] + Cardinality({}) <= failures[o] + Cardinality({})
    <3>1. failures[o] \in Nat
      BY DEF TypeOK
    <3> QED
      BY <1>2, <2>2, <3>1
  <2>4. routed \subseteq routed'
    BY <1>2
  <2> QED
    BY <1>13, <2>1, <2>2, <2>3, <2>4, WithinExchange
<1>15. CASE o = m.order
  <2> DEFINE A == {m} \X (m.attempt + 2 .. MaxDeliveryAttempts)
             B == {n} \X (m.attempt + 2 .. MaxDeliveryAttempts)
  <2>1. /\ IsFiniteSet(B) /\ Cardinality(A) = Cardinality(B) /\ Cardinality(B) \in Nat
    <3>1. PICK i \in Nat : i = m.attempt + 2
      BY <1>11
    <3>2. /\ IsFiniteSet({n} \X (i .. MaxDeliveryAttempts))
          /\ Cardinality({n} \X (i .. MaxDeliveryAttempts)) =
               IF i > MaxDeliveryAttempts THEN 0 ELSE MaxDeliveryAttempts - i + 1
      BY <1>0, OneMessage
    <3>3. Cardinality({m} \X (i .. MaxDeliveryAttempts)) =
            IF i > MaxDeliveryAttempts THEN 0 ELSE MaxDeliveryAttempts - i + 1
      BY <1>0, OneMessage
    <3> QED
      BY <3>1, <3>2, <3>3, FS_CardinalityType
  <2>2. A \in SUBSET Pending(o)
    <3>1. ASSUME NEW k \in m.attempt + 2 .. MaxDeliveryAttempts
          PROVE  <<m, k>> \in Pending(o)
      <4>1. k \in 0 .. MaxDeliveryAttempts /\ k > m.attempt + 1
        BY <1>0, <1>11
      <4>2. Awaits(c, m, k)
        BY <1>1, <1>2, <1>6, <4>1 DEF Awaits
      <4>3. Left(m, k)
        BY <4>2 DEF Left, SessionLeft
      <4> QED
        BY <1>15, <4>1, <4>3 DEF Pending
    <3> QED
      BY <3>1
  <2>3. ASSUME NEW x \in Message, NEW k \in 0 .. MaxDeliveryAttempts,
               x.order = o, Left(x, k)'
        PROVE  (Left(x, k) /\ <<x, k>> \notin A) \/ <<x, k>> \in B
    <3>1. CASE Left(x, k) /\ x # m
      BY <3>1
    <3>2. CASE x = n /\ k > n.attempt
      <4>1. k \in m.attempt + 2 .. MaxDeliveryAttempts
        BY <1>0, <1>1, <1>11, <3>2
      <4> QED
        BY <3>2, <4>1
    <3> QED
      BY <1>12, <2>3, <3>1, <3>2
  <2>4. ASSUME NEW d \in Consumers, Zombie(d, o)'
        PROVE  Zombie(d, o) /\ <<d, MaxDeliveryAttempts + 1>> \notin A
    <3>1. MaxDeliveryAttempts + 1 \notin m.attempt + 2 .. MaxDeliveryAttempts
      BY <1>0
    <3> QED
      BY <1>13, <2>4, <3>1
  <2>5. failures'[o] + Cardinality(B) <= failures[o] + Cardinality(A)
    <3>1. failures[o] \in Nat
      BY DEF TypeOK
    <3> HIDE DEF A, B
    <3> QED
      BY <1>2, <2>1, <3>1
  <2>6. routed \subseteq routed'
    BY <1>2
  <2> HIDE DEF A, B
  <2> QED
    BY <2>1, <2>2, <2>3, <2>4, <2>5, <2>6, WithinExchange
<1> QED
  BY <1>14, <1>15

-----------------------------------------------------------------------------
(* Every step keeps every order within its allowance. *)

(* Faults pay for MaxDeliveryAttempts attempts each, signals for one. *)
LEMMA PaidWithin ==
  ASSUME Bookkeeping, Bookkeeping', NEW c \in Consumers, NEW o \in Orders,
         ActsAlone(c), WithinAllowance(o), NEW B, NewOnly(c, o, B),
         IsFiniteSet(B), Cardinality(B) \in Nat,
         UNCHANGED <<routed, failures>>,
         \/ Cardinality(B) = 0 /\ faults' \in {faults, faults + 1} /\ stops' = stops
         \/ /\ Cardinality(B) <= MaxDeliveryAttempts
            /\ faults' = faults + 1 /\ stops' = stops
         \/ Cardinality(B) = 1 /\ faults' = faults /\ stops' = stops + 1
  PROVE  WithinAllowance(o)'
<1>1. TypeOK /\ TypeOK'
  BY DEF Bookkeeping
<1>2. /\ Allowance(o) \in Nat /\ Allowance(o)' \in Nat
      /\ faults' = faults /\ stops' = stops => Allowance(o)' >= Allowance(o)
      /\ faults' = faults + 1 /\ stops' = stops =>
           Allowance(o)' >= Allowance(o) + MaxDeliveryAttempts
      /\ faults' = faults /\ stops' = stops + 1 => Allowance(o)' >= Allowance(o) + 1
  BY <1>1, AllowanceGains
<1>3. PICK b, M, x, y \in Nat :
        /\ b = Cardinality(B) /\ M = MaxDeliveryAttempts
        /\ x = Allowance(o) /\ y = Allowance(o)'
  BY <1>2, BrokerAssumption
<1>4. \/ b = 0 /\ (y >= x \/ y >= x + M)
      \/ b <= M /\ y >= x + M
      \/ b = 1 /\ y >= x + 1
  BY <1>2, <1>3
<1>5. y >= x + b
  BY ONLY <1>4
<1>6. Allowance(o)' >= Allowance(o) + Cardinality(B)
  BY <1>3, <1>5
<1>7. failures'[o] = failures[o] /\ routed \subseteq routed'
  OBVIOUS
<1> QED
  BY <1>1, <1>6, <1>7, WithinNew

(* The steps of one consumer. *)
LEMMA StepOfWithin ==
  ASSUME Bookkeeping, Bookkeeping', UnackedHeld, Apart,
         NEW c \in Consumers, NEW o \in Orders, StepOf(c), WithinAllowance(o)
  PROVE  WithinAllowance(o)'
<1>1. TypeOK /\ TypeOK' /\ LoopPlaces
  BY DEF Bookkeeping
<1>2. ActsAlone(c)
  BY <1>1, StepsAlone
<1>3. IsFiniteSet({}) /\ Cardinality({}) = 0 /\ 0 \in Nat
  BY FS_EmptySet
<1>4. MaxDeliveryAttempts \in Nat /\ MaxDeliveryAttempts >= 1
  BY BrokerAssumption
<1>5. ASSUME NewOnly(c, o, {}), UNCHANGED <<routed, failures, stops>>,
             faults' \in {faults, faults + 1}
      PROVE  WithinAllowance(o)'
  BY <1>2, <1>3, <1>5, PaidWithin
<1>6. ASSUME NEW t, NewOnly(c, o, {t}), UNCHANGED <<routed, failures>>,
             \/ faults' = faults + 1 /\ stops' = stops
             \/ faults' = faults /\ stops' = stops + 1
      PROVE  WithinAllowance(o)'
  <2>1. IsFiniteSet({t}) /\ Cardinality({t}) = 1 /\ 1 \in Nat
    BY FS_Singleton
  <2> QED
    BY <1>2, <1>4, <1>6, <2>1, PaidWithin
<1>7. ASSUME NewOnly(c, o, unacked[c] \X (1 .. MaxDeliveryAttempts)),
             UNCHANGED <<routed, failures>>, faults' = faults + 1, stops' = stops
      PROVE  WithinAllowance(o)'
  <2>1. PICK B : B = unacked[c] \X (1 .. MaxDeliveryAttempts)
    OBVIOUS
  <2>2. /\ IsFiniteSet(B) /\ Cardinality(B) \in Nat
        /\ Cardinality(B) <= MaxDeliveryAttempts
    BY <2>1, OneDelivery
  <2> QED
    BY <1>2, <1>7, <2>1, <2>2, PaidWithin
<1>8. CASE Start(c) \/ \E m \in orderQueue : Deliver(c, m)
  <2>1. UNCHANGED <<routed, failures, faults, stops>>
    BY <1>8 DEF Start, OpenSession, Deliver, Push, boundVars, incidentVars
  <2> QED
    BY <1>5, <1>8, <2>1, TakingNewOnly
<1>9. CASE Receive(c) \/ SeeShutdown(c) \/ SeeClosed(c) \/ Exit(c)
  <2>1. UNCHANGED <<routed, failures, faults, stops>>
    BY <1>9 DEF Receive, SeeShutdown, SeeClosed, Exit, boundVars, incidentVars,
                brokerVars
  <2> QED
    BY <1>5, <1>9, <2>1, LoopingNewOnly
<1>10. CASE \/ StartHandling(c) \/ LookupPrice(c)
            \/ Claims(c) \/ ClaimsUnheard(c) \/ ClaimsNothing(c)
  <2>1. UNCHANGED <<routed, stops>>
    BY <1>10, HandlerShape DEF Handles, brokerVars
  <2>2. faults' \in {faults, faults + 1}
    BY <1>10 DEF StartHandling, LookupPrice, Claims, ClaimsUnheard, ClaimsNothing,
                 boundVars, incidentVars
  <2>3. CASE pc'[c] # "transient"
    <3>1. failures' = failures
      BY <1>1, <1>10, <2>3, HandlerPlaces
    <3> QED
      BY <1>5, <1>10, <2>1, <2>2, <2>3, <3>1, HandlingNewOnly
  <2>4. CASE pc'[c] = "transient"
    <3>1. Allowance(o)' >= Allowance(o)
      <4>1. /\ Allowance(o) \in Nat /\ Allowance(o)' \in Nat
            /\ \/ Allowance(o)' >= Allowance(o)
               \/ Allowance(o)' >= Allowance(o) + MaxDeliveryAttempts
        BY <1>1, <2>1, <2>2, AllowanceGains
      <4> QED
        BY <1>4, <4>1
    <3> QED
      BY <1>2, <1>10, <2>4, <3>1, FailureWithin
  <2> QED
    BY <2>3, <2>4
<1>11. CASE AckSuccess(c) \/ AckAfterCopy(c) \/ DeadLetter(c)
  <2>1. PICK op \in {"ack", "reject"} : Settles(c, op)
    BY <1>11, SettlementShape
  <2>2. UNCHANGED <<routed, failures, faults, stops>>
    BY <1>11 DEF AckSuccess, AckAfterCopy, DeadLetter, QueuesUnchanged, boundVars,
                 incidentVars
  <2> QED
    BY <1>5, <2>1, <2>2, SettlingNewOnly
<1>12. CASE PublishRetryFails(c)
  <2>1. Settles(c, "requeue")
    BY <1>12, SettlementShape
  <2>2. pc[c] = "transient" /\ UNCHANGED <<routed, failures, stops>>
    BY <1>12 DEF PublishRetryFails, QueuesUnchanged
  <2>3. CASE (~linkUp[c] \/ ctxDone[c]) /\ UNCHANGED faults
    <3>1. NewOnly(c, o, {})
      BY <2>1, <2>2, <2>3, SettlingNewOnly
    <3> QED
      BY <1>5, <2>2, <2>3, <3>1
  <2>4. CASE faults' = faults + 1
    <3>1. PICK t : t = <<current[c], current[c].attempt + 1>>
      OBVIOUS
    <3>2. NewOnly(c, o, {t})
      BY <2>1, <2>2, <3>1, SettlingNewOnly
    <3> QED
      BY <1>6, <2>2, <2>4, <3>2
  <2> QED
    BY <1>12, <2>3, <2>4 DEF PublishRetryFails
<1>13. CASE PublishRetry(c)
  <2>1. UNCHANGED <<routed, faults, stops>>
    BY <1>13 DEF PublishRetry, QueuesUnchanged, boundVars, incidentVars
  <2>2. Allowance(o)' >= Allowance(o)
    BY <1>1, <2>1, AllowanceGains
  <2> QED
    BY <1>2, <1>13, <2>2, CopyWithin
<1>14. CASE Signal(c)
  <2>1. /\ UNCHANGED <<routed, failures>>
        /\ faults' = faults /\ stops' = stops + 1
    BY <1>14 DEF Signal, brokerVars
  <2>2. PICK t : NewOnly(c, o, {t})
    BY <1>14, SignalNewOnly
  <2> QED
    BY <1>6, <2>1, <2>2
<1>15. CASE Crash(c) \/ LoseConnection(c)
  <2>1. /\ UNCHANGED <<routed, failures>>
        /\ faults' = faults + 1 /\ stops' = stops
    BY <1>15 DEF Crash, LoseConnection, brokerVars
  <2>2. \/ NewOnly(c, o, {<<c, MaxDeliveryAttempts + 1>>})
        \/ NewOnly(c, o, unacked[c] \X (1 .. MaxDeliveryAttempts))
    BY <1>15, CrashNewOnly, LossNewOnly
  <2> QED
    BY <1>6, <1>7, <2>1, <2>2
<1>16. CASE BrokerEndsSession(c) \/ BrokerHandlesFrame(c)
  <2>1. UNCHANGED <<routed, failures, faults, stops>>
    BY <1>16 DEF BrokerEndsSession, EndSession, BrokerHandlesFrame, HandleFrame,
                 consumerVars, boundVars, incidentVars
  <2> QED
    BY <1>5, <1>16, <2>1, BrokerNewOnly
<1> QED
  BY <1>8, <1>9, <1>10, <1>11, <1>12, <1>13, <1>14, <1>15, <1>16
  DEF StepOf, ProcessStep

(* An expired copy has the attempts it had in the retry queue. *)
LEMMA ExpiryWithin ==
  ASSUME Bookkeeping, Bookkeeping', NEW o \in Orders, NEW n \in retryQueue,
         BrokerExpiresRetry(n), WithinAllowance(o)
  PROVE  WithinAllowance(o)'
<1>1. /\ orderQueue' \cup retryQueue' \subseteq orderQueue \cup retryQueue
      /\ UNCHANGED <<unacked, wire, routed, consumerVars>>
  BY DEF BrokerExpiresRetry, RetryExpires
<1>2. UNCHANGED <<pc, inbox, current, linkUp, ctxDone, faults, stops, failures>>
  BY <1>1 DEF consumerVars, processVars, boundVars, incidentVars
<1>3. \A c \in Consumers : /\ Published(c)' = Published(c) /\ InHand(c)' = InHand(c)
                           /\ Requeueing(c)' <=> Requeueing(c)
  BY <1>1, <1>2 DEF Published, PublishedIn, InHand, Requeueing
<1>4. ASSUME NEW c \in Consumers, NEW m, NEW k, SessionLeft(c, m, k)'
      PROVE  SessionLeft(c, m, k)
  BY <1>1, <1>2, <1>3, <1>4 DEF SessionLeft, Awaits
<1>5. ASSUME NEW m \in Message, NEW k \in 0 .. MaxDeliveryAttempts, Left(m, k)'
      PROVE  Left(m, k) /\ <<m, k>> \notin {}
  BY <1>1, <1>4, <1>5 DEF Left
<1>6. ASSUME NEW c \in Consumers, Zombie(c, o)'
      PROVE  Zombie(c, o)
  BY <1>2, <1>3, <1>6 DEF Zombie
<1>7. Allowance(o) \in Nat /\ Allowance(o)' = Allowance(o)
  <2>1. Allowance(o)' = Allowance(o)
    BY <1>1, <1>2 DEF Allowance
  <2> QED
    BY <1>1, <2>1, AllowanceGains DEF Bookkeeping
<1>8. /\ IsFiniteSet({}) /\ Cardinality({}) = 0 /\ {} \in SUBSET Pending(o)
      /\ failures'[o] + Cardinality({}) <= failures[o] + Cardinality({})
  <2>1. IsFiniteSet({}) /\ Cardinality({}) = 0
    BY FS_EmptySet
  <2>2. failures[o] \in Nat
    BY DEF Bookkeeping, TypeOK
  <2> QED
    BY <1>2, <2>1, <2>2
<1>9. routed \subseteq routed' /\ Allowance(o)' >= Allowance(o)
  BY <1>1, <1>7
<1> QED
  BY <1>5, <1>6, <1>8, <1>9, WithinExchange DEF Bookkeeping

(* The event of an order brings the attempts of one message. *)
LEMMA RouteWithin ==
  ASSUME Bookkeeping, Bookkeeping', NEW o \in Orders, NEW n \in Message,
         n.order \notin routed, orderQueue' = orderQueue \cup {n},
         routed' = routed \cup {n.order},
         UNCHANGED <<retryQueue, unacked, wire, consumerVars>>, WithinAllowance(o)
  PROVE  WithinAllowance(o)'
<1>0. MaxDeliveryAttempts \in Nat /\ MaxDeliveryAttempts >= 1
  BY BrokerAssumption
<1>1. TypeOK /\ TypeOK' /\ routed \subseteq routed'
  BY DEF Bookkeeping
<1>2. UNCHANGED <<pc, inbox, current, linkUp, ctxDone, faults, stops, failures>>
  BY DEF consumerVars, processVars, boundVars, incidentVars
<1>3. \A c \in Consumers : /\ Published(c)' = Published(c) /\ InHand(c)' = InHand(c)
                           /\ Requeueing(c)' <=> Requeueing(c)
  BY <1>2 DEF Published, PublishedIn, InHand, Requeueing
<1>4. ASSUME NEW c \in Consumers, NEW m, NEW k, SessionLeft(c, m, k)'
      PROVE  SessionLeft(c, m, k)
  BY <1>2, <1>3, <1>4 DEF SessionLeft, Awaits
<1>5. ASSUME NEW c \in Consumers, Zombie(c, o)'
      PROVE  Zombie(c, o)
  BY <1>2, <1>3, <1>5 DEF Zombie
<1>6. ASSUME NEW m \in Message, NEW k \in 0 .. MaxDeliveryAttempts, Left(m, k)'
      PROVE  Left(m, k) \/ (m = n /\ k > n.attempt)
  BY <1>4, <1>6 DEF Left
<1>7. PICK A : A = {}
  OBVIOUS
<1>8. IsFiniteSet(A) /\ Cardinality(A) = 0 /\ A \in SUBSET Pending(o)
  BY <1>7, FS_EmptySet
<1>9. CASE o # n.order
  <2>1. Allowance(o)' = Allowance(o) /\ Allowance(o) \in Nat
    <3>1. Allowance(o)' = Allowance(o)
      BY <1>2, <1>9 DEF Allowance
    <3> QED
      BY <1>1, <3>1, AllowanceGains
  <2>2. failures'[o] + Cardinality(A) <= failures[o] + Cardinality(A)
    <3>1. failures[o] \in Nat
      BY <1>1 DEF TypeOK
    <3> QED
      BY <1>2, <1>8, <3>1
  <2>3. ASSUME NEW m \in Message, NEW k \in 0 .. MaxDeliveryAttempts,
               m.order = o, Left(m, k)'
        PROVE  Left(m, k) /\ <<m, k>> \notin A
    BY <1>6, <1>7, <1>9, <2>3
  <2>4. ASSUME NEW c \in Consumers, Zombie(c, o)'
        PROVE  Zombie(c, o) /\ <<c, MaxDeliveryAttempts + 1>> \notin A
    BY <1>5, <1>7, <2>4
  <2>5. Allowance(o)' >= Allowance(o)
    BY <2>1
  <2> QED
    BY <1>1, <1>8, <2>2, <2>3, <2>4, <2>5, WithinExchange
<1>10. CASE o = n.order
  <2>1. /\ IsFiniteSet({n} \X (1 .. MaxDeliveryAttempts))
        /\ Cardinality({n} \X (1 .. MaxDeliveryAttempts)) =
             IF 1 > MaxDeliveryAttempts THEN 0 ELSE MaxDeliveryAttempts - 1 + 1
    BY <1>0, OneMessage
  <2>2. PICK B : /\ B = {n} \X (1 .. MaxDeliveryAttempts)
                 /\ IsFiniteSet(B) /\ Cardinality(B) = MaxDeliveryAttempts
    BY <1>0, <2>1
  <2>3. /\ Allowance(o) \in Nat /\ Allowance(o)' \in Nat
        /\ Allowance(o)' >= Allowance(o) + MaxDeliveryAttempts
    BY <1>1, <1>2, <1>10, AllowanceGains
  <2>4. ASSUME NEW m \in Message, NEW k \in 0 .. MaxDeliveryAttempts,
               m.order = o, Left(m, k)'
        PROVE  (Left(m, k) /\ <<m, k>> \notin A) \/ <<m, k>> \in B
    <3>1. CASE m = n /\ k > n.attempt
      <4>1. n.attempt \in Nat
        BY DEF Message, Attempt
      <4>2. k \in 1 .. MaxDeliveryAttempts
        BY <1>0, <3>1, <4>1
      <4> QED
        BY <2>2, <3>1, <4>2
    <3> QED
      BY <1>6, <1>7, <2>4, <3>1
  <2>5. ASSUME NEW c \in Consumers, Zombie(c, o)'
        PROVE  Zombie(c, o) /\ <<c, MaxDeliveryAttempts + 1>> \notin A
    BY <1>5, <1>7, <2>5
  <2>6. IsFiniteSet(Pending(o))
    BY DEF WithinAllowance
  <2>7. /\ IsFiniteSet(Pending(o)')
        /\ Cardinality(Pending(o)') \in Nat /\ Cardinality(Pending(o)) \in Nat
        /\ Cardinality(Pending(o)') + Cardinality(A) <= Cardinality(Pending(o)) + Cardinality(B)
    BY <1>8, <2>2, <2>4, <2>5, <2>6, PendingStep
  <2>8. failures[o] \in Nat /\ failures'[o] = failures[o]
    BY <1>1, <1>2 DEF TypeOK
  <2>9. failures[o] + Cardinality(Pending(o)) <= Allowance(o)
    BY DEF WithinAllowance
  <2>10. failures'[o] + Cardinality(Pending(o)') <= Allowance(o)'
    <3>1. PICK p, q, M, x, y, z \in Nat :
            /\ p = Cardinality(Pending(o)) /\ q = Cardinality(Pending(o)')
            /\ M = MaxDeliveryAttempts /\ x = Allowance(o) /\ y = Allowance(o)'
            /\ z = failures[o]
      BY <1>0, <2>3, <2>7, <2>8
    <3>2. q <= p + M /\ z + p <= x /\ y >= x + M
      BY <1>8, <2>2, <2>3, <2>7, <2>9, <3>1
    <3>3. z + q <= y
      BY ONLY <3>2
    <3> QED
      BY <2>8, <3>1, <3>3
  <2> QED
    BY <2>7, <2>10 DEF WithinAllowance
<1> QED
  BY <1>9, <1>10

(* The failures an order has had and may still have are within its allowance
   in every state. *)
LEMMA AttemptsLimitedInvariant == Spec => [](Bookkeeping /\ AttemptsLimited)
<1> DEFINE Inv == Bookkeeping /\ Apart /\ AttemptsLimited
<1>1. Init => Bookkeeping /\ AttemptsLimited
  <2> SUFFICES ASSUME Init
               PROVE  Bookkeeping /\ AttemptsLimited
    OBVIOUS
  <2>1. TypeOK /\ BrokerInit /\ ConsumerStateInit
    BY TypeInit DEF Init
  <2>2. Bookkeeping
    BY <2>1, BookkeepingInit
  <2>3. UnackedHeld
    BY <2>1 DEF BrokerInit, UnackedHeld
  <2>4. ASSUME NEW o \in Orders
        PROVE  WithinAllowance(o)
    <3>1. \A c \in Consumers : InHand(c) = {} /\ Published(c) = {} /\ unacked[c] = {}
      BY <2>1 DEF BrokerInit, ConsumerStateInit, InHand, Published, PublishedIn
    <3>2. \A m, k : ~Left(m, k)
      BY <2>1, <3>1 DEF BrokerInit, Left, SessionLeft, Awaits
    <3>3. \A c \in Consumers : ~Zombie(c, o)
      BY <3>1 DEF Zombie
    <3>4. Pending(o) = {}
      BY <3>2, <3>3 DEF Pending
    <3>5. IsFiniteSet(Pending(o)) /\ Cardinality(Pending(o)) = 0
      BY <3>4, FS_EmptySet
    <3>6. failures[o] = 0
      BY <2>1 DEF ConsumerStateInit
    <3>7. Allowance(o) \in Nat
      <4>1. PICK M \in Nat : M = MaxDeliveryAttempts
        BY BrokerAssumption
      <4>2. faults = 0 /\ stops = 0 /\ o \notin routed
        BY <2>1 DEF BrokerInit, ConsumerStateInit
      <4>3. Allowance(o) = M * (0 + 0) + 0
        BY <4>1, <4>2 DEF Allowance
      <4> QED
        BY <4>3
    <3> QED
      BY <3>5, <3>6, <3>7 DEF WithinAllowance
  <2> QED
    BY <2>2, <2>3, <2>4 DEF AttemptsLimited
<1>2. Bookkeeping /\ Bookkeeping' /\ Apart /\ AttemptsLimited /\ [Next]_vars => AttemptsLimited'
  <2> SUFFICES ASSUME Bookkeeping, Bookkeeping', Apart, AttemptsLimited, [Next]_vars
               PROVE  AttemptsLimited'
    OBVIOUS
  <2>1. UnackedHeld /\ \A o \in Orders : WithinAllowance(o)
    BY DEF AttemptsLimited
  <2>2. ASSUME NEW a \in Orders, Announce(a)
        PROVE  AttemptsLimited'
    <3>1. PICK body \in Bodies : RouteEvent(a, body)
      BY <2>2 DEF Announce
    <3>2. UNCHANGED <<ledgerVars, consumerVars>> /\ a \notin routed
      BY <2>2 DEF Announce
    <3>3. PICK n \in Message :
            /\ n.order = a
            /\ orderQueue' = orderQueue \cup {n}
            /\ routed' = routed \cup {a}
            /\ UNCHANGED <<retryQueue, unacked, wire>>
      BY <3>1, RouteEffect
    <3>4. \A o \in Orders : WithinAllowance(o)'
      BY <2>1, <3>2, <3>3, RouteWithin
    <3>5. UnackedHeld'
      BY <2>1, <3>2, <3>3
      DEF consumerVars, processVars, UnackedHeld, InHand, Settling
    <3> QED
      BY <3>4, <3>5 DEF AttemptsLimited
  <2>3. CASE ConsumerStep /\ ~\E o \in Orders : LateOutcome(o)
    <3>1. UnackedHeld'
      BY <2>1, <2>3, UnackedHeldStep
    <3>2. ASSUME NEW o \in Orders, NEW n \in retryQueue, BrokerExpiresRetry(n)
          PROVE  WithinAllowance(o)'
      BY <2>1, <3>2, ExpiryWithin
    <3>3. ASSUME NEW o \in Orders, NEW c \in Consumers, StepOf(c)
          PROVE  WithinAllowance(o)'
      BY <2>1, <3>3, StepOfWithin
    <3>4. (\E n \in retryQueue : BrokerExpiresRetry(n)) \/ \E c \in Consumers : StepOf(c)
      BY <2>3 DEF ConsumerStep, StepOf
    <3> QED
      BY <3>1, <3>2, <3>3, <3>4 DEF AttemptsLimited
  <2>4. CASE UNCHANGED vars \/ \E o \in Orders : LateOutcome(o)
    <3>0. ASSUME UNCHANGED vars
          PROVE  /\ UNCHANGED <<orderQueue, retryQueue, unacked, wire, routed>>
                 /\ UNCHANGED <<pc, inbox, current, linkUp, ctxDone, faults, stops, failures>>
      BY <3>0 DEF vars, brokerVars, consumerVars, processVars, boundVars, incidentVars
    <3>1. /\ UNCHANGED <<orderQueue, retryQueue, unacked, wire, routed>>
          /\ UNCHANGED <<pc, inbox, current, linkUp, ctxDone, faults, stops, failures>>
      BY <2>4, <3>0, LateElsewhere
    <3>2. \A c \in Consumers : /\ Published(c)' = Published(c) /\ InHand(c)' = InHand(c)
                               /\ Requeueing(c)' <=> Requeueing(c)
                               /\ Settling(c)' <=> Settling(c)
      BY <3>1 DEF Published, PublishedIn, InHand, Requeueing, Settling
    <3>3. UnackedHeld'
      BY <2>1, <3>1, <3>2 DEF UnackedHeld
    <3>4. \A m, k : Left(m, k)' <=> Left(m, k)
      BY <3>1, <3>2 DEF Left, SessionLeft, Awaits
    <3>5. ASSUME NEW o \in Orders
          PROVE  WithinAllowance(o)'
      <4>1. \A c \in Consumers : Zombie(c, o)' <=> Zombie(c, o)
        BY <3>1, <3>2 DEF Zombie
      <4>2. Pending(o)' = Pending(o)
        BY <3>4, <4>1 DEF Pending
      <4>3. Allowance(o)' = Allowance(o) /\ failures'[o] = failures[o]
        BY <3>1 DEF Allowance
      <4> QED
        BY <2>1, <4>2, <4>3 DEF WithinAllowance
    <3> QED
      BY <3>3, <3>5 DEF AttemptsLimited
  <2> QED
    BY <2>2, <2>3, <2>4 DEF Next
<1> QED
  BY <1>1, <1>2, OneLiveInvariant, PTL DEF Spec

(* Retries are bounded: an order fails MaxDeliveryAttempts times, and as often
   again for each fault, which may have its message delivered anew, and once
   for each signal. *)
THEOREM RetriesBounded == Spec => []RetryBudget
<1>1. Bookkeeping /\ AttemptsLimited => RetryBudget
  <2> SUFFICES ASSUME Bookkeeping, AttemptsLimited, NEW o \in Orders
               PROVE  failures[o] <= MaxDeliveryAttempts * (1 + faults) + stops
    BY DEF RetryBudget
  <2>1. /\ IsFiniteSet(Pending(o))
        /\ failures[o] + Cardinality(Pending(o)) <= Allowance(o)
    BY DEF AttemptsLimited, WithinAllowance
  <2>2. PICK M, f, x, y, z \in Nat :
          /\ M = MaxDeliveryAttempts /\ f = faults /\ x = stops
          /\ y = failures[o] /\ z = Cardinality(Pending(o))
    <3>1. /\ faults \in Nat /\ stops \in Nat /\ failures[o] \in Nat
          /\ MaxDeliveryAttempts \in Nat
      BY BrokerAssumption, ConsumerAssumption DEF Bookkeeping, TypeOK
    <3>2. Cardinality(Pending(o)) \in Nat
      BY <2>1, FS_CardinalityType
    <3> QED
      BY <3>1, <3>2
  <2>3. PICK r \in Nat : r = (IF o \in routed THEN 1 ELSE 0) /\ r <= 1
    OBVIOUS
  <2>4. y + z <= M * (f + r) + x
    BY <2>1, <2>2, <2>3 DEF Allowance
  <2>5. M * (f + r) \in Nat /\ M * (1 + f) \in Nat /\ M * (f + r) <= M * (1 + f)
    <3>1. r = 0 \/ r = 1
      BY <2>3
    <3>2. M * (1 + f) = M * f + M /\ M * f \in Nat
      OBVIOUS
    <3>3. CASE r = 0
      <4>1. M * (f + r) = M * f
        BY <3>3
      <4> QED
        BY <3>2, <4>1
    <3>4. CASE r = 1
      <4>1. M * (f + r) = M * (1 + f)
        BY <3>4
      <4> QED
        BY <3>2, <4>1
    <3> QED
      BY <3>1, <3>3, <3>4
  <2>6. PICK a, b \in Nat : a = M * (f + r) /\ b = M * (1 + f)
    BY <2>5
  <2>7. y <= b + x
    BY ONLY <2>4, <2>5, <2>6
  <2> QED
    BY <2>2, <2>6, <2>7
<1> QED
  BY <1>1, AttemptsLimitedInvariant, PTL
=============================================================================
