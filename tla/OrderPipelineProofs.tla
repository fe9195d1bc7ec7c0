------------------------- MODULE OrderPipelineProofs -------------------------
(***************************************************************************)
(* Theorems about OrderPipeline, for any number of orders, consumers,      *)
(* faults and signals on either side: an accepted order keeps its event,   *)
(* a consumer handles only orders with a row, and the pipeline takes each  *)
(* order through the life cycle of OrderLifecycle.                         *)
(*                                                                         *)
(* The consumers' half of each step is in ExecutionConsumerProofs; here    *)
(* the API joins in.  Two invariants tie the halves together: RowFirst (no *)
(* event and no message without a row) and MessagesTraced (wherever a      *)
(* message is, the broker keeps one of its order, or that is EXECUTED);    *)
(* the same goes for a COMMIT that nobody waits for (UnheardTraced).       *)
(* Two more make the API the publisher that ExecutionConsumer assumes:     *)
(* EventOnce and BodiesTrue.  With them the pipeline implements            *)
(* ExecutionConsumer, and what is proved of that holds here.               *)
(***************************************************************************)
EXTENDS OrderPipeline, OrderApiProofs, ExecutionConsumerProofs

-----------------------------------------------------------------------------
(* The row comes before the event and every message of it. *)
RowFirst ==
  /\ \A o \in Orders : req[o] = "publishing" \/ o \in apiWire => status[o] # "ABSENT"
  /\ \A m \in Message : Exists(m) => status[m.order] # "ABSENT"

(* The broker can say what became of order o. *)
Traced(o) == status[o] = "EXECUTED" \/ \E m \in Kept : m.order = o

(* That goes for the order of every message, also one that a process has in
   hand after its session ended, and a copy that is on its way. *)
MessagesTraced == \A m \in Message : Exists(m) => Traced(m.order)

(* And for the order of every COMMIT that nobody waits for. *)
UnheardTraced == \A o \in unheard : Traced(o)

PipelineInv ==
  /\ Bookkeeping /\ ApiTypeOK
  /\ ResultKept
  /\ Serving
  /\ RowFirst
  /\ MessagesTraced
  /\ UnheardTraced

-----------------------------------------------------------------------------
(* The invariant, in the steps of the API. *)

(* An event that is routed makes one message, and no other comes or goes. *)
LEMMA RouteMakesOne ==
  ASSUME TypeOK, NEW o \in Orders, NEW body \in Bodies, RouteEvent(o, body),
         UNCHANGED consumerVars
  PROVE  \E m \in Message :
           /\ m.order = o /\ Kept' = Kept \cup {m}
           /\ \A n : Exists(n)' => Exists(n) \/ n = m
<1>1. PICK m \in Message :
        /\ m.order = o /\ orderQueue' = orderQueue \cup {m}
        /\ UNCHANGED <<retryQueue, deadLetterQueue, unacked, wire>>
  BY RouteEffect
<1>2. Kept' = Kept \cup {m}
  BY <1>1 DEF Kept
<1>3. \A n : Exists(n)' => Exists(n) \/ n = m
  BY <1>1, <1>2 DEF Exists, InHand, consumerVars, processVars
<1> QED
  BY <1>1, <1>2, <1>3

(* The invariant holds after every step of the API, *)
LEMMA PipelineApiStep ==
  ASSUME PipelineInv, ApiStep, UNCHANGED consumerVars
  PROVE  PipelineInv'
<1>0. TypeOK /\ LedgerTypeOK
  BY DEF PipelineInv, Bookkeeping, TypeOK
<1>1. \A o \in Orders :
        /\ status'[o] = status[o] \/ (status[o] = "ABSENT" /\ status'[o] = "PENDING")
        /\ status[o] # "ABSENT" => status'[o] # "ABSENT"
        /\ status[o] = "EXECUTED" => status'[o] = "EXECUTED"
  BY ApiLedger DEF PipelineInv
<1>2. LedgerTypeOK'
  BY ApiLedger DEF PipelineInv
<1>3. /\ Bookkeeping' /\ Kept \subseteq Kept' /\ UNCHANGED wire
      /\ \A m \in Message : Exists(m)' =>
           Exists(m) \/ (status'[m.order] # "ABSENT" /\ m \in Kept')
  <2>1. CASE UNCHANGED brokerVars
    <3>1. Bookkeeping'
      BY <1>2, <2>1, BookkeepingIdle DEF PipelineInv
    <3>2. UNCHANGED <<Kept, wire>> /\ \A m : Exists(m)' = Exists(m)
      BY <2>1 DEF brokerVars, consumerVars, processVars, Kept, Exists, InHand
    <3> QED
      BY <3>1, <3>2
  <2>2. ASSUME NEW o \in Orders, BrokerHandlesEvent(o), EventBody(o) \in Bodies,
               RouteEvent(o, EventBody(o)), UNCHANGED ledgerVars
        PROVE  <1>3!:
    <3>1. Bookkeeping'
      BY <2>2, BookkeepingRoute DEF PipelineInv
    <3>2. status'[o] # "ABSENT"
      BY <2>2 DEF PipelineInv, RowFirst, BrokerHandlesEvent, ledgerVars
    <3>3. UNCHANGED wire
      BY <2>2, RouteEffect
    <3> QED
      BY <1>0, <2>2, <3>1, <3>2, <3>3, RouteMakesOne
  <2> QED
    BY <2>1, <2>2, ApiBroker DEF PipelineInv
<1>4. ApiTypeOK'
  BY <1>3, ApiTypeStep DEF PipelineInv, Bookkeeping, TypeOK
<1>5. ResultKept'
  BY <1>1, <1>3, ResultKeptIdle DEF PipelineInv, consumerVars, processVars
<1>6. Serving'
  BY ServingStep DEF PipelineInv
<1>7. RowFirst'
  <2>1. \A o \in Orders : req'[o] = "publishing" \/ o \in apiWire' => status'[o] # "ABSENT"
    BY <1>0, <1>1, EventSource
    DEF PipelineInv, RowFirst, StoreCreates, InsertOrder, LedgerTypeOK
  <2>2. \A m \in Message : Exists(m)' => status'[m.order] # "ABSENT"
    BY <1>1, <1>3 DEF PipelineInv, RowFirst, Message
  <2> QED
    BY <2>1, <2>2 DEF RowFirst
<1>8. MessagesTraced'
  <2> SUFFICES ASSUME NEW m \in Message, Exists(m)'
               PROVE  Traced(m.order)'
    BY DEF MessagesTraced
  <2>1. CASE Exists(m)
    BY <1>1, <1>3, <2>1 DEF PipelineInv, MessagesTraced, Traced, Message
  <2>2. CASE m \in Kept'
    BY <2>2 DEF Traced
  <2> QED
    BY <1>3, <2>1, <2>2
<1>9. UnheardTraced'
  BY <1>0, <1>1, <1>3
  DEF PipelineInv, UnheardTraced, Traced, TypeOK, consumerVars, incidentVars
<1> QED
  BY <1>3, <1>4, <1>5, <1>6, <1>7, <1>8, <1>9 DEF PipelineInv

(* A row stays, and so does what the broker can say of an order. *)
LEMMA ConsumerKeepsTrace ==
  ASSUME Bookkeeping, ResultKept, ConsumerStep, NEW o \in Orders
  PROVE  /\ status'[o] # status[o] => status[o] = "PENDING" /\ status'[o] = "EXECUTED"
         /\ Traced(o) => Traced(o)'
<1>0. TypeOK /\ LoopPlaces
  BY DEF Bookkeeping
<1>1. ASSUME NEW p, ClaimOrder(p)
      PROVE  status'[o] # status[o] => status[o] = "PENDING" /\ status'[o] = "EXECUTED"
  BY <1>0, <1>1 DEF ClaimOrder, TypeOK, LedgerTypeOK
<1>2. (\E p : ClaimOrder(p)) \/ UNCHANGED status
  BY DEF ConsumerStep, ProcessStep, BrokerExpiresRetry, Start, Deliver, Receive,
         SeeShutdown, SeeClosed, StartHandling, LookupPrice, Claims,
         ClaimsUnheard, ClaimsNothing, AckSuccess, DeadLetter, PublishRetry,
         PublishRetryFails, AckAfterCopy, Exit, Signal, Crash, LoseConnection,
         BrokerEndsSession, BrokerHandlesFrame, LateOutcome, ledgerVars
<1>3. Traced(o) => Traced(o)'
  BY <1>0, ExecutedStays, MessageStays DEF Traced
<1> QED
  BY <1>1, <1>2, <1>3

(* A process is in a call for the order, or has left its COMMIT behind. *)
Claimed(o) ==
  o \in unheard \/ \E c \in Consumers : pc[c] = "executing" /\ current[c].order = o

(* A COMMIT that is left behind is of an order that was claimed, *)
LEMMA UnheardSource ==
  ASSUME ConsumerStep, NEW o \in unheard'
  PROVE  Claimed(o)
<1>1. ASSUME NEW c \in Consumers, ClaimsUnheard(c) \/ Crash(c)
      PROVE  Claimed(o)
  BY <1>1 DEF ClaimsUnheard, Crash, Claimed
<1>2. CASE unheard' \subseteq unheard
  BY <1>2 DEF Claimed
<1> QED
  BY <1>1, <1>2
  DEF ConsumerStep, ProcessStep, BrokerExpiresRetry, Start, Deliver, Receive,
      SeeShutdown, SeeClosed, StartHandling, LookupPrice, Claims, ClaimsNothing,
      AckSuccess, DeadLetter, PublishRetry, PublishRetryFails, AckAfterCopy, Exit,
      Signal, LoseConnection, BrokerEndsSession, BrokerHandlesFrame, LateOutcome,
      consumerVars, incidentVars

(* and of such an order the broker has a message, unless it is EXECUTED. *)
LEMMA ClaimedTraced ==
  ASSUME PipelineInv, NEW o, Claimed(o)
  PROVE  o \in Orders /\ Traced(o)
<1>0. TypeOK /\ LoopPlaces
  BY DEF PipelineInv, Bookkeeping
<1>1. CASE o \in unheard
  BY <1>0, <1>1 DEF PipelineInv, UnheardTraced, TypeOK
<1>2. ASSUME NEW c \in Consumers, pc[c] = "executing", current[c].order = o
      PROVE  o \in Orders /\ Traced(o)
  <2>1. PICK m \in Message : m = current[c] /\ m.order \in Orders
    BY <1>0, <1>2, BusyHasMessage DEF Busy, Handling
  <2>2. m \in InHand(c)
    BY <1>0, <1>2, <2>1 DEF InHand, LoopPlaces, Busy, Handling
  <2> QED
    BY <1>2, <2>1, <2>2 DEF PipelineInv, MessagesTraced, Exists
<1> QED
  BY <1>1, <1>2 DEF Claimed

(* of a consumer or the broker, *)
LEMMA PipelineConsumerStep ==
  ASSUME PipelineInv, ConsumerStep, UNCHANGED apiVars
  PROVE  PipelineInv'
<1>1. Bookkeeping' /\ ResultKept'
  BY BookkeepingStep, ResultKeptStep DEF PipelineInv
<1>2. UNCHANGED <<api, apiLink, req, apiWire, unroutable, apiFaults, apiStops>>
  BY DEF apiVars, apiBoundVars
<1>3. ApiTypeOK' /\ Serving'
  BY <1>1, <1>2 DEF PipelineInv, Bookkeeping, TypeOK, ApiTypeOK, Serving, InFlight
<1>4. ASSUME NEW o \in Orders
      PROVE  /\ status[o] # "ABSENT" => status'[o] # "ABSENT"
             /\ Traced(o) => Traced(o)'
  BY ConsumerKeepsTrace DEF PipelineInv
<1>5. ASSUME NEW m \in Message, Exists(m)'
      PROVE  \E n \in Message : Exists(n) /\ n.order = m.order
  <2>1. CASE Exists(m)
    BY <2>1
  <2>2. ASSUME NEW c \in Consumers, PublishRetry(c), m.order = current[c].order
        PROVE  \E n \in Message : Exists(n) /\ n.order = m.order
    <3>1. PICK n : n = current[c]
      OBVIOUS
    <3>2. n \in Message /\ n \in InHand(c)
      BY <2>2, <3>1
      DEF PublishRetry, PipelineInv, Bookkeeping, TypeOK, LoopPlaces, Busy, InHand
    <3> QED
      BY <2>2, <3>1, <3>2 DEF Exists
  <2> QED
    BY <1>5, <2>1, <2>2, MessageSource DEF PipelineInv
<1>6. RowFirst'
  <2>1. \A o \in Orders : req'[o] = "publishing" \/ o \in apiWire' => status'[o] # "ABSENT"
    BY <1>2, <1>4 DEF PipelineInv, RowFirst
  <2>2. \A m \in Message : Exists(m)' => status'[m.order] # "ABSENT"
    BY <1>4, <1>5 DEF PipelineInv, RowFirst, Message
  <2> QED
    BY <2>1, <2>2 DEF RowFirst
<1>7. MessagesTraced'
  BY <1>4, <1>5 DEF PipelineInv, MessagesTraced, Message
<1>8. UnheardTraced'
  BY <1>4, UnheardSource, ClaimedTraced DEF UnheardTraced
<1> QED
  BY <1>1, <1>3, <1>6, <1>7, <1>8 DEF PipelineInv

(* and in every other. *)
LEMMA PipelineInvStep == PipelineInv /\ [PipelineNext]_pipelineVars => PipelineInv'
<1> SUFFICES ASSUME PipelineInv, [PipelineNext]_pipelineVars
             PROVE  PipelineInv'
  OBVIOUS
<1>1. CASE UNCHANGED pipelineVars
  <2>1. UNCHANGED <<vars, apiVars>>
    BY <1>1 DEF pipelineVars
  <2>2. UNCHANGED <<brokerVars, ledgerVars, consumerVars, processVars, incidentVars, apiBoundVars>>
    BY <2>1 DEF vars, apiVars, consumerVars
  <2>3. LedgerTypeOK'
    BY <2>2 DEF PipelineInv, ApiTypeOK, LedgerTypeOK, ledgerVars
  <2>4. Bookkeeping'
    BY <2>2, <2>3, BookkeepingIdle DEF PipelineInv
  <2>5. /\ UNCHANGED <<Kept, wire, pc, current, linkUp, status>>
        /\ \A m : Exists(m)' = Exists(m)
    BY <2>2 DEF brokerVars, ledgerVars, consumerVars, processVars, Kept, Exists, InHand
  <2>6. ResultKept'
    BY <2>5, ResultKeptIdle DEF PipelineInv
  <2>7. ApiTypeOK' /\ Serving'
    BY <2>1, <2>3, <2>4
    DEF PipelineInv, Bookkeeping, TypeOK, ApiTypeOK, Serving, InFlight, apiVars,
        apiBoundVars
  <2>8. RowFirst' /\ MessagesTraced'
    BY <2>1, <2>5 DEF PipelineInv, RowFirst, MessagesTraced, Traced, apiVars
  <2>9. UnheardTraced'
    BY <2>2, <2>5 DEF PipelineInv, UnheardTraced, Traced, incidentVars
  <2> QED
    BY <2>4, <2>6, <2>7, <2>8, <2>9 DEF PipelineInv
<1> QED
  BY <1>1, PipelineApiStep, PipelineConsumerStep DEF PipelineNext, PipelineIdle

(* It holds at the start. *)
LEMMA PipelineInvInit == PipelineInit => PipelineInv
<1> SUFFICES ASSUME PipelineInit
             PROVE  PipelineInv
  OBVIOUS
<1> USE DEF PipelineInit
<1>1. ApiTypeOK /\ Serving
  BY ApiInitially
<1>2. TypeOK
  BY <1>1, ConsumerAssumption DEF ApiTypeOK, ConsumerStateInit, TypeOK, Place, Handling
<1>3. Bookkeeping /\ ResultKept
  BY <1>2, BookkeepingInit, ResultKeptInit
<1>4. \A m : ~Exists(m)
  BY DEF BrokerInit, ConsumerStateInit, Exists, Kept, InHand
<1>5. RowFirst /\ MessagesTraced /\ UnheardTraced
  BY <1>4 DEF RowFirst, MessagesTraced, UnheardTraced, ApiStateInit, ConsumerStateInit
<1> QED
  BY <1>1, <1>3, <1>5 DEF PipelineInv

(* So it is an invariant of the pipeline. *)
LEMMA PipelineInvariant == PipelineSpec => []PipelineInv
BY PipelineInvInit, PipelineInvStep, PTL DEF PipelineSpec

-----------------------------------------------------------------------------
(* What happens to an order that waits for its execution. *)

(* The event of o is about to be published, on its way, or with the broker. *)
Waits(o) ==
  \/ req[o] = "publishing"
  \/ o \in apiWire
  \/ \E m \in Kept : m.order = o

(* A consumer handles an event only if it found the order's row. *)
THEOREM RowBeforeHandling == PipelineSpec => []HandledAfterRow
<1>1. PipelineInv => HandledAfterRow
  <2> SUFFICES ASSUME PipelineInv, NEW c \in Consumers, pc[c] \in Handling
               PROVE  status[current[c].order] # "ABSENT"
    BY DEF HandledAfterRow
  <2>1. PICK m : m = current[c]
    OBVIOUS
  <2>2. m \in Message /\ m \in InHand(c)
    BY <2>1 DEF PipelineInv, Bookkeeping, TypeOK, LoopPlaces, Busy, InHand
  <2> QED
    BY <2>1, <2>2 DEF PipelineInv, RowFirst, Exists
<1> QED
  BY <1>1, PipelineInvariant, PTL

(* The broker keeps what it has when the API takes a step, and gets messages
   of events that were on their way. *)
LEMMA ApiKept ==
  ASSUME TypeOK, ApiTypeOK, ApiStep, UNCHANGED consumerVars
  PROVE  /\ Kept \subseteq Kept' /\ UNCHANGED deadLetterQueue
         /\ \A m \in Kept' : m \in Kept \/ m.order \in apiWire
<1>1. CASE UNCHANGED brokerVars
  BY <1>1 DEF brokerVars, Kept
<1>2. ASSUME NEW o \in Orders, BrokerHandlesEvent(o), EventBody(o) \in Bodies,
             RouteEvent(o, EventBody(o))
      PROVE  /\ Kept \subseteq Kept' /\ UNCHANGED deadLetterQueue
             /\ \A m \in Kept' : m \in Kept \/ m.order \in apiWire
  BY <1>2, RouteMakesOne DEF BrokerHandlesEvent, RouteEvent
<1> QED
  BY <1>1, <1>2, ApiBroker

(* The API gives no event up unless there is a fault or no queue. *)
LEMMA WaitsApiStep ==
  ASSUME PipelineInv, ApiStep, UNCHANGED consumerVars, NEW o \in Orders, Waits(o)
  PROVE  Waits(o)' \/ apiFaults' # 0 \/ o \in unroutable'
<1>0. TypeOK /\ ApiTypeOK
  BY DEF PipelineInv, Bookkeeping
<1>1. CASE \E m \in Kept : m.order = o
  BY <1>0, <1>1, ApiKept DEF Waits
<1>2. CASE req[o] = "publishing" \/ o \in apiWire
  BY <1>0, <1>2, EventKept, EventAssumption, RouteMakesOne DEF PipelineInv, Waits
<1> QED
  BY <1>1, <1>2 DEF Waits

(* The consumers and the broker give no event up before the execution. *)
LEMMA WaitsConsumerStep ==
  ASSUME PipelineInv, ConsumerStep, UNCHANGED apiVars, NEW o \in Orders,
         status'[o] # "EXECUTED"
  PROVE  Waits(o)' <=> Waits(o)
<1>0. UNCHANGED <<req, apiWire>>
  BY DEF apiVars
<1>1. Waits(o) => Waits(o)'
  BY <1>0, MessageStays DEF Waits, PipelineInv
<1>2. ASSUME NEW m \in Kept', m.order = o
      PROVE  Waits(o)
  <2>1. CASE m \in Kept
    BY <1>2, <2>1 DEF Waits
  <2>2. ASSUME NEW c \in Consumers, 1 \in DOMAIN wire[c], wire[c][1].msg = m
        PROVE  Waits(o)
    <3>1. m \in Message
      BY <2>2, FrameIsMessage DEF PipelineInv, Bookkeeping
    <3>2. Traced(o)
      BY <1>2, <2>2, <3>1 DEF Exists, PipelineInv, MessagesTraced
    <3>3. status[o] # "EXECUTED"
      BY ConsumerKeepsTrace DEF PipelineInv
    <3> QED
      BY <3>2, <3>3 DEF Traced, Waits
  <2> QED
    BY <2>1, <2>2, KeptSource DEF PipelineInv
<1> QED
  BY <1>0, <1>1, <1>2 DEF Waits

(* Without a fault of the API an order that is PENDING has its event, for any
   faults of the consumers. *)
THEOREM PendingOrderAccounted == PipelineSpec => []AcceptedAccounted
<1> DEFINE Inv == PipelineInv /\ AcceptedAccounted
<1>1. PipelineInit => Inv
  BY PipelineInvInit DEF PipelineInit, LedgerInit, AcceptedAccounted
<1>2. Inv /\ [PipelineNext]_pipelineVars => Inv'
  <2> SUFFICES ASSUME Inv, [PipelineNext]_pipelineVars
               PROVE  AcceptedAccounted'
    BY PipelineInvStep
  <2>1. ASSUME ApiStep, UNCHANGED consumerVars
        PROVE  AcceptedAccounted'
    <3> SUFFICES ASSUME NEW o \in Orders, status'[o] = "PENDING", apiFaults' = 0
                 PROVE  Waits(o)' \/ o \in unroutable'
      BY DEF AcceptedAccounted, Waits
    <3>1. apiFaults = 0 /\ unroutable \subseteq unroutable'
      BY <2>1, ExposureGrows DEF PipelineInv
    <3>2. CASE status[o] = "PENDING"
      <4>1. Waits(o) \/ o \in unroutable
        BY <3>1, <3>2 DEF AcceptedAccounted, Waits
      <4> QED
        BY <2>1, <3>1, <4>1, WaitsApiStep
    <3>3. CASE StoreCreates(o)
      BY <3>3 DEF StoreCreates, Becomes, Waits, PipelineInv, ApiTypeOK
    <3>4. CASE StoreFails(o) /\ status[o] = "ABSENT"
      BY <3>1, <3>4 DEF StoreFails, ApiFault, ledgerVars
    <3> QED
      BY <2>1, <3>2, <3>3, <3>4, ApiLedger DEF PipelineInv
  <2>2. ASSUME ConsumerStep, UNCHANGED apiVars
        PROVE  AcceptedAccounted'
    <3> SUFFICES ASSUME NEW o \in Orders, status'[o] = "PENDING", apiFaults' = 0
                 PROVE  Waits(o)' \/ o \in unroutable'
      BY DEF AcceptedAccounted, Waits
    <3>1. apiFaults = 0 /\ UNCHANGED unroutable
      BY <2>2 DEF apiVars, apiBoundVars
    <3>2. status[o] = "PENDING"
      BY <2>2, ConsumerKeepsTrace DEF PipelineInv
    <3>3. Waits(o) \/ o \in unroutable
      BY <3>1, <3>2 DEF AcceptedAccounted, Waits
    <3> QED
      BY <2>2, <3>1, <3>3, WaitsConsumerStep
  <2>3. CASE UNCHANGED pipelineVars
    BY <2>3 DEF pipelineVars, vars, ledgerVars, brokerVars, apiVars, apiBoundVars,
                AcceptedAccounted, Kept
  <2> QED
    BY <2>1, <2>2, <2>3 DEF PipelineNext, PipelineIdle
<1> QED
  BY <1>1, <1>2, PTL DEF PipelineSpec

-----------------------------------------------------------------------------
(* The life cycle. *)

Parked(o) == \E m \in deadLetterQueue : m.order = o

(* The phases in terms of the state. *)
LEMMA PhaseCases ==
  ASSUME NEW o
  PROVE  /\ status[o] = "ABSENT" => Phase(o) = "none"
         /\ status[o] = "EXECUTED" => Phase(o) = "executed"
         /\ status[o] \notin {"ABSENT", "EXECUTED"} =>
              Phase(o) = IF Parked(o) THEN "parked"
                         ELSE IF Waits(o) THEN "accepted" ELSE "stranded"
BY DEF Phase, Parked, Waits

(* The same of the next state. *)
LEMMA PhaseCasesNext ==
  ASSUME NEW o
  PROVE  /\ status'[o] = "ABSENT" => Phase(o)' = "none"
         /\ status'[o] = "EXECUTED" => Phase(o)' = "executed"
         /\ status'[o] \notin {"ABSENT", "EXECUTED"} =>
              Phase(o)' = IF Parked(o)' THEN "parked"
                          ELSE IF Waits(o)' THEN "accepted" ELSE "stranded"
BY DEF Phase, Parked, Waits

(* Orders without a row have no trace at all. *)
LEMMA AbsentHasNothing ==
  ASSUME PipelineInv, NEW o \in Orders, status[o] = "ABSENT"
  PROVE  ~Parked(o) /\ ~Waits(o)
<1>1. \A m \in Kept : m \in Message /\ Exists(m)
  BY DEF Kept, Exists, PipelineInv, Bookkeeping, TypeOK, BrokerTypeOK
<1> QED
  BY <1>1 DEF PipelineInv, RowFirst, Parked, Waits, Kept

(* exposed, of the life cycle. *)
Exposed == IF apiFaults > 0 THEN Orders ELSE unroutable

(* What a step of the API does to an order's phase. *)
LEMMA PhaseApiStep ==
  ASSUME PipelineInv, ApiStep, UNCHANGED consumerVars, NEW o \in Orders
  PROVE  \/ Phase(o)' = Phase(o)
         \/ StoreCreates(o) /\ Phase(o) = "none" /\ Phase(o)' = "accepted"
         \/ /\ Phase(o) \in {"none", "accepted"} /\ Phase(o)' = "stranded"
            /\ o \in Exposed'
<1>0. /\ TypeOK /\ ApiTypeOK /\ UNCHANGED deadLetterQueue /\ (Parked(o)' <=> Parked(o))
      /\ status \in [Orders -> OrderStatus]
  BY ApiKept DEF PipelineInv, Bookkeeping, Parked, ApiTypeOK, LedgerTypeOK
<1>1. \A p \in Orders : apiFaults' # 0 \/ p \in unroutable' => p \in Exposed'
  <2>1. apiFaults' \in Nat
    BY PipelineApiStep DEF PipelineInv, ApiTypeOK
  <2> QED
    BY <2>1 DEF Exposed
<1>2. CASE status'[o] = status[o]
  <2>1. CASE status[o] \in {"ABSENT", "EXECUTED"}
    BY <1>2, <2>1, PhaseCases, PhaseCasesNext
  <2>2. CASE status[o] \notin {"ABSENT", "EXECUTED"}
    <3>1. Waits(o) => Waits(o)' \/ o \in Exposed'
      BY <1>1, WaitsApiStep
    <3>2. Waits(o)' => Waits(o)
      <4>1. ~StoreCreates(o)
        BY <2>2 DEF StoreCreates, InsertOrder
      <4>2. req'[o] = "publishing" \/ o \in apiWire' => Waits(o)
        BY <1>0, <4>1, EventSource DEF Waits
      <4>3. (\E m \in Kept' : m.order = o) => Waits(o)
        BY <1>0, ApiKept DEF Waits
      <4> QED
        BY <4>2, <4>3 DEF Waits
    <3> QED
      BY <1>0, <1>2, <2>2, <3>1, <3>2, PhaseCases, PhaseCasesNext
  <2> QED
    BY <2>1, <2>2
<1>3. ASSUME status[o] = "ABSENT", status'[o] = "PENDING", StoreCreates(o)
      PROVE  Phase(o) = "none" /\ Phase(o)' = "accepted"
  <2>1. Waits(o)'
    BY <1>0, <1>3 DEF StoreCreates, Becomes, Waits, ApiTypeOK
  <2>2. ~Parked(o)'
    BY <1>0, <1>3, AbsentHasNothing
  <2> QED
    BY <1>3, <2>1, <2>2, PhaseCases, PhaseCasesNext
<1>4. ASSUME status[o] = "ABSENT", status'[o] = "PENDING", StoreFails(o)
      PROVE  Phase(o) = "none" /\ Phase(o)' = "stranded" /\ o \in Exposed'
  <2>1. ~Parked(o) /\ ~Waits(o)
    BY <1>4, AbsentHasNothing
  <2>2. /\ req'[o] # "publishing" /\ UNCHANGED apiWire /\ UNCHANGED brokerVars
        /\ apiFaults' = apiFaults + 1
    BY <1>0, <1>4 DEF StoreFails, Becomes, ApiFault, ledgerVars, ApiTypeOK
  <2>3. ~Waits(o)'
    BY <2>1, <2>2 DEF Waits, brokerVars, Kept
  <2>4. o \in Exposed'
    BY <1>0, <1>1, <2>2 DEF ApiTypeOK
  <2> QED
    BY <1>0, <1>4, <2>1, <2>3, <2>4, PhaseCases, PhaseCasesNext
<1> QED
  BY <1>0, <1>2, <1>3, <1>4, ApiLedger

(* A call of a consumer changes the ledger, for its order, and a frame
   changes the dead letter queue, for the order it rejects; no step does
   both. *)
LEMMA OneEffect ==
  ASSUME TypeOK, ConsumerStep
  PROVE  \/ UNCHANGED <<status, deadLetterQueue>>
         \/ \E o : Claimed(o) /\ ClaimOrder(o) /\ UNCHANGED brokerVars
         \/ \E m \in Message :
              /\ Exists(m) /\ deadLetterQueue' = deadLetterQueue \cup {m}
              /\ UNCHANGED status
<1>1. ASSUME NEW c \in Consumers, Claims(c)
      PROVE  \E o : Claimed(o) /\ ClaimOrder(o) /\ UNCHANGED brokerVars
  BY <1>1 DEF Claims, Claimed
<1>6. ASSUME NEW o \in Orders, LateOutcome(o)
      PROVE  \/ UNCHANGED <<status, deadLetterQueue>>
             \/ Claimed(o) /\ ClaimOrder(o) /\ UNCHANGED brokerVars
  BY <1>6 DEF LateOutcome, Claimed, ledgerVars, brokerVars
<1>2. ASSUME NEW c \in Consumers, BrokerHandlesFrame(c)
      PROVE  \/ UNCHANGED <<status, deadLetterQueue>>
             \/ \E m \in Message :
                  /\ Exists(m) /\ deadLetterQueue' = deadLetterQueue \cup {m}
                  /\ UNCHANGED status
  <2>1. UNCHANGED status /\ wire[c] # <<>>
    BY <1>2 DEF BrokerHandlesFrame, HandleFrame, ledgerVars
  <2>2. PICK m : m = wire[c][1].msg
    OBVIOUS
  <2>3. /\ 1 \in DOMAIN wire[c] /\ Head(wire[c]) = wire[c][1] /\ m \in Message
    BY <2>1, <2>2, TailFrame, FrameIsMessage DEF TypeOK, BrokerTypeOK
  <2>4. deadLetterQueue' = deadLetterQueue \/ deadLetterQueue' = deadLetterQueue \cup {m}
    BY <1>2, <2>2, <2>3 DEF BrokerHandlesFrame, HandleFrame
  <2>5. Exists(m)
    BY <2>2, <2>3 DEF Exists
  <2> QED
    BY <2>1, <2>3, <2>4, <2>5
<1>3. ASSUME NEW m \in retryQueue, BrokerExpiresRetry(m)
      PROVE  UNCHANGED <<status, deadLetterQueue>>
  BY <1>3 DEF BrokerExpiresRetry, RetryExpires, ledgerVars
<1>4. ASSUME NEW c \in Consumers,
             \/ Start(c) \/ (\E m \in orderQueue : Deliver(c, m)) \/ BrokerEndsSession(c)
             \/ AckSuccess(c) \/ DeadLetter(c) \/ PublishRetry(c)
             \/ PublishRetryFails(c) \/ AckAfterCopy(c)
      PROVE  UNCHANGED <<status, deadLetterQueue>>
  BY <1>4 DEF Start, OpenSession, Deliver, Push, BrokerEndsSession, EndSession,
         AckSuccess, DeadLetter, PublishRetry, PublishRetryFails, AckAfterCopy,
         QueuesUnchanged, ledgerVars
<1>5. ASSUME NEW c \in Consumers,
             \/ Receive(c) \/ SeeShutdown(c) \/ SeeClosed(c) \/ StartHandling(c)
             \/ LookupPrice(c) \/ ClaimsUnheard(c) \/ ClaimsNothing(c)
             \/ Exit(c) \/ Signal(c) \/ Crash(c) \/ LoseConnection(c)
      PROVE  UNCHANGED <<status, deadLetterQueue>>
  BY <1>5 DEF Receive, SeeShutdown, SeeClosed, StartHandling, LookupPrice,
         ClaimsUnheard, ClaimsNothing, Exit, Signal, Crash, LoseConnection, brokerVars,
         ledgerVars
<1> QED
  BY <1>1, <1>2, <1>3, <1>4, <1>5, <1>6 DEF ConsumerStep, ProcessStep

(* What a step of the consumers or the broker does to the phases. *)
LEMMA PhaseConsumerStep ==
  ASSUME PipelineInv, ConsumerStep, UNCHANGED apiVars
  PROVE  \/ \A o \in Orders : Phase(o)' = Phase(o)
         \/ \E o \in Orders :
              /\ \/ Phase(o) \in {"accepted", "parked"} /\ Phase(o)' = "executed"
                 \/ Phase(o) = "accepted" /\ Phase(o)' = "parked"
              /\ \A p \in Orders \ {o} : Phase(p)' = Phase(p)
<1>0. /\ TypeOK /\ status \in [Orders -> OrderStatus]
      /\ pc \in [Consumers -> Place] /\ current \in [Consumers -> Message \cup {NoMessage}]
  BY DEF PipelineInv, Bookkeeping, TypeOK, LedgerTypeOK
<1>1. ASSUME NEW o \in Orders, status'[o] = status[o], Parked(o)' <=> Parked(o)
      PROVE  Phase(o)' = Phase(o)
  BY <1>1, WaitsConsumerStep, PhaseCases, PhaseCasesNext
<1>2. ASSUME UNCHANGED <<status, deadLetterQueue>>
      PROVE  \A o \in Orders : Phase(o)' = Phase(o)
  BY <1>1, <1>2 DEF Parked
<1>3. ASSUME NEW o, Claimed(o), ClaimOrder(o), UNCHANGED brokerVars
      PROVE  /\ o \in Orders
             /\ Phase(o) \in {"accepted", "parked"} /\ Phase(o)' = "executed"
             /\ \A p \in Orders \ {o} : Phase(p)' = Phase(p)
  <2>1. o \in Orders /\ Traced(o) /\ status[o] = "PENDING"
    BY <1>3, ClaimedTraced DEF ClaimOrder
  <2>2. Phase(o) \in {"accepted", "parked"}
    BY <2>1, PhaseCases DEF Traced, Waits
  <2>3. /\ status'[o] = "EXECUTED"
        /\ \A p \in Orders \ {o} : status'[p] = status[p]
    BY <1>0, <1>3, <2>1 DEF ClaimOrder
  <2>4. Phase(o)' = "executed"
    BY <2>3, PhaseCasesNext
  <2>5. \A p \in Orders \ {o} : Phase(p)' = Phase(p)
    BY <1>1, <1>3, <2>3 DEF brokerVars, Parked
  <2> QED
    BY <2>1, <2>2, <2>4, <2>5
<1>4. ASSUME NEW m \in Message, Exists(m), deadLetterQueue' = deadLetterQueue \cup {m},
             UNCHANGED status
      PROVE  /\ \A p \in Orders \ {m.order} : Phase(p)' = Phase(p)
             /\ \/ Phase(m.order)' = Phase(m.order)
                \/ Phase(m.order) = "accepted" /\ Phase(m.order)' = "parked"
  <2>0. m.order \in Orders
    BY DEF Message
  <2>1. \A p \in Orders \ {m.order} : Phase(p)' = Phase(p)
    BY <1>1, <1>4 DEF Parked
  <2>2. CASE status[m.order] = "EXECUTED" \/ Parked(m.order)
    <3>1. Parked(m.order) => Parked(m.order)'
      BY <1>4 DEF Parked
    <3> QED
      BY <1>1, <1>4, <2>0, <2>1, <2>2, <3>1, PhaseCases, PhaseCasesNext
  <2>3. CASE status[m.order] # "EXECUTED" /\ ~Parked(m.order)
    <3>1. Traced(m.order) /\ status[m.order] # "ABSENT"
      BY <1>4 DEF PipelineInv, MessagesTraced, RowFirst
    <3>2. Phase(m.order) = "accepted"
      BY <2>3, <3>1, PhaseCases DEF Traced, Waits
    <3>3. Parked(m.order)'
      BY <1>4 DEF Parked
    <3>4. Phase(m.order)' = "parked"
      BY <1>4, <2>3, <3>1, <3>3, PhaseCasesNext
    <3> QED
      BY <2>1, <3>2, <3>4
  <2> QED
    BY <2>2, <2>3
<1>5. ASSUME NEW m \in Message, Exists(m), deadLetterQueue' = deadLetterQueue \cup {m},
             UNCHANGED status
      PROVE  \/ \A o \in Orders : Phase(o)' = Phase(o)
             \/ \E o \in Orders :
                  /\ Phase(o) = "accepted" /\ Phase(o)' = "parked"
                  /\ \A p \in Orders \ {o} : Phase(p)' = Phase(p)
  BY <1>4, <1>5 DEF Message
<1> QED
  BY <1>0, <1>2, <1>3, <1>5, OneEffect

(* The pipeline implements the life cycle: initial states map to the initial
   state, and a step to a step or a stutter.  Requests are accepted and
   stranded by the API; orders are executed and parked by the consumers. *)
LEMMA LifecycleInitially ==
  ASSUME PipelineInit
  PROVE  Lifecycle!LifecycleInit
<1>1. /\ \A o \in Orders : status[o] = "ABSENT"
      /\ apiFaults = 0 /\ unroutable = {}
  BY DEF PipelineInit, LedgerInit, ApiStateInit
<1>2. \A o \in Orders : Phase(o) = "none"
  BY <1>1, PhaseCases
<1> QED
  BY <1>1, <1>2 DEF Lifecycle!LifecycleInit

(* Every step of the pipeline is a step of the life cycle, or none. *)
LEMMA LifecycleStep ==
  ASSUME PipelineInv, [PipelineNext]_pipelineVars
  PROVE  [Lifecycle!LifecycleNext]_(Lifecycle!lifecycleVars)
<1> DEFINE before == [o \in Orders |-> Phase(o)]
           after == [o \in Orders |-> Phase(o)']
<1>0. Exposed \subseteq Orders /\ Exposed' \subseteq Orders
  BY PipelineInvStep DEF PipelineInv, ApiTypeOK, Exposed
<1>1. ASSUME NEW o \in Orders, StoreCreates(o), ApiStep, UNCHANGED consumerVars,
             Phase(o) = "none", Phase(o)' = "accepted"
      PROVE  Lifecycle!Accept(o)
  <2>1. Exposed' = Exposed
    BY <1>1 DEF StoreCreates, apiBoundVars, Exposed
  <2>2. ASSUME NEW p \in Orders \ {o}
        PROVE  Phase(p)' = Phase(p)
    <3>1. status'[p] = status[p] /\ req'[p] = req[p]
      BY <1>1 DEF StoreCreates, InsertOrder, Becomes, PipelineInv, ApiTypeOK,
                  LedgerTypeOK
    <3>2. UNCHANGED <<brokerVars, apiWire>>
      BY <1>1 DEF StoreCreates
    <3> QED
      BY <3>1, <3>2 DEF Phase, brokerVars, Kept
  <2>3. after = [before EXCEPT ![o] = "accepted"]
    BY <1>1, <2>2
  <2> QED
    BY <1>1, <2>1, <2>3 DEF Lifecycle!Accept, Lifecycle!Move, Exposed
<1>2. ASSUME ApiStep, UNCHANGED consumerVars,
             \A o \in Orders : ~(StoreCreates(o) /\ Phase(o) = "none" /\ Phase(o)' = "accepted")
      PROVE  \E hit \in SUBSET Orders : Lifecycle!Strand(hit)
  <2> DEFINE hit == {o \in Orders : Phase(o)' # Phase(o)}
  <2>1. Exposed \subseteq Exposed'
    <3>1. apiFaults \in Nat /\ apiFaults' \in Nat
      BY <1>2, PipelineApiStep DEF PipelineInv, ApiTypeOK
    <3> QED
      BY <1>0, <1>2, <3>1, ExposureGrows DEF Exposed, PipelineInv
  <2>2. \A o \in hit :
          /\ Phase(o) \in {"none", "accepted"} /\ Phase(o)' = "stranded" /\ o \in Exposed'
    BY <1>2, PhaseApiStep
  <2>3. after = [o \in Orders |-> IF o \in hit THEN "stranded" ELSE before[o]]
    BY <2>2
  <2>4. Lifecycle!Strand(hit)
    BY <1>0, <2>1, <2>2, <2>3 DEF Lifecycle!Strand, Exposed
  <2> QED
    BY <2>4
<1>3. ASSUME ConsumerStep, UNCHANGED apiVars
      PROVE  \/ \E o \in Orders : Lifecycle!Execute(o) \/ Lifecycle!Park(o)
             \/ UNCHANGED Lifecycle!lifecycleVars
  <2>1. Exposed' = Exposed
    BY <1>3 DEF apiVars, apiBoundVars, Exposed
  <2>2. ASSUME \A o \in Orders : Phase(o)' = Phase(o)
        PROVE  UNCHANGED Lifecycle!lifecycleVars
    BY <2>1, <2>2 DEF Lifecycle!lifecycleVars, Exposed
  <2>3. ASSUME NEW o \in Orders, \A p \in Orders \ {o} : Phase(p)' = Phase(p)
        PROVE  /\ /\ Phase(o) \in {"accepted", "parked"} /\ Phase(o)' = "executed"
                  => Lifecycle!Execute(o)
               /\ /\ Phase(o) = "accepted" /\ Phase(o)' = "parked"
                  => Lifecycle!Park(o)
    <3>1. after = [before EXCEPT ![o] = Phase(o)']
      BY <2>3
    <3> QED
      BY <2>1, <3>1
      DEF Lifecycle!Execute, Lifecycle!Park, Lifecycle!Move, Exposed
  <2> QED
    BY <1>3, <2>2, <2>3, PhaseConsumerStep
<1>4. ASSUME UNCHANGED pipelineVars
      PROVE  UNCHANGED Lifecycle!lifecycleVars
  <2>1. /\ UNCHANGED <<status, deadLetterQueue, req, apiWire, apiFaults, unroutable>>
        /\ UNCHANGED Kept
    BY <1>4 DEF pipelineVars, vars, ledgerVars, brokerVars, apiVars, apiBoundVars, Kept
  <2> QED
    BY <2>1 DEF Lifecycle!lifecycleVars, Phase
<1> QED
  BY <1>1, <1>2, <1>3, <1>4
  DEF PipelineNext, PipelineIdle, Lifecycle!LifecycleNext

(* However the processes start, stop, crash and lose their connections, an
   order goes through its life cycle only forwards, is executed for good, and
   is stranded only by a fault of the API or a missing queue. *)
THEOREM PipelineImplementsLifecycle == PipelineSpec => ImplementsLifecycle
BY LifecycleInitially, LifecycleStep, PipelineInvariant, PTL
DEF PipelineSpec, ImplementsLifecycle, Lifecycle!LifecycleSafety

-----------------------------------------------------------------------------
(* The API is the publisher that the consumers rely on. *)

(* An event is published once: it is not on its way before its request has
   come to it, nor after the broker has it. *)
EventOnce ==
  \A o \in Orders :
    /\ o \in apiWire => o \notin routed
    /\ req[o] \in {"none", "creating", "publishing"} => o \notin apiWire \cup routed

(* A message carries the event of its order as the API made it. *)
BodiesTrue == \A m \in Message : Exists(m) => m.body = EventBody(m.order)

(* A step of the API publishes an event at most once, *)
LEMMA EventOnceApiStep ==
  ASSUME ApiTypeOK, EventOnce, ApiStep
  PROVE  EventOnce'
<1> DEFINE Early == {"none", "creating", "publishing"}
<1>0. req \in [Orders -> Progress]
  BY DEF ApiTypeOK
<1>1. ASSUME NEW o \in Orders,
             \/ AcceptRequest(o) \/ StoreCreates(o) \/ StoreFails(o) \/ PublishFails(o)
      PROVE  EventOnce'
  <2>1. UNCHANGED <<apiWire, routed>> /\ req[o] \in Early /\ \E p : Becomes(o, p)
    BY <1>1 DEF AcceptRequest, StoreCreates, StoreFails, PublishFails, brokerVars
  <2> QED
    BY <1>0, <2>1 DEF EventOnce, Becomes
<1>2. ASSUME NEW o \in Orders, Publishes(o)
      PROVE  EventOnce'
  BY <1>0, <1>2 DEF Publishes, Becomes, Created, EventOnce, brokerVars
<1>3. ASSUME NEW o \in Orders, BrokerHandlesEvent(o)
      PROVE  EventOnce'
  <2>1. /\ o \in apiWire /\ apiWire' = apiWire \ {o} /\ req' = req
        /\ routed' \subseteq routed \cup {o}
    BY <1>3 DEF BrokerHandlesEvent, RouteEvent, brokerVars
  <2> QED
    BY <2>1 DEF EventOnce
<1>4. CASE ApiStarts \/ ApiSeesLoss \/ ApiSignal \/ ApiExits \/ ApiLosesConnection
  <2>1. UNCHANGED <<req, routed>> /\ apiWire' \subseteq apiWire
    BY <1>4 DEF ApiStarts, ApiSeesLoss, ApiSignal, ApiExits, ApiLosesConnection,
                brokerVars
  <2> QED
    BY <2>1 DEF EventOnce
<1>5. CASE ApiDies
  <2>1. req' = Cut /\ UNCHANGED routed /\ apiWire' \subseteq apiWire
    BY <1>5 DEF ApiDies, brokerVars
  <2>2. \A o \in Orders : req'[o] \in Early => req'[o] = req[o]
    BY <2>1 DEF Cut
  <2> QED
    BY <2>1, <2>2 DEF EventOnce
<1> QED
  BY <1>1, <1>2, <1>3, <1>4, <1>5 DEF ApiStep, HandlerStep

(* and a message that is new has the body of its order's event, or of the
   message it is a copy of. *)
LEMMA BodiesTrueStep ==
  ASSUME PipelineInv, BodiesTrue, [PipelineNext]_pipelineVars
  PROVE  BodiesTrue'
<1> SUFFICES ASSUME NEW m \in Message, Exists(m)'
             PROVE  m.body = EventBody(m.order)
  BY DEF BodiesTrue, EventBody
<1>0. TypeOK /\ Bookkeeping /\ LoopPlaces /\ ApiTypeOK
  BY DEF PipelineInv, Bookkeeping
<1>1. CASE Exists(m)
  BY <1>1 DEF BodiesTrue
<1>2. CASE UNCHANGED <<brokerVars, consumerVars>>
  <2>1. Exists(m)
    BY <1>2 DEF brokerVars, consumerVars, processVars, Kept, Exists, InHand
  <2> QED
    BY <1>1, <2>1
<1>3. CASE ConsumerStep
  <2>1. ASSUME NEW c \in Consumers, PublishRetry(c),
               m.order = current[c].order, m.body = current[c].body
        PROVE  m.body = EventBody(m.order)
    <3>1. PICK n \in Message : n = current[c] /\ n \in InHand(c)
      BY <1>0, <2>1 DEF PublishRetry, TypeOK, LoopPlaces, Busy, InHand
    <3> QED
      BY <2>1, <3>1 DEF BodiesTrue, Exists
  <2> QED
    BY <1>0, <1>1, <1>3, <2>1, MessageSource
<1>4. ASSUME NEW o \in Orders, EventBody(o) \in Bodies, RouteEvent(o, EventBody(o)),
             UNCHANGED consumerVars
      PROVE  m.body = EventBody(m.order)
  <2>1. PICK n \in Message :
          /\ n.order = o /\ n.body = EventBody(o)
          /\ orderQueue' = orderQueue \cup {n}
          /\ UNCHANGED <<retryQueue, deadLetterQueue, unacked, wire>>
    BY <1>4, RouteEffect
  <2>2. Exists(m) \/ m = n
    BY <1>4, <2>1 DEF Exists, Kept, InHand, consumerVars, processVars
  <2> QED
    BY <1>1, <2>1, <2>2
<1> QED
  BY <1>0, <1>2, <1>3, <1>4, ApiBroker
  DEF PipelineNext, PipelineIdle, pipelineVars, vars

PublisherInv == PipelineInv /\ EventOnce /\ BodiesTrue

(* Both go with the invariant of the pipeline. *)
LEMMA PublisherInvariant == PipelineSpec => []PublisherInv
<1>1. PipelineInit => PublisherInv
  <2> SUFFICES ASSUME PipelineInit
               PROVE  PublisherInv
    OBVIOUS
  <2>1. EventOnce
    BY DEF PipelineInit, ApiStateInit, BrokerInit, EventOnce
  <2>2. \A m : ~Exists(m)
    BY DEF PipelineInit, BrokerInit, ConsumerStateInit, Exists, Kept, InHand
  <2> QED
    BY <2>1, <2>2, PipelineInvInit DEF PublisherInv, BodiesTrue
<1>2. PublisherInv /\ [PipelineNext]_pipelineVars => PublisherInv'
  <2> SUFFICES ASSUME PublisherInv, [PipelineNext]_pipelineVars
               PROVE  PublisherInv'
    OBVIOUS
  <2> USE DEF PublisherInv
  <2>1. PipelineInv' /\ BodiesTrue'
    BY PipelineInvStep, BodiesTrueStep
  <2>2. EventOnce'
    <3>1. CASE ApiStep
      BY <3>1, EventOnceApiStep DEF PipelineInv
    <3>2. CASE UNCHANGED <<req, apiWire, routed>>
      BY <3>2 DEF EventOnce
    <3> QED
      BY <3>1, <3>2, RoutedKept
      DEF PipelineNext, PipelineIdle, pipelineVars, vars, apiVars, brokerVars
  <2> QED
    BY <2>1, <2>2
<1> QED
  BY <1>1, <1>2, PTL DEF PipelineSpec

-----------------------------------------------------------------------------
(* The pipeline implements ExecutionConsumer, on rows that are all there. *)

(* What the substituted specification says of the broker and of the loop is
   what ExecutionConsumer says: the rows do not occur in it. *)
LEMMA RowsAheadKept == UNCHANGED status => UNCHANGED RowsAhead
BY DEF RowsAhead

(* An order that has its row is claimed in both. *)
LEMMA RowsAheadClaim ==
  ASSUME status \in [Orders -> OrderStatus],
         NEW o \in Orders, status[o] # "ABSENT", ClaimOrder(o)
  PROVE  Consumption!ClaimOrder(o)
<1>1. RowsAhead[o] = "PENDING" /\ RowsAhead' = [RowsAhead EXCEPT ![o] = "EXECUTED"]
  BY DEF RowsAhead, ClaimOrder
<1> QED
  BY <1>1 DEF ClaimOrder, Consumption!ClaimOrder

(* The steps of the loop, the connection and the process, *)
LEMMA ConsumptionLoop ==
  ASSUME UNCHANGED status, NEW c \in Consumers
  PROVE  /\ Start(c) => Consumption!Start(c)
         /\ Receive(c) => Consumption!Receive(c)
         /\ SeeShutdown(c) => Consumption!SeeShutdown(c)
         /\ SeeClosed(c) => Consumption!SeeClosed(c)
         /\ Exit(c) => Consumption!Exit(c)
         /\ Signal(c) => Consumption!Signal(c)
         /\ Crash(c) => Consumption!Crash(c)
         /\ LoseConnection(c) => Consumption!LoseConnection(c)
         /\ \A m : Deliver(c, m) => Consumption!Deliver(c, m)
<1>0. UNCHANGED RowsAhead
  BY RowsAheadKept
<1> USE DEF ledgerVars, brokerVars, boundVars, incidentVars, Goto, NextDelivery,
            Consumption!ledgerVars, Consumption!brokerVars, Consumption!boundVars,
            Consumption!incidentVars,
            Consumption!Goto, Consumption!NextDelivery
<1>1. Start(c) => Consumption!Start(c)
  BY <1>0 DEF Start, OpenSession, Consumption!Start, Consumption!OpenSession
<1>2. Receive(c) => Consumption!Receive(c)
  BY <1>0 DEF Receive, Consumption!Receive
<1>3. /\ SeeShutdown(c) => Consumption!SeeShutdown(c)
      /\ SeeClosed(c) => Consumption!SeeClosed(c)
  BY <1>0 DEF SeeShutdown, SeeClosed, Consumption!SeeShutdown, Consumption!SeeClosed
<1>4. Exit(c) => Consumption!Exit(c)
  BY <1>0 DEF Exit, Consumption!Exit
<1>5. Signal(c) => Consumption!Signal(c)
  BY <1>0 DEF Signal, Consumption!Signal
<1>6. Crash(c) => Consumption!Crash(c)
  BY <1>0 DEF Crash, Consumption!Crash, RowsAhead
<1>7. LoseConnection(c) => Consumption!LoseConnection(c)
  BY <1>0 DEF LoseConnection, Consumption!LoseConnection
<1>8. \A m : Deliver(c, m) => Consumption!Deliver(c, m)
  BY <1>0 DEF Deliver, Push, Consumption!Deliver, Consumption!Push
<1> QED
  BY <1>1, <1>2, <1>3, <1>4, <1>5, <1>6, <1>7, <1>8

(* the settlements and the copy, *)
LEMMA ConsumptionSettles ==
  ASSUME UNCHANGED status, NEW c \in Consumers
  PROVE  /\ AckSuccess(c) => Consumption!AckSuccess(c)
         /\ AckAfterCopy(c) => Consumption!AckAfterCopy(c)
         /\ DeadLetter(c) => Consumption!DeadLetter(c)
         /\ PublishRetryFails(c) => Consumption!PublishRetryFails(c)
         /\ PublishRetry(c) => Consumption!PublishRetry(c)
<1>0. UNCHANGED RowsAhead
  BY RowsAheadKept
<1> USE DEF ledgerVars, boundVars, incidentVars, Goto, NextDelivery, Send, Enqueue,
            QueuesUnchanged, RetryAttempt, OutOfRetries,
            Consumption!ledgerVars, Consumption!boundVars, Consumption!incidentVars,
            Consumption!Goto,
            Consumption!NextDelivery, Consumption!Send, Consumption!Enqueue,
            Consumption!QueuesUnchanged, Consumption!RetryAttempt,
            Consumption!OutOfRetries
<1>1. /\ AckSuccess(c) => Consumption!AckSuccess(c)
      /\ AckAfterCopy(c) => Consumption!AckAfterCopy(c)
  BY <1>0 DEF AckSuccess, AckAfterCopy, Consumption!AckSuccess, Consumption!AckAfterCopy
<1>2. DeadLetter(c) => Consumption!DeadLetter(c)
  BY <1>0 DEF DeadLetter, RejectWithoutRequeue, Consumption!DeadLetter,
              Consumption!RejectWithoutRequeue
<1>3. PublishRetryFails(c) => Consumption!PublishRetryFails(c)
  BY <1>0 DEF PublishRetryFails, SettleUncopied, Consumption!PublishRetryFails,
              Consumption!SettleUncopied
<1>4. PublishRetry(c) => Consumption!PublishRetry(c)
  <2>1. Consumption!Room <=> Room
    BY DEF Room, Unused, Kept, FramesOf, Consumption!Room, Consumption!Unused,
           Consumption!Kept, Consumption!FramesOf
  <2>2. Consumption!FreshId = FreshId
    BY DEF FreshId, Unused, Kept, FramesOf, Consumption!FreshId, Consumption!Unused,
           Consumption!Kept, Consumption!FramesOf
  <2> QED
    BY <1>0, <2>1, <2>2
    DEF PublishRetry, RetryCopy, NextAttempt, Consumption!PublishRetry,
        Consumption!RetryCopy, Consumption!NextAttempt
<1> QED
  BY <1>1, <1>2, <1>3, <1>4

(* the steps of the broker, *)
LEMMA ConsumptionBroker ==
  ASSUME UNCHANGED status
  PROVE  /\ \A m : BrokerExpiresRetry(m) => Consumption!BrokerExpiresRetry(m)
         /\ \A c \in Consumers :
              /\ BrokerEndsSession(c) => Consumption!BrokerEndsSession(c)
              /\ BrokerHandlesFrame(c) => Consumption!BrokerHandlesFrame(c)
<1>0. UNCHANGED RowsAhead
  BY RowsAheadKept
<1> USE DEF ledgerVars, consumerVars, processVars, boundVars, incidentVars,
            Consumption!ledgerVars, Consumption!consumerVars,
            Consumption!processVars, Consumption!boundVars, Consumption!incidentVars
<1>1. \A m : BrokerExpiresRetry(m) => Consumption!BrokerExpiresRetry(m)
  BY <1>0 DEF BrokerExpiresRetry, RetryExpires, Consumption!BrokerExpiresRetry,
              Consumption!RetryExpires
<1>2. \A c \in Consumers : BrokerEndsSession(c) => Consumption!BrokerEndsSession(c)
  BY <1>0 DEF BrokerEndsSession, EndSession, Consumption!BrokerEndsSession,
              Consumption!EndSession
<1>3. \A c \in Consumers : BrokerHandlesFrame(c) => Consumption!BrokerHandlesFrame(c)
  BY <1>0 DEF BrokerHandlesFrame, HandleFrame, Consumption!BrokerHandlesFrame,
              Consumption!HandleFrame
<1> QED
  BY <1>1, <1>2, <1>3

(* and the handler, which finds a row for each order it looks for. *)
LEMMA ConsumptionHandler ==
  ASSUME PipelineInv, NEW c \in Consumers,
         \/ StartHandling(c) \/ LookupPrice(c)
         \/ Claims(c) \/ ClaimsUnheard(c) \/ ClaimsNothing(c)
  PROVE  \/ Consumption!StartHandling(c) \/ Consumption!LookupPrice(c)
         \/ Consumption!Claims(c) \/ Consumption!ClaimsUnheard(c)
         \/ Consumption!ClaimsNothing(c)
<1>0. /\ status \in [Orders -> OrderStatus]
      /\ pc[c] \in Handling => /\ current[c].order \in Orders
                               /\ status[current[c].order] # "ABSENT"
  <2>1. TypeOK /\ LoopPlaces /\ status \in [Orders -> OrderStatus]
    BY DEF PipelineInv, Bookkeeping, TypeOK, LedgerTypeOK
  <2>2. ASSUME pc[c] \in Handling
        PROVE  current[c].order \in Orders /\ status[current[c].order] # "ABSENT"
    <3>1. PICK m \in Message : m = current[c] /\ m.order \in Orders
      BY <2>1, <2>2, BusyHasMessage DEF Busy
    <3>2. m \in InHand(c)
      BY <2>1, <2>2, <3>1 DEF InHand, LoopPlaces, Busy
    <3> QED
      BY <3>1, <3>2 DEF PipelineInv, RowFirst, Exists
  <2> QED
    BY <2>1, <2>2
<1> USE DEF ledgerVars, brokerVars, boundVars, incidentVars, Goto, Fails, ClassifyFailure,
            Consumption!ledgerVars, Consumption!brokerVars, Consumption!boundVars,
            Consumption!incidentVars,
            Consumption!Goto, Consumption!Fails, Consumption!ClassifyFailure
<1>1. StartHandling(c) => Consumption!StartHandling(c)
  BY RowsAheadKept DEF StartHandling, Consumption!StartHandling
<1>2. LookupPrice(c) => Consumption!LookupPrice(c)
  BY RowsAheadKept DEF LookupPrice, QuoteCodes, Consumption!LookupPrice,
                       Consumption!QuoteCodes
<1>3. Claims(c) => Consumption!Claims(c)
  BY <1>0, RowsAheadClaim
  DEF Claims, Locked, Handling, Consumption!Claims, Consumption!Locked
<1>4. ClaimsUnheard(c) => Consumption!ClaimsUnheard(c)
  BY <1>0, RowsAheadKept
  DEF ClaimsUnheard, Locked, Handling, RowsAhead, Consumption!ClaimsUnheard,
      Consumption!Locked
<1>5. ASSUME ClaimsNothing(c)
      PROVE  Consumption!ClaimsNothing(c)
  <2>1. RowsAhead[current[c].order] = status[current[c].order]
    BY <1>0, <1>5 DEF ClaimsNothing, Handling, RowsAhead
  <2> QED
    BY <1>0, <1>5, <2>1, RowsAheadKept
    DEF ClaimsNothing, Handling, Consumption!ClaimsNothing
<1> QED
  BY <1>1, <1>2, <1>3, <1>4, <1>5

(* So is every step of the consumers and the broker, *)
LEMMA ConsumptionConsumerStep ==
  ASSUME PipelineInv, ConsumerStep
  PROVE  Consumption!ConsumerStep
<1>1. ASSUME NEW c \in Consumers,
             \/ StartHandling(c) \/ LookupPrice(c)
             \/ Claims(c) \/ ClaimsUnheard(c) \/ ClaimsNothing(c)
      PROVE  Consumption!ConsumerStep
  BY <1>1, ConsumptionHandler DEF Consumption!ConsumerStep, Consumption!ProcessStep
<1>2. ASSUME NEW c \in Consumers,
             \/ Start(c) \/ (\E m \in orderQueue : Deliver(c, m)) \/ Receive(c)
             \/ SeeShutdown(c) \/ SeeClosed(c) \/ Exit(c) \/ Signal(c)
             \/ Crash(c) \/ LoseConnection(c)
      PROVE  Consumption!ConsumerStep
  <2>1. UNCHANGED status
    BY <1>2 DEF Start, Deliver, Receive, SeeShutdown, SeeClosed, Exit, Signal,
                Crash, LoseConnection, ledgerVars
  <2> QED
    BY <1>2, <2>1, ConsumptionLoop DEF Consumption!ConsumerStep, Consumption!ProcessStep
<1>3. ASSUME NEW c \in Consumers,
             \/ AckSuccess(c) \/ AckAfterCopy(c) \/ DeadLetter(c)
             \/ PublishRetry(c) \/ PublishRetryFails(c)
      PROVE  Consumption!ConsumerStep
  <2>1. UNCHANGED status
    BY <1>3 DEF AckSuccess, AckAfterCopy, DeadLetter, PublishRetry,
                PublishRetryFails, ledgerVars
  <2> QED
    BY <1>3, <2>1, ConsumptionSettles
    DEF Consumption!ConsumerStep, Consumption!ProcessStep
<1>4. ASSUME NEW c \in Consumers, BrokerEndsSession(c) \/ BrokerHandlesFrame(c)
      PROVE  Consumption!ConsumerStep
  <2>1. UNCHANGED status
    BY <1>4 DEF BrokerEndsSession, BrokerHandlesFrame, ledgerVars
  <2> QED
    BY <1>4, <2>1, ConsumptionBroker DEF Consumption!ConsumerStep
<1>5. ASSUME NEW m \in retryQueue, BrokerExpiresRetry(m)
      PROVE  Consumption!ConsumerStep
  <2>1. UNCHANGED status
    BY <1>5 DEF BrokerExpiresRetry, ledgerVars
  <2> QED
    BY <1>5, <2>1, ConsumptionBroker DEF Consumption!ConsumerStep
<1>6. ASSUME NEW o \in Orders, LateOutcome(o)
      PROVE  Consumption!LateOutcome(o)
  <2>1. status \in [Orders -> OrderStatus]
    BY DEF PipelineInv, Bookkeeping, TypeOK, LedgerTypeOK
  <2>2. CASE ClaimOrder(o)
    <3>1. Consumption!ClaimOrder(o)
      BY <2>1, <2>2, RowsAheadClaim DEF ClaimOrder
    <3> QED
      BY <1>6, <3>1
      DEF LateOutcome, brokerVars, processVars, boundVars, Consumption!LateOutcome,
          Consumption!brokerVars, Consumption!processVars, Consumption!boundVars
  <2>3. CASE UNCHANGED ledgerVars
    <3>1. UNCHANGED Consumption!ledgerVars
      BY <2>3, RowsAheadKept DEF ledgerVars, Consumption!ledgerVars
    <3> QED
      BY <1>6, <3>1
      DEF LateOutcome, brokerVars, processVars, boundVars, Consumption!LateOutcome,
          Consumption!brokerVars, Consumption!processVars, Consumption!boundVars
  <2> QED
    BY <1>6, <2>2, <2>3 DEF LateOutcome
<1> QED
  BY <1>1, <1>2, <1>3, <1>4, <1>5, <1>6
  DEF ConsumerStep, ProcessStep, Consumption!ConsumerStep

(* and a step of the API announces an order, or is none. *)
LEMMA ConsumptionApiStep ==
  ASSUME PublisherInv, ApiStep, UNCHANGED consumerVars
  PROVE  \/ \E o \in Orders : Consumption!Announce(o)
         \/ UNCHANGED Consumption!vars
<1>1. UNCHANGED executions
  BY DEF ApiStep, HandlerStep, ApiStarts, ApiLosesConnection, ApiSeesLoss,
         ApiSignal, ApiExits, ApiDies, AcceptRequest, StoreCreates, StoreFails,
         Publishes, PublishFails, BrokerHandlesEvent, InsertOrder, ledgerVars
<1>2. UNCHANGED RowsAhead
  <2>1. \A o \in Orders : \/ status'[o] = status[o]
                          \/ status[o] = "ABSENT" /\ status'[o] = "PENDING"
    BY ApiLedger DEF PublisherInv, PipelineInv
  <2> QED
    BY <2>1 DEF RowsAhead
<1>3. UNCHANGED <<Consumption!ledgerVars, Consumption!consumerVars>>
  BY <1>1, <1>2 DEF consumerVars, processVars, boundVars, incidentVars,
                    Consumption!ledgerVars,
                    Consumption!consumerVars, Consumption!processVars,
                    Consumption!boundVars, Consumption!incidentVars
<1>4. CASE UNCHANGED brokerVars
  BY <1>3, <1>4 DEF brokerVars, Consumption!vars, Consumption!brokerVars
<1>5. ASSUME NEW o \in Orders, BrokerHandlesEvent(o), EventBody(o) \in Bodies,
             RouteEvent(o, EventBody(o))
      PROVE  Consumption!Announce(o)
  <2>1. o \notin routed
    BY <1>5 DEF BrokerHandlesEvent, PublisherInv, EventOnce
  <2>2. Consumption!Room <=> Room
    BY DEF Room, Unused, Kept, FramesOf, Consumption!Room, Consumption!Unused,
           Consumption!Kept, Consumption!FramesOf
  <2>3. Consumption!FreshId = FreshId
    BY DEF FreshId, Unused, Kept, FramesOf, Consumption!FreshId, Consumption!Unused,
           Consumption!Kept, Consumption!FramesOf
  <2>4. Consumption!RouteEvent(o, EventBody(o))
    BY <1>5, <2>2, <2>3 DEF RouteEvent, Consumption!RouteEvent
  <2> QED
    BY <1>3, <1>5, <2>1, <2>4 DEF Consumption!Announce
<1> QED
  BY <1>4, <1>5, ApiBroker DEF PublisherInv, PipelineInv

(* At the start no row is missing, for the consumers. *)
LEMMA ConsumptionInit == PipelineInit => Consumption!Init
<1> SUFFICES ASSUME PipelineInit
             PROVE  Consumption!Init
  OBVIOUS
<1>1. RowsAhead = [o \in Orders |-> IF o \in {} THEN "ABSENT" ELSE "PENDING"]
  BY DEF PipelineInit, LedgerInit, RowsAhead
<1>2. /\ Consumption!BrokerInit /\ Consumption!ConsumerStateInit
      /\ executions = [o \in Orders |-> 0]
  BY DEF PipelineInit, LedgerInit, BrokerInit, ConsumerStateInit,
         Consumption!BrokerInit, Consumption!ConsumerStateInit
<1>3. \E missing \in SUBSET {} :
        RowsAhead = [o \in Orders |-> IF o \in missing THEN "ABSENT" ELSE "PENDING"]
  <2>1. {} \in SUBSET {}
    OBVIOUS
  <2> QED
    BY <1>1, <2>1
<1> QED
  BY <1>2, <1>3 DEF Consumption!Init

(* Every step is one of ExecutionConsumer, or none. *)
LEMMA ConsumptionStep ==
  PublisherInv /\ [PipelineNext]_pipelineVars => [Consumption!Next]_(Consumption!vars)
<1> SUFFICES ASSUME PublisherInv, [PipelineNext]_pipelineVars
             PROVE  [Consumption!Next]_(Consumption!vars)
  OBVIOUS
<1>1. CASE ApiStep /\ UNCHANGED consumerVars
  BY <1>1, ConsumptionApiStep DEF Consumption!Next
<1>2. CASE ConsumerStep
  BY <1>2, ConsumptionConsumerStep DEF PublisherInv, Consumption!Next
<1>3. CASE UNCHANGED vars
  <2>1. UNCHANGED RowsAhead
    BY <1>3, RowsAheadKept DEF vars, ledgerVars
  <2> QED
    BY <1>3, <2>1
    DEF vars, brokerVars, ledgerVars, consumerVars, processVars, boundVars,
        incidentVars,
        Consumption!vars, Consumption!brokerVars, Consumption!ledgerVars,
        Consumption!consumerVars, Consumption!processVars, Consumption!boundVars,
        Consumption!incidentVars
<1> QED
  BY <1>1, <1>2, <1>3 DEF PipelineNext, PipelineIdle, pipelineVars

(* The pipeline is an environment the consumers were specified for: each order
   is announced once at most, after its row. *)
THEOREM PipelineImplementsConsumption == PipelineSpec => ImplementsConsumption
BY ConsumptionInit, ConsumptionStep, PublisherInvariant, PTL
DEF PipelineSpec, ImplementsConsumption, Consumption!Spec

-----------------------------------------------------------------------------
(* What is proved of ExecutionConsumer holds of the pipeline. *)

Proved == INSTANCE ExecutionConsumerProofs WITH status <- RowsAhead, Ghosts <- {}

LEMMA ProvedAssumptions == Proved!BrokerAssumption /\ Proved!ConsumerAssumption
BY BrokerAssumption, ConsumerAssumption
DEF Proved!BrokerAssumption, Proved!ConsumerAssumption, Message, Attempt,
    Proved!Message, Proved!Attempt

LEMMA ProvedInit == Consumption!Init => Proved!Init
BY DEF Consumption!Init, Proved!Init, Consumption!BrokerInit, Proved!BrokerInit,
       Consumption!ConsumerStateInit, Proved!ConsumerStateInit

LEMMA ProvedVars == UNCHANGED Consumption!vars => UNCHANGED Proved!vars
BY DEF Consumption!vars, Consumption!brokerVars, Consumption!ledgerVars,
       Consumption!consumerVars, Consumption!processVars, Consumption!boundVars,
       Consumption!incidentVars,
       Proved!vars, Proved!brokerVars, Proved!ledgerVars, Proved!consumerVars,
       Proved!processVars, Proved!boundVars, Proved!incidentVars

(* Both instances have the same steps: of the loop and the process, *)
LEMMA ProvedLoop ==
  ASSUME NEW c
  PROVE  /\ Consumption!Receive(c) => Proved!Receive(c)
         /\ Consumption!SeeShutdown(c) => Proved!SeeShutdown(c)
         /\ Consumption!SeeClosed(c) => Proved!SeeClosed(c)
         /\ Consumption!Exit(c) => Proved!Exit(c)
         /\ Consumption!Signal(c) => Proved!Signal(c)
         /\ Consumption!Crash(c) => Proved!Crash(c)
         /\ Consumption!LoseConnection(c) => Proved!LoseConnection(c)
BY DEF Consumption!Receive, Proved!Receive, Consumption!SeeShutdown,
       Proved!SeeShutdown, Consumption!SeeClosed, Proved!SeeClosed,
       Consumption!Exit, Proved!Exit, Consumption!Signal, Proved!Signal,
       Consumption!Crash, Proved!Crash, Consumption!LoseConnection,
       Proved!LoseConnection, Consumption!Goto, Proved!Goto,
       Consumption!NextDelivery, Proved!NextDelivery, Consumption!brokerVars,
       Proved!brokerVars, Consumption!ledgerVars, Proved!ledgerVars,
       Consumption!boundVars, Consumption!incidentVars, Proved!boundVars,
       Proved!incidentVars

(* of the session, *)
LEMMA ProvedSession ==
  ASSUME NEW c
  PROVE  /\ Consumption!Start(c) => Proved!Start(c)
         /\ Consumption!BrokerEndsSession(c) => Proved!BrokerEndsSession(c)
         /\ Consumption!BrokerHandlesFrame(c) => Proved!BrokerHandlesFrame(c)
<1> USE DEF Consumption!Goto, Proved!Goto, Consumption!ledgerVars,
            Proved!ledgerVars, Consumption!consumerVars, Proved!consumerVars,
            Consumption!processVars, Proved!processVars, Consumption!boundVars,
            Consumption!incidentVars,
            Proved!boundVars, Proved!incidentVars
<1>1. Consumption!Start(c) => Proved!Start(c)
  BY DEF Consumption!Start, Proved!Start, Consumption!OpenSession,
         Proved!OpenSession
<1>2. Consumption!BrokerEndsSession(c) => Proved!BrokerEndsSession(c)
  BY DEF Consumption!BrokerEndsSession, Proved!BrokerEndsSession,
         Consumption!EndSession, Proved!EndSession
<1>3. Consumption!BrokerHandlesFrame(c) => Proved!BrokerHandlesFrame(c)
  BY DEF Consumption!BrokerHandlesFrame, Proved!BrokerHandlesFrame,
         Consumption!HandleFrame, Proved!HandleFrame
<1> QED
  BY <1>1, <1>2, <1>3

(* of the queues, *)
LEMMA ProvedQueues ==
  ASSUME NEW c, NEW m
  PROVE  /\ Consumption!Deliver(c, m) => Proved!Deliver(c, m)
         /\ Consumption!BrokerExpiresRetry(m) => Proved!BrokerExpiresRetry(m)
<1>1. Consumption!Deliver(c, m) => Proved!Deliver(c, m)
  BY DEF Consumption!Deliver, Proved!Deliver, Consumption!Push, Proved!Push,
         Consumption!ledgerVars, Proved!ledgerVars, Consumption!boundVars,
         Consumption!incidentVars,
         Proved!boundVars, Proved!incidentVars
<1>2. Consumption!BrokerExpiresRetry(m) => Proved!BrokerExpiresRetry(m)
  BY DEF Consumption!BrokerExpiresRetry, Proved!BrokerExpiresRetry,
         Consumption!RetryExpires, Proved!RetryExpires, Consumption!ledgerVars,
         Proved!ledgerVars, Consumption!consumerVars, Proved!consumerVars,
         Consumption!processVars, Proved!processVars, Consumption!boundVars,
         Consumption!incidentVars,
         Proved!boundVars, Proved!incidentVars
<1> QED
  BY <1>1, <1>2

(* of the handler, *)
LEMMA ProvedHandler ==
  ASSUME NEW c
  PROVE  /\ Consumption!StartHandling(c) => Proved!StartHandling(c)
         /\ Consumption!LookupPrice(c) => Proved!LookupPrice(c)
         /\ Consumption!Claims(c) => Proved!Claims(c)
         /\ Consumption!ClaimsUnheard(c) => Proved!ClaimsUnheard(c)
         /\ Consumption!ClaimsNothing(c) => Proved!ClaimsNothing(c)
<1> USE DEF Consumption!Fails, Proved!Fails, Consumption!ClassifyFailure,
            Proved!ClassifyFailure, Consumption!Goto, Proved!Goto,
            Consumption!brokerVars, Proved!brokerVars, Consumption!ledgerVars,
            Proved!ledgerVars, Consumption!boundVars, Consumption!incidentVars,
            Proved!boundVars, Proved!incidentVars
<1>1. /\ Consumption!StartHandling(c) => Proved!StartHandling(c)
      /\ Consumption!LookupPrice(c) => Proved!LookupPrice(c)
  BY DEF Consumption!StartHandling, Proved!StartHandling, Consumption!LookupPrice,
         Proved!LookupPrice, Consumption!QuoteCodes, Proved!QuoteCodes
<1>2. /\ Consumption!Claims(c) => Proved!Claims(c)
      /\ Consumption!ClaimsUnheard(c) => Proved!ClaimsUnheard(c)
      /\ Consumption!ClaimsNothing(c) => Proved!ClaimsNothing(c)
  BY DEF Consumption!Claims, Proved!Claims, Consumption!ClaimsUnheard,
         Proved!ClaimsUnheard, Consumption!ClaimsNothing, Proved!ClaimsNothing,
         Consumption!ClaimOrder, Proved!ClaimOrder, Consumption!Locked, Proved!Locked
<1> QED
  BY <1>1, <1>2

(* of the server that ends a transaction, *)
LEMMA ProvedLate ==
  ASSUME NEW o
  PROVE  Consumption!LateOutcome(o) => Proved!LateOutcome(o)
BY DEF Consumption!LateOutcome, Proved!LateOutcome, Consumption!ClaimOrder,
       Proved!ClaimOrder, Consumption!ledgerVars, Proved!ledgerVars,
       Consumption!brokerVars, Proved!brokerVars, Consumption!processVars,
       Proved!processVars, Consumption!boundVars, Proved!boundVars

(* with which the broker makes the same identities, *)
LEMMA ProvedFresh == (Consumption!Room <=> Proved!Room) /\ Consumption!FreshId = Proved!FreshId
BY DEF Consumption!Room, Proved!Room, Consumption!FreshId, Proved!FreshId,
       Consumption!Unused, Proved!Unused, Consumption!Kept, Proved!Kept,
       Consumption!FramesOf, Proved!FramesOf

(* of the settlements, *)
LEMMA ProvedSettles ==
  ASSUME NEW c
  PROVE  /\ Consumption!AckSuccess(c) => Proved!AckSuccess(c)
         /\ Consumption!AckAfterCopy(c) => Proved!AckAfterCopy(c)
         /\ Consumption!DeadLetter(c) => Proved!DeadLetter(c)
         /\ Consumption!PublishRetryFails(c) => Proved!PublishRetryFails(c)
         /\ Consumption!PublishRetry(c) => Proved!PublishRetry(c)
<1> USE DEF Consumption!Goto, Proved!Goto, Consumption!NextDelivery,
            Proved!NextDelivery, Consumption!Send, Proved!Send, Consumption!Enqueue,
            Proved!Enqueue, Consumption!QueuesUnchanged, Proved!QueuesUnchanged,
            Consumption!OutOfRetries, Proved!OutOfRetries, Consumption!RetryAttempt,
            Proved!RetryAttempt, Consumption!ledgerVars, Proved!ledgerVars,
            Consumption!boundVars, Consumption!incidentVars, Proved!boundVars,
            Proved!incidentVars
<1>1. /\ Consumption!AckSuccess(c) => Proved!AckSuccess(c)
      /\ Consumption!AckAfterCopy(c) => Proved!AckAfterCopy(c)
      /\ Consumption!DeadLetter(c) => Proved!DeadLetter(c)
  BY DEF Consumption!AckSuccess, Proved!AckSuccess, Consumption!AckAfterCopy,
         Proved!AckAfterCopy, Consumption!DeadLetter, Proved!DeadLetter,
         Consumption!RejectWithoutRequeue, Proved!RejectWithoutRequeue
<1>2. Consumption!PublishRetryFails(c) => Proved!PublishRetryFails(c)
  BY DEF Consumption!PublishRetryFails, Proved!PublishRetryFails,
         Consumption!SettleUncopied, Proved!SettleUncopied
<1>3. Consumption!PublishRetry(c) => Proved!PublishRetry(c)
  BY ProvedFresh
  DEF Consumption!PublishRetry, Proved!PublishRetry, Consumption!RetryCopy,
      Proved!RetryCopy, Consumption!NextAttempt, Proved!NextAttempt
<1> QED
  BY <1>1, <1>2, <1>3

(* and so all of them. *)
LEMMA ProvedNext == [Consumption!Next]_(Consumption!vars) => [Proved!Next]_(Proved!vars)
<1>1. ASSUME Consumption!ConsumerStep
      PROVE  Proved!ConsumerStep
  <2>1. ASSUME NEW c \in Consumers, Consumption!ProcessStep(c)
        PROVE  Proved!ProcessStep(c)
    BY <2>1, ProvedLoop, ProvedHandler, ProvedSettles
    DEF Consumption!ProcessStep, Proved!ProcessStep
  <2>2. ASSUME NEW m \in retryQueue, Consumption!BrokerExpiresRetry(m)
        PROVE  Proved!ConsumerStep
    <3>1. Proved!BrokerExpiresRetry(m)
      BY <2>2, ProvedQueues
    <3> QED
      BY <3>1 DEF Proved!ConsumerStep
  <2>3. ASSUME NEW c \in Consumers, NEW m \in orderQueue, Consumption!Deliver(c, m)
        PROVE  Proved!ConsumerStep
    <3>1. Proved!Deliver(c, m)
      BY <2>3, ProvedQueues
    <3> QED
      BY <3>1 DEF Proved!ConsumerStep
  <2>4. ASSUME NEW c \in Consumers,
               \/ Consumption!Start(c) \/ Consumption!ProcessStep(c)
               \/ Consumption!Signal(c) \/ Consumption!Crash(c)
               \/ Consumption!LoseConnection(c) \/ Consumption!BrokerEndsSession(c)
               \/ Consumption!BrokerHandlesFrame(c)
        PROVE  Proved!ConsumerStep
    BY <2>1, <2>4, ProvedLoop, ProvedSession DEF Proved!ConsumerStep
  <2>5. ASSUME NEW o \in Orders, Consumption!LateOutcome(o)
        PROVE  Proved!ConsumerStep
    BY <2>5, ProvedLate DEF Proved!ConsumerStep
  <2> QED
    BY <1>1, <2>2, <2>3, <2>4, <2>5 DEF Consumption!ConsumerStep
<1>2. ASSUME NEW o \in Orders, Consumption!Announce(o)
      PROVE  Proved!Announce(o)
  BY <1>2, ProvedFresh
  DEF Consumption!Announce, Proved!Announce, Consumption!RouteEvent,
      Proved!RouteEvent, Consumption!ledgerVars, Proved!ledgerVars,
      Consumption!consumerVars, Proved!consumerVars, Consumption!processVars,
      Proved!processVars, Consumption!boundVars, Consumption!incidentVars,
      Proved!boundVars, Proved!incidentVars
<1>3. Consumption!Waiting => Proved!Waiting
  BY DEF Consumption!Waiting, Proved!Waiting, Consumption!Kept, Proved!Kept
<1> QED
  BY <1>1, <1>2, <1>3, ProvedVars DEF Consumption!Next, Proved!Next

(* So the pipeline behaves as the theorems about the consumers assume. *)
LEMMA PipelineConsumes == PipelineSpec => Proved!Spec
BY PipelineImplementsConsumption, ProvedInit, ProvedNext, PTL
DEF ImplementsConsumption, Consumption!Spec, Proved!Spec

(* An order whose event was routed is not lost, whatever happens to the
   processes on either side. *)
THEOREM PipelineLosesNoOrder == PipelineSpec => []OrderNotLost
<1>1. ASSUME PipelineInv, Proved!OrderNotLost
      PROVE  OrderNotLost
  <2> SUFFICES ASSUME NEW o \in routed, status[o] # "EXECUTED"
               PROVE  \E m \in Kept : m.order = o
    BY DEF OrderNotLost
  <2>1. o \in Orders
    BY <1>1 DEF PipelineInv, Bookkeeping, TypeOK, BrokerTypeOK
  <2>2. RowsAhead[o] # "EXECUTED"
    BY <2>1 DEF RowsAhead
  <2> QED
    BY <1>1, <2>2 DEF Proved!OrderNotLost, Proved!Kept, Kept
<1> QED
  BY <1>1, PipelineConsumes, PipelineInvariant, ProvedAssumptions,
     Proved!RoutedOrderNotLost, PTL

(* No delivery is settled twice. *)
THEOREM PipelineSettlesOnce == PipelineSpec => []SettledOnce
<1>1. Proved!SettledOnce => SettledOnce
  BY DEF Proved!SettledOnce, SettledOnce
<1> QED
  BY <1>1, PipelineConsumes, ProvedAssumptions, Proved!DeliverySettledOnce, PTL

(* Without a fault of a consumer no order is handled twice at a time or again
   after its execution: also when the API fails, since it publishes once. *)
THEOREM PipelineHandlesOnce == PipelineSpec => []NoDuplicateWithoutFault
<1>1. ASSUME PipelineInv, Proved!NoDuplicateWithoutFault
      PROVE  NoDuplicateWithoutFault
  <2>1. ASSUME NEW c \in Consumers, pc[c] \in Handling, status[current[c].order] = "EXECUTED"
        PROVE  RowsAhead[current[c].order] = "EXECUTED"
    <3>1. current[c].order \in Orders
      BY <1>1, <2>1, BusyHasMessage DEF PipelineInv, Bookkeeping, Busy
    <3> QED
      BY <2>1, <3>1 DEF RowsAhead
  <2> QED
    BY <1>1, <2>1
    DEF NoDuplicateWithoutFault, Proved!NoDuplicateWithoutFault, Handling,
        Proved!Handling
<1> QED
  BY <1>1, PipelineConsumes, PipelineInvariant, ProvedAssumptions,
     Proved!DuplicatesNeedFault, PTL

(* Retries are bounded by the faults and signals of the consumers. *)
THEOREM PipelineRetriesBounded == PipelineSpec => []RetryBudget
<1>1. Proved!RetryBudget => RetryBudget
  BY DEF Proved!RetryBudget, RetryBudget
<1> QED
  BY <1>1, PipelineConsumes, ProvedAssumptions, Proved!RetriesBounded, PTL

(* Orders that are parked have a symbol without a price, or failed at every
   attempt. *)
THEOREM ParkedOrdersFailed == PipelineSpec => []ParkedForCause
<1>1. ASSUME PublisherInv, Proved!DeadLetterJustified
      PROVE  ParkedForCause
  <2> SUFFICES ASSUME NEW m \in deadLetterQueue, m.order \notin UnknownSymbols
               PROVE  failures[m.order] >= MaxDeliveryAttempts
    BY DEF ParkedForCause
  <2>1. m \in Message /\ m.order \in Orders /\ Exists(m)
    BY <1>1 DEF PublisherInv, PipelineInv, Bookkeeping, TypeOK, BrokerTypeOK,
                Message, Exists, Kept
  <2>2. m.body = "valid"
    BY <1>1, <2>1 DEF PublisherInv, BodiesTrue, EventBody
  <2>3. RowsAhead[m.order] # "ABSENT"
    BY <2>1 DEF RowsAhead
  <2>4. ~Proved!Hopeless(m)
    BY <2>2, <2>3 DEF Proved!Hopeless
  <2> QED
    BY <1>1, <2>4 DEF Proved!DeadLetterJustified
<1> QED
  BY <1>1, PipelineConsumes, PublisherInvariant, ProvedAssumptions,
     Proved!DeadLettersJustified, PTL

(* A signalled process takes no new work, and a step of the API that it does
   not see is none of its own. *)
THEOREM PipelineSignalStopsWork == PipelineSpec => NoNewWorkAfterSignal
<1> DEFINE Quiet == \A c \in Consumers :
                      ctxDone[c] /\ pc[c] \in {"select", "received", "closing"}
                        => pc'[c] \in {"select", "received", "closing", "down"}
<1>1. [Quiet]_(Proved!vars) => [Quiet]_vars
  <2>1. UNCHANGED Proved!vars => UNCHANGED pc
    BY DEF Proved!vars, Proved!consumerVars, Proved!processVars
  <2> QED
    BY <2>1
<1>2. Proved!NoNewWorkAfterSignal => [][Quiet]_(Proved!vars)
  BY DEF Proved!NoNewWorkAfterSignal
<1> QED
  BY <1>1, <1>2, PipelineConsumes, ProvedAssumptions, Proved!SignalStopsWork, PTL
  DEF NoNewWorkAfterSignal
=============================================================================
