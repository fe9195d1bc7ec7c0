---------------------------- MODULE OrderApiProofs ----------------------------
(***************************************************************************)
(* What the steps of OrderApi do, for any number of requests, faults and   *)
(* signals: lemmas for the specifications the API is a part of, which are  *)
(* OrderPublisher and OrderPipeline.                                       *)
(***************************************************************************)
EXTENDS OrderApi, SequenceTheorems, TLAPS

(* A process that is down has no request in flight, and without a fault one
   that is not has its connection. *)
Serving ==
  /\ api = "down" => InFlight = {}
  /\ apiFaults = 0 /\ api # "down" => apiLink

-----------------------------------------------------------------------------
(* The ledger, the broker and the types. *)

(* The API adds rows and changes none. *)
LEMMA ApiLedger ==
  ASSUME ApiTypeOK, ApiStep
  PROVE  /\ LedgerTypeOK'
         /\ \A o \in Orders :
              \/ status'[o] = status[o]
              \/ /\ status[o] = "ABSENT" /\ status'[o] = "PENDING"
                 /\ StoreCreates(o) \/ StoreFails(o)
<1>0. LedgerTypeOK /\ status \in [Orders -> OrderStatus]
  BY DEF ApiTypeOK, LedgerTypeOK
<1>1. ASSUME NEW o \in Orders, InsertOrder(o), StoreCreates(o) \/ StoreFails(o)
      PROVE  /\ LedgerTypeOK'
             /\ \A p \in Orders :
                  \/ status'[p] = status[p]
                  \/ p = o /\ status[p] = "ABSENT" /\ status'[p] = "PENDING"
  BY <1>0, <1>1 DEF InsertOrder, LedgerTypeOK, OrderStatus
<1>2. ASSUME UNCHANGED ledgerVars
      PROVE  LedgerTypeOK' /\ \A o \in Orders : status'[o] = status[o]
  BY <1>0, <1>2 DEF ledgerVars, LedgerTypeOK
<1>3. ASSUME NEW o \in Orders, StoreCreates(o) \/ StoreFails(o)
      PROVE  InsertOrder(o) \/ UNCHANGED ledgerVars
  BY <1>3 DEF StoreCreates, StoreFails
<1>4. ASSUME NEW o \in Orders,
             AcceptRequest(o) \/ Publishes(o) \/ PublishFails(o) \/ BrokerHandlesEvent(o)
      PROVE  UNCHANGED ledgerVars
  BY <1>4 DEF AcceptRequest, Publishes, PublishFails, BrokerHandlesEvent
<1>5. ASSUME \/ ApiStarts \/ ApiLosesConnection \/ ApiSeesLoss
             \/ ApiSignal \/ ApiExits \/ ApiDies
      PROVE  UNCHANGED ledgerVars
  BY <1>5 DEF ApiStarts, ApiLosesConnection, ApiSeesLoss, ApiSignal, ApiExits, ApiDies
<1> QED
  BY <1>1, <1>2, <1>3, <1>4, <1>5 DEF ApiStep, HandlerStep

(* It gives the broker events, each a message of its order's first attempt. *)
LEMMA ApiBroker ==
  ASSUME ApiTypeOK, ApiStep
  PROVE  \/ UNCHANGED brokerVars
         \/ \E o \in Orders :
              /\ BrokerHandlesEvent(o) /\ EventBody(o) \in Bodies
              /\ RouteEvent(o, EventBody(o))
              /\ UNCHANGED ledgerVars
BY EventAssumption
DEF ApiStep, HandlerStep, ApiStarts, ApiLosesConnection, ApiSeesLoss, ApiSignal,
    ApiExits, ApiDies, AcceptRequest, StoreCreates, StoreFails, Publishes,
    PublishFails, BrokerHandlesEvent

(* Types of the API. *)
LEMMA ApiTypeStep == ApiTypeOK /\ ApiStep /\ BrokerTypeOK' => ApiTypeOK'
<1> SUFFICES ASSUME ApiTypeOK, ApiStep, BrokerTypeOK'
             PROVE  ApiTypeOK'
  OBVIOUS
<1>0. LedgerTypeOK'
  BY ApiLedger
<1> USE ApiAssumption DEF ApiTypeOK, Progress
<1>1. ASSUME NEW o \in Orders,
             \/ AcceptRequest(o) \/ StoreCreates(o) \/ StoreFails(o)
             \/ Publishes(o) \/ PublishFails(o) \/ BrokerHandlesEvent(o)
      PROVE  ApiTypeOK'
  <2>1. CASE AcceptRequest(o)
    BY <1>0, <2>1 DEF AcceptRequest, Becomes, apiBoundVars
  <2>2. CASE StoreCreates(o)
    BY <1>0, <2>2 DEF StoreCreates, Becomes, apiBoundVars
  <2>3. CASE StoreFails(o)
    BY <1>0, <2>3 DEF StoreFails, Becomes, ApiFault
  <2>4. CASE Publishes(o)
    BY <1>0, <2>4 DEF Publishes, Becomes, Created, apiBoundVars
  <2>5. CASE PublishFails(o)
    BY <1>0, <2>5 DEF PublishFails, Becomes, Created, ApiFault
  <2>6. CASE BrokerHandlesEvent(o)
    BY <1>0, <2>6 DEF BrokerHandlesEvent, apiBoundVars
  <2> QED
    BY <1>1, <2>1, <2>2, <2>3, <2>4, <2>5, <2>6
<1>2. CASE ApiStarts
  BY <1>0, <1>2 DEF ApiStarts, apiBoundVars
<1>3. CASE ApiLosesConnection
  <2>1. apiFaults' \in 0 .. MaxApiFaults
    BY <1>3 DEF ApiLosesConnection, ApiFault
  <2>2. apiWire' \subseteq Orders
    BY <1>3 DEF ApiLosesConnection
  <2> QED
    BY <1>0, <1>3, <2>1, <2>2 DEF ApiLosesConnection
<1>4. CASE ApiSeesLoss
  BY <1>0, <1>4 DEF ApiSeesLoss, apiBoundVars
<1>5. CASE ApiSignal
  BY <1>0, <1>5 DEF ApiSignal
<1>6. CASE ApiExits
  BY <1>0, <1>6 DEF ApiExits, apiBoundVars
<1>7. CASE ApiDies
  <2>1. req' \in [Orders -> Progress]
    BY <1>7 DEF ApiDies, Cut
  <2>2. apiFaults' \in 0 .. MaxApiFaults
    BY <1>7 DEF ApiDies, ApiFault
  <2> QED
    BY <1>0, <1>7, <2>1, <2>2 DEF ApiDies
<1> QED
  BY <1>1, <1>2, <1>3, <1>4, <1>5, <1>6, <1>7 DEF ApiStep, HandlerStep

-----------------------------------------------------------------------------
(* Requests, their events and the faults. *)

(* Requests only end while the process is down. *)
LEMMA ServingStep ==
  ASSUME ApiTypeOK, Serving, ApiStep
  PROVE  Serving'
<1> USE DEF ApiTypeOK, Serving, InFlight
<1>1. ASSUME NEW o \in Orders,
             \/ AcceptRequest(o) \/ StoreCreates(o)
             \/ Publishes(o) \/ BrokerHandlesEvent(o)
      PROVE  Serving'
  BY <1>1 DEF AcceptRequest, StoreCreates, Publishes, Becomes, Created,
              BrokerHandlesEvent, apiBoundVars
<1>2. ASSUME NEW o \in Orders, StoreFails(o) \/ PublishFails(o)
      PROVE  Serving'
  <2>1. UNCHANGED <<api, apiLink>> /\ (apiFaults' = apiFaults \/ apiFaults' = apiFaults + 1)
    BY <1>2 DEF StoreFails, PublishFails, ApiFault
  <2>2. req[o] \in {"creating", "publishing"} /\ (Becomes(o, "500") \/ Becomes(o, "201"))
    BY <1>2 DEF StoreFails, PublishFails, Created
  <2>3. InFlight' \subseteq InFlight
    BY <2>2 DEF Becomes
  <2>4. apiFaults' = 0 => apiFaults = 0
    BY <2>1
  <2> QED
    BY <2>1, <2>3, <2>4
<1>3. CASE ApiStarts \/ ApiSeesLoss \/ ApiSignal \/ ApiExits
  BY <1>3 DEF ApiStarts, ApiSeesLoss, ApiSignal, ApiExits, apiBoundVars
<1>4. CASE ApiLosesConnection
  <2>1. apiFaults' # 0 /\ UNCHANGED <<api, req>>
    BY <1>4 DEF ApiLosesConnection, ApiFault
  <2> QED
    BY <2>1
<1>5. CASE ApiDies
  <2>1. req' = Cut /\ api' = "down"
    BY <1>5 DEF ApiDies
  <2>2. InFlight' = {}
    BY <2>1 DEF Cut
  <2> QED
    BY <2>1, <2>2
<1> QED
  BY <1>1, <1>2, <1>3, <1>4, <1>5 DEF ApiStep, HandlerStep

(* The request comes before its event, and its event before the messages. *)
LEMMA EventSource ==
  ASSUME ApiTypeOK, ApiStep, NEW o \in Orders, req'[o] = "publishing" \/ o \in apiWire'
  PROVE  req[o] = "publishing" \/ o \in apiWire \/ StoreCreates(o)
<1> USE DEF ApiTypeOK
<1>1. ASSUME NEW p \in Orders,
             AcceptRequest(p) \/ StoreFails(p) \/ PublishFails(p) \/ Publishes(p)
      PROVE  req[o] = "publishing" \/ o \in apiWire
  BY <1>1 DEF AcceptRequest, StoreFails, PublishFails, Publishes, Becomes, Created
<1>2. ASSUME NEW p \in Orders, StoreCreates(p)
      PROVE  req[o] = "publishing" \/ o \in apiWire \/ StoreCreates(o)
  BY <1>2 DEF StoreCreates, Becomes
<1>3. ASSUME NEW p \in Orders, BrokerHandlesEvent(p)
      PROVE  req[o] = "publishing" \/ o \in apiWire
  BY <1>3 DEF BrokerHandlesEvent
<1>4. CASE ApiStarts \/ ApiSeesLoss \/ ApiSignal \/ ApiExits \/ ApiLosesConnection
  BY <1>4 DEF ApiStarts, ApiSeesLoss, ApiSignal, ApiExits, ApiLosesConnection
<1>5. CASE ApiDies
  <2>1. req' = Cut /\ apiWire' \subseteq apiWire
    BY <1>5 DEF ApiDies
  <2> QED
    BY <2>1 DEF Cut
<1> QED
  BY <1>1, <1>2, <1>3, <1>4, <1>5 DEF ApiStep, HandlerStep

(* Faults stay counted and what was unroutable stays so. *)
LEMMA ExposureGrows ==
  ASSUME ApiTypeOK, ApiStep
  PROVE  /\ apiFaults' # 0 \/ apiFaults = 0
         /\ unroutable \subseteq unroutable'
<1>1. /\ apiFaults' = apiFaults \/ apiFaults' = apiFaults + 1
      /\ unroutable \subseteq unroutable'
  BY DEF ApiStep, HandlerStep, ApiStarts, ApiLosesConnection, ApiSeesLoss,
         ApiSignal, ApiExits, ApiDies, AcceptRequest, StoreCreates, StoreFails,
         Publishes, PublishFails, BrokerHandlesEvent, ApiFault, apiBoundVars
<1> QED
  BY <1>1 DEF ApiTypeOK

(* An event that is on its way or about to be published stays so until the
   broker has it, or it is lost by a fault or for want of a queue. *)
LEMMA EventKept ==
  ASSUME ApiTypeOK, Serving, ApiStep, NEW o \in Orders,
         req[o] = "publishing" \/ o \in apiWire
  PROVE  \/ req'[o] = "publishing" \/ o \in apiWire'
         \/ apiFaults' # 0 \/ o \in unroutable'
         \/ RouteEvent(o, EventBody(o))
<1>1. CASE req[o] = "publishing"
  <2>1. api # "down"
    BY <1>1 DEF Serving, InFlight
  <2>2. ASSUME NEW p \in Orders, AcceptRequest(p) \/ StoreCreates(p) \/ Publishes(p)
        PROVE  req'[o] = "publishing" \/ o \in apiWire'
    BY <1>1, <2>2 DEF AcceptRequest, StoreCreates, Publishes, Becomes, ApiTypeOK, Progress
  <2>3. ASSUME NEW p \in Orders, StoreFails(p) \/ BrokerHandlesEvent(p)
        PROVE  req'[o] = "publishing"
    BY <1>1, <2>3 DEF StoreFails, BrokerHandlesEvent, Becomes, ApiTypeOK
  <2>4. ASSUME NEW p \in Orders, PublishFails(p)
        PROVE  req'[o] = "publishing" \/ apiFaults' # 0
    <3>1. CASE p = o
      <4>1. CASE apiFaults = 0
        BY <2>1, <2>4, <4>1 DEF PublishFails, ApiFault, Serving
      <4>2. CASE apiFaults # 0
        BY <2>4, <4>2 DEF PublishFails, ApiFault, ApiTypeOK
      <4> QED
        BY <4>1, <4>2
    <3>2. CASE p # o
      BY <1>1, <2>4, <3>2 DEF PublishFails, Becomes, ApiTypeOK
    <3> QED
      BY <3>1, <3>2
  <2>5. ASSUME ApiStarts \/ ApiSeesLoss \/ ApiSignal \/ ApiExits \/ ApiLosesConnection
        PROVE  req'[o] = "publishing"
    BY <1>1, <2>5 DEF ApiStarts, ApiSeesLoss, ApiSignal, ApiExits, ApiLosesConnection
  <2>6. CASE ApiDies
    BY <2>6 DEF ApiDies, ApiFault, ApiTypeOK
  <2> QED
    BY <2>2, <2>3, <2>4, <2>5, <2>6 DEF ApiStep, HandlerStep
<1>2. CASE o \in apiWire
  <2>1. ASSUME NEW p \in Orders, BrokerHandlesEvent(p)
        PROVE  o \in apiWire' \/ o \in unroutable' \/ RouteEvent(o, EventBody(o))
    <3>1. CASE p # o
      BY <1>2, <2>1, <3>1 DEF BrokerHandlesEvent
    <3>2. CASE RouteEvent(o, EventBody(o))
      BY <3>2
    <3>3. CASE unroutable' = unroutable \cup {o}
      BY <3>3
    <3> QED
      BY <2>1, <3>1, <3>2, <3>3 DEF BrokerHandlesEvent
  <2>2. ASSUME NEW p \in Orders,
               \/ AcceptRequest(p) \/ StoreCreates(p) \/ StoreFails(p)
               \/ Publishes(p) \/ PublishFails(p)
        PROVE  o \in apiWire'
    BY <1>2, <2>2 DEF AcceptRequest, StoreCreates, StoreFails, Publishes, PublishFails
  <2>3. ASSUME ApiStarts \/ ApiSeesLoss \/ ApiSignal \/ ApiExits
        PROVE  o \in apiWire'
    BY <1>2, <2>3 DEF ApiStarts, ApiSeesLoss, ApiSignal, ApiExits
  <2>4. CASE ApiLosesConnection \/ ApiDies
    BY <2>4 DEF ApiLosesConnection, ApiDies, ApiFault, ApiTypeOK
  <2> QED
    BY <2>1, <2>2, <2>3, <2>4 DEF ApiStep, HandlerStep
<1> QED
  BY <1>1, <1>2

(* A request is cut only by a fault. *)
LEMMA CutByFault ==
  ASSUME ApiTypeOK, ApiStep, NEW o \in Orders, req'[o] = "cut"
  PROVE  req[o] = "cut" \/ apiFaults' # 0
<1>1. ASSUME NEW p \in Orders,
             \/ AcceptRequest(p) \/ StoreCreates(p) \/ StoreFails(p)
             \/ Publishes(p) \/ PublishFails(p) \/ BrokerHandlesEvent(p)
      PROVE  req[o] = "cut"
  BY <1>1 DEF AcceptRequest, StoreCreates, StoreFails, Publishes, PublishFails,
              Becomes, Created, BrokerHandlesEvent, ApiTypeOK
<1>2. ASSUME ApiStarts \/ ApiSeesLoss \/ ApiSignal \/ ApiExits \/ ApiLosesConnection
      PROVE  req[o] = "cut"
  BY <1>2 DEF ApiStarts, ApiSeesLoss, ApiSignal, ApiExits, ApiLosesConnection
<1>3. CASE ApiDies
  BY <1>3 DEF ApiDies, ApiFault, ApiTypeOK
<1> QED
  BY <1>1, <1>2, <1>3 DEF ApiStep, HandlerStep

(* Routing an event keeps the broker in order, *)
LEMMA RouteTyped ==
  ASSUME BrokerTypeOK, NEW o \in Orders, NEW body \in Bodies, RouteEvent(o, body)
  PROVE  BrokerTypeOK'
<1> DEFINE m == [id |-> FreshId, order |-> o, body |-> body, attempt |-> 0]
<1>1. FreshId \in MessageIds
  BY DEF RouteEvent, Room, FreshId
<1>2. 0 \in Attempt
  BY BrokerAssumption DEF Attempt
<1>3. m \in Message
  BY <1>1, <1>2 DEF Message
<1> QED
  BY <1>3 DEF RouteEvent, BrokerTypeOK

(* and so do all steps of the API. *)
LEMMA ApiTyped ==
  ASSUME ApiTypeOK, ApiStep
  PROVE  ApiTypeOK'
<1>1. BrokerTypeOK'
  <2>1. CASE UNCHANGED brokerVars
    BY <2>1 DEF ApiTypeOK, BrokerTypeOK, brokerVars
  <2> QED
    BY <2>1, ApiBroker, RouteTyped DEF ApiTypeOK
<1> QED
  BY <1>1, ApiTypeStep

(* At the start, of the broker and the API. *)
LEMMA BrokerTypeInit == BrokerInit => BrokerTypeOK
<1>1. <<>> \in Seq(Frame)
  BY EmptySeq
<1> QED
  BY <1>1 DEF BrokerInit, BrokerTypeOK

(* Before the API has started its types are right and it has no request. *)
LEMMA ApiInitially ==
  ASSUME LedgerInit, BrokerInit, ApiStateInit
  PROVE  ApiTypeOK /\ Serving
<1>1. LedgerTypeOK
  BY DEF LedgerInit, LedgerTypeOK, OrderStatus
<1>2. req \in [Orders -> Progress] /\ InFlight = {}
  BY DEF ApiStateInit, Progress, InFlight
<1>3. apiFaults \in 0 .. MaxApiFaults /\ apiStops \in 0 .. MaxApiStops
  BY ApiAssumption DEF ApiStateInit
<1> QED
  BY <1>1, <1>2, <1>3, BrokerTypeInit DEF ApiStateInit, ApiTypeOK, Serving

(* An answer is given once. *)
LEMMA AnsweredStays ==
  ASSUME ApiTypeOK, ApiStep, NEW o \in Orders,
         req[o] \notin {"none", "creating", "publishing"}
  PROVE  req'[o] = req[o]
<1>1. ASSUME NEW p \in Orders,
             \/ AcceptRequest(p) \/ StoreCreates(p) \/ StoreFails(p)
             \/ Publishes(p) \/ PublishFails(p) \/ BrokerHandlesEvent(p)
      PROVE  req'[o] = req[o]
  BY <1>1 DEF AcceptRequest, StoreCreates, StoreFails, Publishes, PublishFails,
              Becomes, BrokerHandlesEvent, ApiTypeOK
<1>2. ASSUME ApiStarts \/ ApiSeesLoss \/ ApiSignal \/ ApiExits \/ ApiLosesConnection
      PROVE  req'[o] = req[o]
  BY <1>2 DEF ApiStarts, ApiSeesLoss, ApiSignal, ApiExits, ApiLosesConnection
<1>3. CASE ApiDies
  BY <1>3 DEF ApiDies, Cut, InFlight
<1> QED
  BY <1>1, <1>2, <1>3 DEF ApiStep, HandlerStep
=============================================================================
