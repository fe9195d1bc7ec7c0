------------------------- MODULE OrderPublisherProofs -------------------------
(***************************************************************************)
(* Theorems about OrderPublisher, for any number of concurrent requests,   *)
(* channels, faults and signals: what keeps a row and its event together,  *)
(* and that PublishOrderCreated and the goroutines it leaves behind do     *)
(* what OrderApi says of a publish.                                        *)
(***************************************************************************)
EXTENDS OrderPublisher, OrderApiProofs, FiniteSetTheorems

-----------------------------------------------------------------------------
(* A request that was refused a channel has been answered: it is refused
   once. *)
RefusedOnce ==
  \A o \in overdrawn : req[o] \notin {"none", "creating", "publishing"}

PublisherInv ==
  /\ PublisherTypeOK /\ Serving
  /\ RefusedOnce
  /\ StrandedOnlyByFaultOrBurst

(* A step of the publisher is a step of the API, or refuses a channel, or is
   its own. *)
LEMMA PublisherSteps ==
  ASSUME PublisherNext
  PROVE  \/ ApiStep /\ UNCHANGED overdrawn
         \/ QueueBound /\ UNCHANGED overdrawn
         \/ \E o \in Orders : ChannelRefused(o)
         \/ UNCHANGED <<apiAllVars, overdrawn>>
<1>1. CASE OtherStep
  BY <1>1 DEF OtherStep, ApiStep, ApiIdle, apiAllVars, publisherVars
<1>2. CASE ProcessEnds
  BY <1>2 DEF ProcessEnds, WatchersEnd, ApiStep
<1>3. ASSUME NEW o \in Orders, RequestStep(o)
      PROVE  \/ ApiStep /\ UNCHANGED overdrawn
             \/ ChannelRefused(o)
             \/ UNCHANGED <<apiAllVars, overdrawn>>
  BY <1>3 DEF RequestStep, OpenChannel, OpenFails, PublishEvent, PublishErrors,
              HandlerStep, ApiStep, publisherVars
<1>4. ASSUME NEW o \in Orders, WatchStep(o)
      PROVE  UNCHANGED <<apiAllVars, overdrawn>>
  BY <1>4 DEF WatchStep, ReportUnrouted, StopWatching
<1>5. ASSUME NEW o \in Orders, BrokerAnswers(o)
      PROVE  ApiStep /\ UNCHANGED overdrawn
  BY <1>5 DEF BrokerAnswers, ApiStep
<1> QED
  BY <1>1, <1>2, <1>3, <1>4, <1>5 DEF PublisherNext

(* The channels and what they report keep their types. *)
LEMMA ChannelsTyped ==
  ASSUME PublisherTypeOK, PublisherNext
  PROVE  /\ channel' \in [Orders -> ChannelState]
         /\ returns' \subseteq Orders /\ reported' \subseteq Orders
         /\ overdrawn' \subseteq Orders
<1> USE DEF PublisherTypeOK, ChannelState
<1>1. CASE OtherStep
  BY <1>1 DEF OtherStep, publisherVars
<1>2. CASE ProcessEnds
  BY <1>2 DEF ProcessEnds, WatchersEnd
<1>3. ASSUME NEW o \in Orders, RequestStep(o)
      PROVE  /\ channel' \in [Orders -> ChannelState]
             /\ returns' \subseteq Orders /\ reported' \subseteq Orders
             /\ overdrawn' \subseteq Orders
  BY <1>3 DEF RequestStep, OpenChannel, ChannelRefused, OpenFails, PublishEvent,
              PublishErrors, SetChannel, publisherVars
<1>4. ASSUME NEW o \in Orders, WatchStep(o) \/ BrokerAnswers(o)
      PROVE  /\ channel' \in [Orders -> ChannelState]
             /\ returns' \subseteq Orders /\ reported' \subseteq Orders
             /\ overdrawn' \subseteq Orders
  BY <1>4 DEF WatchStep, ReportUnrouted, StopWatching, BrokerAnswers, SetChannel
<1> QED
  BY <1>1, <1>2, <1>3, <1>4 DEF PublisherNext

-----------------------------------------------------------------------------
(* The invariant. *)

(* An order keeps its event in a step of the API. *)
LEMMA StrandedApiStep ==
  ASSUME PublisherInv, ApiStep, UNCHANGED overdrawn
  PROVE  StrandedOnlyByFaultOrBurst'
<1> SUFFICES ASSUME apiFaults' = 0, NEW o \in Orders
             PROVE  /\ status'[o] = "PENDING" => Accounted(o)' \/ o \in overdrawn'
                    /\ req'[o] # "cut"
  BY DEF StrandedOnlyByFaultOrBurst
<1>0. ApiTypeOK /\ Serving /\ apiFaults = 0 /\ unroutable \subseteq unroutable'
  BY ExposureGrows DEF PublisherInv, PublisherTypeOK
<1>1. req'[o] # "cut"
  BY <1>0, CutByFault DEF PublisherInv, StrandedOnlyByFaultOrBurst
<1>2. CASE status[o] = "PENDING"
  <2>1. Accounted(o) \/ o \in overdrawn
    BY <1>0, <1>2 DEF PublisherInv, StrandedOnlyByFaultOrBurst
  <2>2. routed \subseteq routed'
    BY <1>0, ApiBroker DEF brokerVars, RouteEvent
  <2>3. req[o] = "publishing" \/ o \in apiWire => Accounted(o)'
    BY <1>0, EventKept DEF Accounted, RouteEvent
  <2> QED
    BY <1>0, <1>1, <2>1, <2>2, <2>3 DEF Accounted
<1>3. CASE StoreCreates(o)
  BY <1>0, <1>1, <1>3 DEF StoreCreates, Becomes, Accounted, ApiTypeOK
<1>4. CASE StoreFails(o) /\ status[o] = "ABSENT"
  BY <1>0, <1>1, <1>4 DEF StoreFails, ApiFault, ledgerVars
<1> QED
  BY <1>0, <1>1, <1>2, <1>3, <1>4, ApiLedger

(* The invariant holds after every step. *)
LEMMA PublisherInvStep ==
  ASSUME PublisherInv, [PublisherNext]_publisherAllVars
  PROVE  PublisherInv'
<1>0. ApiTypeOK /\ PublisherTypeOK
  BY DEF PublisherInv, PublisherTypeOK
<1>1. ASSUME ApiStep, UNCHANGED overdrawn
      PROVE  ApiTypeOK' /\ Serving' /\ RefusedOnce' /\ StrandedOnlyByFaultOrBurst'
  <2>1. RefusedOnce'
    BY <1>0, <1>1, AnsweredStays DEF PublisherInv, PublisherTypeOK, RefusedOnce
  <2> QED
    BY <1>0, <1>1, <2>1, ApiTyped, ServingStep, StrandedApiStep DEF PublisherInv
<1>2. ASSUME QueueBound, UNCHANGED overdrawn
      PROVE  ApiTypeOK' /\ Serving' /\ RefusedOnce' /\ StrandedOnlyByFaultOrBurst'
  <2>1. ApiTypeOK'
    BY <1>0, <1>2 DEF QueueBound, ledgerVars, apiVars, apiBoundVars, ApiTypeOK,
                      LedgerTypeOK, BrokerTypeOK
  <2>2. Serving' /\ RefusedOnce' /\ StrandedOnlyByFaultOrBurst'
    BY <1>2 DEF PublisherInv, QueueBound, ledgerVars, apiVars, apiBoundVars, Serving,
                InFlight, RefusedOnce, StrandedOnlyByFaultOrBurst, Accounted
  <2> QED
    BY <2>1, <2>2
<1>3. ASSUME NEW o \in Orders, ChannelRefused(o)
      PROVE  ApiTypeOK' /\ Serving' /\ RefusedOnce' /\ StrandedOnlyByFaultOrBurst'
  <2>1. /\ req \in [Orders -> Progress] /\ req[o] = "publishing"
        /\ req' = [req EXCEPT ![o] = "201"] /\ overdrawn' = overdrawn \cup {o}
        /\ overdrawn \subseteq Orders
        /\ UNCHANGED <<ledgerVars, brokerVars, api, apiLink, apiWire, unroutable,
                       apiBoundVars>>
    BY <1>0, <1>3 DEF ChannelRefused, Opening, Becomes, Created, ApiTypeOK, PublisherTypeOK
  <2>2. req' \in [Orders -> Progress] /\ InFlight' \subseteq InFlight
    BY <2>1 DEF Progress, InFlight
  <2>3. ApiTypeOK'
    BY <1>0, <2>1, <2>2 DEF ApiTypeOK, LedgerTypeOK, BrokerTypeOK, ledgerVars,
                            brokerVars, apiBoundVars
  <2>4. Serving'
    BY <2>1, <2>2 DEF PublisherInv, Serving, apiBoundVars
  <2>5. RefusedOnce'
    BY <2>1 DEF PublisherInv, RefusedOnce
  <2>6. StrandedOnlyByFaultOrBurst'
    BY <2>1 DEF PublisherInv, StrandedOnlyByFaultOrBurst, Accounted, ledgerVars,
                brokerVars, apiBoundVars
  <2> QED
    BY <2>3, <2>4, <2>5, <2>6
<1>4. ASSUME UNCHANGED <<apiAllVars, overdrawn>>
      PROVE  ApiTypeOK' /\ Serving' /\ RefusedOnce' /\ StrandedOnlyByFaultOrBurst'
  <2>1. UNCHANGED <<ledgerVars, brokerVars, apiVars, apiBoundVars>>
    BY <1>4 DEF apiAllVars, apiVars
  <2>2. ApiTypeOK'
    BY <1>0, <2>1 DEF ledgerVars, brokerVars, apiVars, apiBoundVars, ApiTypeOK,
                      LedgerTypeOK, BrokerTypeOK
  <2>3. Serving' /\ RefusedOnce' /\ StrandedOnlyByFaultOrBurst'
    BY <1>4, <2>1 DEF PublisherInv, ledgerVars, brokerVars, apiVars, apiBoundVars,
                Serving, InFlight, RefusedOnce, StrandedOnlyByFaultOrBurst, Accounted
  <2> QED
    BY <2>2, <2>3
<1>5. ASSUME UNCHANGED publisherAllVars
      PROVE  UNCHANGED <<apiAllVars, channel, returns, reported, overdrawn>>
  BY <1>5 DEF publisherAllVars, publisherVars
<1>6. ApiTypeOK' /\ Serving' /\ RefusedOnce' /\ StrandedOnlyByFaultOrBurst'
  BY <1>1, <1>2, <1>3, <1>4, <1>5, PublisherSteps
<1>7. /\ channel' \in [Orders -> ChannelState]
      /\ returns' \subseteq Orders /\ reported' \subseteq Orders
      /\ overdrawn' \subseteq Orders
  BY <1>0, <1>5, ChannelsTyped DEF PublisherTypeOK
<1> QED
  BY <1>6, <1>7 DEF PublisherInv, PublisherTypeOK

(* It holds before the first request. *)
LEMMA PublisherInvInit == PublisherInit => PublisherInv
<1> SUFFICES ASSUME PublisherInit
             PROVE  PublisherInv
  OBVIOUS
<1>1. ApiTypeOK /\ Serving
  BY ApiInitially DEF PublisherInit, ApiInit
<1>2. PublisherTypeOK /\ RefusedOnce
  BY <1>1 DEF PublisherInit, PublisherTypeOK, ChannelState, RefusedOnce
<1>3. StrandedOnlyByFaultOrBurst
  BY DEF PublisherInit, ApiInit, LedgerInit, ApiStateInit, StrandedOnlyByFaultOrBurst
<1> QED
  BY <1>1, <1>2, <1>3 DEF PublisherInv

(* It holds in every state. *)
LEMMA PublisherInvariant == PublisherSpec => []PublisherInv
BY PublisherInvInit, PublisherInvStep, PTL DEF PublisherSpec

(* The types of the publisher: a channel is opened, watched and closed, and
   what is returned or reported is an order's event. *)
THEOREM PublisherTypeCorrect == PublisherSpec => []PublisherTypeOK
BY PublisherInvariant, PTL DEF PublisherInv

(* Without a fault of the API only a refused channel keeps the event of a row
   from being published, and no request is cut: a drain does neither, whatever
   the requests and the goroutines of earlier ones are doing. *)
THEOREM OnlyFaultOrBurstStrands == PublisherSpec => []StrandedOnlyByFaultOrBurst
BY PublisherInvariant, PTL DEF PublisherInv

-----------------------------------------------------------------------------
(* The refinement of OrderApi. *)

(* The faults that OrderApi counts. *)
Counted == apiFaults + Cardinality(overdrawn)
CountedBound == MaxApiFaults + Cardinality(Orders)

(* They are within the bound, and a refused channel is one more. *)
LEMMA RefusedCounted ==
  ASSUME overdrawn \subseteq Orders
  PROVE  /\ Cardinality(overdrawn) \in Nat /\ Cardinality(Orders) \in Nat
         /\ Cardinality(overdrawn) <= Cardinality(Orders)
         /\ \A o \in Orders \ overdrawn :
              /\ Cardinality(overdrawn \cup {o}) = Cardinality(overdrawn) + 1
              /\ Cardinality(overdrawn) < Cardinality(Orders)
<1>1. IsFiniteSet(Orders)
  BY PublisherAssumption
<1>2. /\ IsFiniteSet(overdrawn)
      /\ Cardinality(overdrawn) <= Cardinality(Orders)
  BY <1>1, FS_Subset
<1>3. Cardinality(overdrawn) \in Nat /\ Cardinality(Orders) \in Nat
  BY <1>1, <1>2, FS_CardinalityType
<1>4. ASSUME NEW o \in Orders \ overdrawn
      PROVE  /\ Cardinality(overdrawn \cup {o}) = Cardinality(overdrawn) + 1
             /\ Cardinality(overdrawn) < Cardinality(Orders)
  <2>1. Cardinality(overdrawn \cup {o}) = Cardinality(overdrawn) + 1
    BY <1>2, FS_AddElement
  <2>2. Cardinality(overdrawn \cup {o}) <= Cardinality(Orders)
    BY <1>1, FS_Subset
  <2> QED
    BY <1>3, <2>1, <2>2
<1> QED
  BY <1>2, <1>3, <1>4

(* A fault of the API, or a refused channel, is a fault there. *)
LEMMA FaultCounted ==
  ASSUME PublisherTypeOK,
         \/ ApiFault /\ UNCHANGED overdrawn
         \/ /\ UNCHANGED apiFaults
            /\ \E o \in Orders \ overdrawn : overdrawn' = overdrawn \cup {o}
  PROVE  Counted < CountedBound /\ Counted' = Counted + 1
<1>1. /\ apiFaults \in Nat /\ MaxApiFaults \in Nat /\ apiFaults <= MaxApiFaults
      /\ overdrawn \subseteq Orders
  BY ApiAssumption DEF PublisherTypeOK, ApiTypeOK
<1>2. CASE ApiFault /\ UNCHANGED overdrawn
  <2>1. /\ apiFaults < MaxApiFaults /\ apiFaults' = apiFaults + 1
        /\ Cardinality(overdrawn)' = Cardinality(overdrawn)
    BY <1>2 DEF ApiFault
  <2> QED
    BY <1>1, <2>1, RefusedCounted DEF Counted, CountedBound
<1>3. ASSUME UNCHANGED apiFaults, NEW o \in Orders \ overdrawn,
             overdrawn' = overdrawn \cup {o}
      PROVE  Counted < CountedBound /\ Counted' = Counted + 1
  <2>1. /\ Cardinality(overdrawn)' = Cardinality(overdrawn) + 1
        /\ Cardinality(overdrawn) < Cardinality(Orders)
    BY <1>1, <1>3, RefusedCounted
  <2> QED
    BY <1>1, <1>3, <2>1, RefusedCounted DEF Counted, CountedBound
<1> QED
  BY <1>2, <1>3

(* A step of the API that refuses no channel is one of OrderApi there. *)
LEMMA ApiStepCounted ==
  ASSUME PublisherTypeOK, ApiStep, UNCHANGED overdrawn
  PROVE  Api!ApiStep
<1> USE DEF ledgerVars, Api!ledgerVars, brokerVars, Api!brokerVars
<1>1. UNCHANGED apiFaults => Counted' = Counted
  BY DEF Counted
<1>2. ApiFault => Counted < CountedBound /\ Counted' = Counted + 1
  BY FaultCounted
<1>3. ApiStarts => Api!ApiStarts
  BY <1>1 DEF ApiStarts, Api!ApiStarts, apiBoundVars, Api!apiBoundVars, Counted
<1>4. ApiLosesConnection => Api!ApiLosesConnection
  BY <1>2 DEF ApiLosesConnection, Api!ApiLosesConnection, Api!ApiFault, Counted, CountedBound
<1>5. ApiSeesLoss => Api!ApiSeesLoss
  BY <1>1 DEF ApiSeesLoss, Api!ApiSeesLoss, apiBoundVars, Api!apiBoundVars, Counted
<1>6. ApiSignal => Api!ApiSignal
  BY <1>1 DEF ApiSignal, Api!ApiSignal, Counted
<1>7. ApiExits => Api!ApiExits
  BY <1>1 DEF ApiExits, Api!ApiExits, InFlight, Api!InFlight, apiBoundVars,
              Api!apiBoundVars, Counted
<1>8. ApiDies => Api!ApiDies
  BY <1>2 DEF ApiDies, Api!ApiDies, Cut, Api!Cut, InFlight, Api!InFlight,
              Api!ApiFault, Counted, CountedBound
<1>9. ASSUME NEW o \in Orders
      PROVE  /\ AcceptRequest(o) => Api!AcceptRequest(o)
             /\ StoreCreates(o) => Api!StoreCreates(o)
             /\ StoreFails(o) => Api!StoreFails(o)
             /\ Publishes(o) => Api!Publishes(o)
             /\ PublishFails(o) => Api!PublishFails(o)
             /\ BrokerHandlesEvent(o) => Api!BrokerHandlesEvent(o)
  <2> USE DEF Becomes, Api!Becomes, Created, Api!Created, apiBoundVars, Api!apiBoundVars
  <2>1. AcceptRequest(o) => Api!AcceptRequest(o)
    BY <1>1 DEF AcceptRequest, Api!AcceptRequest, Counted
  <2>2. StoreCreates(o) => Api!StoreCreates(o)
    BY <1>1 DEF StoreCreates, Api!StoreCreates, InsertOrder, Api!InsertOrder, Counted
  <2>3. StoreFails(o) => Api!StoreFails(o)
    BY <1>1, <1>2 DEF StoreFails, Api!StoreFails, InsertOrder, Api!InsertOrder,
                      Api!ApiFault, Counted, CountedBound
  <2>4. Publishes(o) => Api!Publishes(o)
    BY <1>1 DEF Publishes, Api!Publishes, Counted
  <2>5. PublishFails(o) => Api!PublishFails(o)
    BY <1>1, <1>2 DEF PublishFails, Api!PublishFails, Api!ApiFault, Counted, CountedBound
  <2>6. BrokerHandlesEvent(o) => Api!BrokerHandlesEvent(o)
    <3>1. RouteEvent(o, EventBody(o)) => Api!RouteEvent(o, Api!EventBody(o))
      BY DEF RouteEvent, Api!RouteEvent, EventBody, Api!EventBody, Room, Api!Room,
             FreshId, Api!FreshId, Unused, Api!Unused, Kept, Api!Kept,
             FramesOf, Api!FramesOf
    <3> QED
      BY <1>1, <3>1 DEF BrokerHandlesEvent, Api!BrokerHandlesEvent, Counted
  <2> QED
    BY <2>1, <2>2, <2>3, <2>4, <2>5, <2>6
<1> QED
  BY <1>3, <1>4, <1>5, <1>6, <1>7, <1>8, <1>9
  DEF ApiStep, HandlerStep, Api!ApiStep, Api!HandlerStep

(* So is one that refuses a channel: there, the publish fails by a fault. *)
LEMMA RefusalCounted ==
  ASSUME PublisherInv, NEW o \in Orders, ChannelRefused(o)
  PROVE  Api!PublishFails(o)
<1>1. /\ overdrawn' = overdrawn \cup {o} /\ o \notin overdrawn /\ UNCHANGED apiFaults
      /\ PublisherTypeOK
  BY DEF ChannelRefused, Opening, apiBoundVars, PublisherInv, RefusedOnce
<1>2. Counted < CountedBound /\ Counted' = Counted + 1
  BY <1>1, FaultCounted
<1> QED
  BY <1>2
  DEF ChannelRefused, Opening, apiBoundVars, Becomes, Created, ledgerVars, brokerVars,
      Api!PublishFails, Api!ApiFault, Api!Becomes, Api!Created, Api!ledgerVars,
      Api!brokerVars, Counted, CountedBound

(* The initial states are the same, *)
LEMMA ApiInitiallyToo ==
  ASSUME PublisherInit
  PROVE  Api!ApiInit
<1>1. apiFaults + Cardinality(overdrawn) = 0
  BY FS_EmptySet DEF PublisherInit, ApiInit, ApiStateInit
<1> QED
  BY <1>1 DEF PublisherInit, ApiInit, LedgerInit, BrokerInit, ApiStateInit,
              Api!ApiInit, Api!LedgerInit, Api!BrokerInit, Api!ApiStateInit

(* and every step is one of OrderApi, or a stutter. *)
LEMMA ApiNextCounted ==
  ASSUME PublisherInv, [PublisherNext]_publisherAllVars
  PROVE  [Api!ApiNext]_(Api!apiAllVars)
<1> DEFINE NextApi == [Api!ApiNext]_(Api!apiAllVars)
<1>1. CASE ApiStep /\ UNCHANGED overdrawn
  BY <1>1, ApiStepCounted DEF Api!ApiNext, PublisherInv
<1>2. CASE QueueBound /\ UNCHANGED overdrawn
  <2>1. Counted' = Counted
    BY <1>2 DEF QueueBound, apiVars, apiBoundVars, Counted
  <2>2. Api!QueueBound
    BY <1>2, <2>1 DEF QueueBound, ledgerVars, apiVars, apiBoundVars, Counted,
                      Api!QueueBound, Api!ledgerVars, Api!apiVars, Api!apiBoundVars
  <2> QED
    BY <2>2 DEF Api!ApiNext
<1>3. ASSUME NEW o \in Orders, ChannelRefused(o)
      PROVE  NextApi
  BY <1>3, RefusalCounted DEF Api!ApiNext, Api!ApiStep, Api!HandlerStep
<1>4. CASE UNCHANGED <<apiAllVars, overdrawn>>
  <2>1. Counted' = Counted
    BY <1>4 DEF apiAllVars, apiVars, apiBoundVars, Counted
  <2> QED
    BY <1>4, <2>1
    DEF apiAllVars, ledgerVars, brokerVars, apiVars, apiBoundVars, Counted,
        Api!apiAllVars, Api!ledgerVars, Api!brokerVars, Api!apiVars, Api!apiBoundVars
<1>5. CASE UNCHANGED publisherAllVars
  BY <1>4, <1>5 DEF publisherAllVars, publisherVars
<1> QED
  BY <1>1, <1>2, <1>3, <1>4, <1>5, PublisherSteps

(* The channels and goroutines of PublishOrderCreated implement the publish
   of OrderApi, which is one step; a channel the broker refuses is one of its
   failures. *)
THEOREM PublisherImplementsApi == PublisherSpec => ImplementsApi
BY ApiInitiallyToo, ApiNextCounted, PublisherInvariant, PTL
DEF PublisherSpec, ImplementsApi, Api!ApiSafety
=============================================================================
