--------------------------- MODULE OrderPublisher ----------------------------
(***************************************************************************)
(* PublishOrderCreated and awaitReturn (internal/order/events.go) call by  *)
(* call, inside the API process of OrderApi.                               *)
(*                                                                         *)
(* Each publish opens a channel of the one connection, publishes on it,    *)
(* and leaves a goroutine behind that owns the channel: for one second it  *)
(* waits for the broker to return the event as unroutable, then it closes  *)
(* the channel.  So a channel outlives its request, and a connection has   *)
(* only so many.  When the connection closes, the library closes the       *)
(* channel of returns, and a receive from it yields a zero Return.         *)
(*                                                                         *)
(* A refused channel is one of the failures OrderApi allows a publish.     *)
(***************************************************************************)
EXTENDS OrderApi, FiniteSets

CONSTANT ChannelMax   \* channels the broker allows a connection

(* Refused channels are counted: the requests of a process are finitely many. *)
ASSUME PublisherAssumption ==
  /\ ChannelMax \in Nat \ {0}
  /\ IsFiniteSet(Orders)

VARIABLES channel,    \* the channel of each publish
          returns,    \* events the broker has returned to their channel
          reported,   \* history: orders logged as "was not routed"
          overdrawn   \* history: orders whose publish was refused a channel

publisherVars == <<channel, returns, reported, overdrawn>>
publisherAllVars == <<apiAllVars, publisherVars>>

(* "open": the publish owns it; "watched": awaitReturn owns it. *)
ChannelState == {"none", "open", "watched", "closed"}

PublisherTypeOK ==
  /\ ApiTypeOK
  /\ channel \in [Orders -> ChannelState]
  /\ returns \subseteq Orders
  /\ reported \subseteq Orders
  /\ overdrawn \subseteq Orders

PublisherInit ==
  /\ ApiInit
  /\ channel = [o \in Orders |-> "none"]
  /\ returns = {}
  /\ reported = {}
  /\ overdrawn = {}

-----------------------------------------------------------------------------
InUse == {o \in Orders : channel[o] \in {"open", "watched"}}

SetChannel(o, state) == channel' = [channel EXCEPT ![o] = state]

Opening(o) == req[o] = "publishing" /\ channel[o] = "none"

(* Faulty: the request is answered and the publish goes on in the background. *)
MutAnswersFirst(o) ==
  /\ Opening(o) /\ apiLink
  /\ Cardinality(InUse) < ChannelMax
  /\ SetChannel(o, "open")
  /\ Becomes(o, Created)
  /\ UNCHANGED <<ledgerVars, brokerVars, api, apiLink, apiWire, unroutable,
                 apiBoundVars, returns, reported, overdrawn>>

(* conn.Channel and NotifyReturn. *)
OpenChannel(o) ==
  /\ Opening(o) /\ apiLink
  /\ Cardinality(InUse) < ChannelMax
  /\ SetChannel(o, "open")
  /\ UNCHANGED <<apiAllVars, returns, reported, overdrawn>>

(* conn.Channel has no number left: the publish fails, CreateOrder warns. *)
ChannelRefused(o) ==
  /\ Opening(o) /\ apiLink
  /\ Cardinality(InUse) >= ChannelMax
  /\ overdrawn' = overdrawn \cup {o}
  /\ Becomes(o, Created)
  /\ UNCHANGED <<ledgerVars, brokerVars, api, apiLink, apiWire, unroutable,
                 apiBoundVars, channel, returns, reported>>

(* conn.Channel fails for another reason. *)
OpenFails(o) ==
  /\ Opening(o)
  /\ PublishFails(o)
  /\ UNCHANGED publisherVars

(* PublishWithContext succeeds; awaitReturn takes the channel over. *)
PublishEvent(o) ==
  /\ channel[o] = "open"
  /\ Publishes(o)
  /\ SetChannel(o, "watched")
  /\ UNCHANGED <<returns, reported, overdrawn>>

(* Faulty: the error path forgets the channel. *)
MutChannelLeaks(o) ==
  /\ channel[o] = "open"
  /\ PublishFails(o)
  /\ UNCHANGED publisherVars

(* PublishWithContext fails: the channel is closed here. *)
PublishErrors(o) ==
  /\ channel[o] = "open"
  /\ PublishFails(o)
  /\ SetChannel(o, "closed")
  /\ UNCHANGED <<returns, reported, overdrawn>>

(* The broker handles an event; it returns one it has no queue for, to a
   connection that is still there. *)
BrokerAnswers(o) ==
  /\ BrokerHandlesEvent(o)
  /\ returns' = returns \cup {x \in {o} : apiLink /\ x \in unroutable'}
  /\ UNCHANGED <<channel, reported, overdrawn>>

-----------------------------------------------------------------------------
(* awaitReturn. *)

(* The select receives: a return, or the zero value of the closed channel. *)
ReportUnrouted(o) ==
  /\ channel[o] = "watched"
  /\ o \in returns \/ ~apiLink
  /\ SetChannel(o, "closed")
  /\ reported' = reported \cup {o}
  /\ returns' = returns \ {o}
  /\ UNCHANGED <<apiAllVars, overdrawn>>

(* One second has passed. *)
StopWatching(o) ==
  /\ channel[o] = "watched"
  /\ SetChannel(o, "closed")
  /\ returns' = returns \ {o}
  /\ UNCHANGED <<apiAllVars, reported, overdrawn>>

-----------------------------------------------------------------------------
(* The process. *)

(* run closes the connection and spends up to two more seconds flushing
   telemetry: the watchers that get to run meanwhile report their events. *)
WatchersEnd ==
  /\ \E awake \in SUBSET {o \in Orders : channel[o] = "watched"} :
       reported' = reported \cup awake
  /\ channel' = [o \in Orders |-> IF o \in InUse THEN "closed" ELSE channel[o]]
  /\ returns' = {}
  /\ UNCHANGED overdrawn

ProcessEnds == (ApiExits \/ ApiDies) /\ WatchersEnd

(* Steps that do not concern the channels of publishes. *)
OtherStep ==
  /\ \/ ApiStarts
     \/ ApiLosesConnection
     \/ ApiSeesLoss
     \/ ApiSignal
     \/ QueueBound
     \/ ApiIdle
     \/ \E o \in Orders : AcceptRequest(o)
  /\ UNCHANGED publisherVars

RequestStep(o) ==
  \/ StoreCreates(o) /\ UNCHANGED publisherVars
  \/ StoreFails(o) /\ UNCHANGED publisherVars
  \/ OpenChannel(o)
  \/ ChannelRefused(o)
  \/ OpenFails(o)
  \/ PublishEvent(o)
  \/ PublishErrors(o)

WatchStep(o) == ReportUnrouted(o) \/ StopWatching(o)

PublisherNext ==
  \/ OtherStep
  \/ ProcessEnds
  \/ \E o \in Orders : RequestStep(o) \/ WatchStep(o) \/ BrokerAnswers(o)

(* As in OrderApi; timers expire. *)
PublisherFairness ==
  /\ \A o \in Orders :
       /\ WF_publisherAllVars(RequestStep(o))
       /\ WF_publisherAllVars(WatchStep(o))
       /\ WF_publisherAllVars(BrokerAnswers(o))
  /\ WF_publisherAllVars(ApiSeesLoss /\ UNCHANGED publisherVars)
  /\ WF_publisherAllVars(ApiStarts /\ UNCHANGED publisherVars)
  /\ WF_publisherAllVars(ApiExits /\ WatchersEnd)

PublisherSpec ==
  /\ PublisherInit
  /\ [][PublisherNext]_publisherAllVars
  /\ PublisherFairness

-----------------------------------------------------------------------------
(* Properties. *)

(* OrderApi counts a refused channel as one more fault. *)
Api == INSTANCE OrderApi
         WITH apiFaults <- apiFaults + Cardinality(overdrawn),
              MaxApiFaults <- MaxApiFaults + Cardinality(Orders)

(* The calls of PublishOrderCreated and the goroutines it leaves behind do
   what OrderApi says, which treats a publish as one step. *)
ImplementsApi == Api!ApiSafety

Accounted(o) ==
  req[o] = "publishing" \/ o \in apiWire \cup routed \cup unroutable

(* The two writes of CreateOrder come apart only through a fault, or because
   more requests than the connection has channels published within a second:
   a normal deploy strands no order and cuts no request. *)
StrandedOnlyByFaultOrBurst ==
  apiFaults = 0 =>
    /\ \A o \in Orders : status[o] = "PENDING" => Accounted(o) \/ o \in overdrawn
    /\ \A o \in Orders : req[o] # "cut"

(* Every channel a publish opens is closed in the end, on every path, so that
   the API can publish again after a burst. *)
ChannelsReturn ==
  \A o \in Orders : channel[o] \in {"open", "watched"} ~> channel[o] = "closed"

(* awaitReturn "waits briefly for the broker to report this specific publish
   as unroutable": the warning "order created event was not routed" is never
   logged for an event that was routed. *)
NoFalseReport == reported \cap routed = {}
=============================================================================
