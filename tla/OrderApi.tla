------------------------------ MODULE OrderApi -------------------------------
(***************************************************************************)
(* The API process: POST /orders (internal/order/handler.go CreateOrder),  *)
(* PublishOrderCreated (internal/order/events.go) and the process around   *)
(* them (cmd/api/main.go run): start, connection loss, graceful shutdown,  *)
(* crash.                                                                  *)
(*                                                                         *)
(* CreateOrder performs two writes with no shared transaction: an INSERT   *)
(* and the publish of the event.  Each valid request creates an order of   *)
(* its own, so requests are named by their orders.  Requests run           *)
(* concurrently and publish on a channel of their own: nothing orders      *)
(* their events.  Requests that fail validation change no state.           *)
(***************************************************************************)
EXTENDS ExecutionBroker, OrderLedger

CONSTANTS UnknownSymbols, \* orders whose symbol the price service rejects
          MaxApiFaults,   \* bound: crashes, lost connections, failed publishes
          MaxApiStops     \* bound: shutdown signals to the API

ASSUME ApiAssumption ==
  /\ UnknownSymbols \subseteq Orders
  /\ MaxApiFaults \in Nat
  /\ MaxApiStops \in Nat

VARIABLES api,         \* the process: "down", "up", or "draining" in Shutdown
          apiLink,     \* its connection to the broker works
          req,         \* progress or outcome of each request
          apiWire,     \* events published and not yet handled by the broker
          unroutable,  \* history: events the broker had no queue for
          apiFaults,   \* faults so far
          apiStops     \* shutdown signals so far

apiBoundVars == <<apiFaults, apiStops>>
apiVars == <<api, apiLink, req, apiWire, unroutable, apiBoundVars>>

(* "cut": the process ended during the request. *)
Progress == {"none", "creating", "publishing", "201", "500", "cut"}

ApiTypeOK ==
  /\ LedgerTypeOK
  /\ BrokerTypeOK
  /\ api \in {"down", "up", "draining"}
  /\ apiLink \in BOOLEAN
  /\ req \in [Orders -> Progress]
  /\ apiWire \subseteq Orders
  /\ unroutable \subseteq Orders
  /\ apiFaults \in 0 .. MaxApiFaults
  /\ apiStops \in 0 .. MaxApiStops

ApiStateInit ==
  /\ api = "down"
  /\ apiLink = FALSE
  /\ req = [o \in Orders |-> "none"]
  /\ apiWire = {}
  /\ unroutable = {}
  /\ apiFaults = 0
  /\ apiStops = 0

-----------------------------------------------------------------------------
InFlight == {o \in Orders : req[o] \in {"creating", "publishing"}}

Becomes(o, outcome) == req' = [req EXCEPT ![o] = outcome]

ApiFault == apiFaults < MaxApiFaults /\ apiFaults' = apiFaults + 1

(* Faulty: the event is published before the row is inserted. *)
MutPublishFirst(o) ==
  /\ api = "up" /\ req[o] = "none"
  /\ Becomes(o, "publishing")
  /\ UNCHANGED <<ledgerVars, brokerVars, api, apiLink, apiWire, unroutable,
                 apiBoundVars>>

(* A valid POST /orders reaches the handler. *)
AcceptRequest(o) ==
  /\ api = "up" /\ req[o] = "none"
  /\ Becomes(o, "creating")
  /\ UNCHANGED <<ledgerVars, brokerVars, api, apiLink, apiWire, unroutable,
                 apiBoundVars>>

(* store.Create returns the order. *)
StoreCreates(o) ==
  /\ req[o] = "creating"
  /\ InsertOrder(o)
  /\ Becomes(o, "publishing")
  /\ UNCHANGED <<brokerVars, api, apiLink, apiWire, unroutable, apiBoundVars>>

(* store.Create returns an error: 500, and nothing is published.  The INSERT
   may have taken effect all the same. *)
StoreFails(o) ==
  /\ req[o] = "creating"
  /\ \/ UNCHANGED <<ledgerVars, apiFaults>>
     \/ InsertOrder(o) /\ ApiFault
  /\ Becomes(o, "500")
  /\ UNCHANGED <<brokerVars, api, apiLink, apiWire, unroutable, apiStops>>

(* Faulty: net/http's default status. *)
MutCreated == "200"

Created == "201"

(* Faulty: a publish that took too long is tried again. *)
MutPublishesAgain(o) ==
  /\ req[o] = "publishing" /\ apiLink
  /\ apiWire' = apiWire \cup {o}
  /\ Becomes(o, Created) \/ UNCHANGED req
  /\ UNCHANGED <<ledgerVars, brokerVars, api, apiLink, unroutable,
                 apiBoundVars>>

(* The publish call succeeds: the frames are on their way. *)
Publishes(o) ==
  /\ req[o] = "publishing" /\ apiLink
  /\ apiWire' = apiWire \cup {o}
  /\ Becomes(o, Created)
  /\ UNCHANGED <<ledgerVars, brokerVars, api, apiLink, unroutable,
                 apiBoundVars>>

(* Faulty: without a connection the call waits for one. *)
MutPublishWaits(o) ==
  /\ req[o] = "publishing"
  /\ apiLink /\ ApiFault
  /\ Becomes(o, Created)
  /\ UNCHANGED <<ledgerVars, brokerVars, api, apiLink, apiWire, unroutable,
                 apiStops>>

(* No channel, or a publish error: only a warning, the answer is 201. *)
PublishFails(o) ==
  /\ req[o] = "publishing"
  /\ \/ ~apiLink /\ UNCHANGED apiFaults
     \/ apiLink /\ ApiFault
  /\ Becomes(o, Created)
  /\ UNCHANGED <<ledgerVars, brokerVars, api, apiLink, apiWire, unroutable,
                 apiStops>>

(* The checks of CreateOrder let only valid events through; they know no
   symbols. *)
EventBody(o) == IF o \in UnknownSymbols THEN "unknownSymbol" ELSE "valid"

(* Bodies, the bound on what events may be, includes what requests make. *)
ASSUME EventAssumption == \A o \in Orders : EventBody(o) \in Bodies

(* The broker handles an event: it reaches OrderQueue if that is bound to the
   exchange, and is returned and gone otherwise (awaitReturn only logs). *)
BrokerHandlesEvent(o) ==
  /\ o \in apiWire
  /\ apiWire' = apiWire \ {o}
  /\ \/ RouteEvent(o, EventBody(o)) /\ UNCHANGED unroutable
     \/ /\ ~bound
        /\ unroutable' = unroutable \cup {o}
        /\ UNCHANGED brokerVars
  /\ UNCHANGED <<ledgerVars, api, apiLink, req, apiBoundVars>>

-----------------------------------------------------------------------------
(* The process. *)

(* run connects, declares the exchange and listens. *)
ApiStarts ==
  /\ api = "down"
  /\ api' = "up"
  /\ apiLink' = TRUE
  /\ UNCHANGED <<ledgerVars, brokerVars, req, apiWire, unroutable, apiBoundVars>>

(* The connection breaks; frames on their way may be lost. *)
ApiLosesConnection ==
  /\ apiLink /\ ApiFault
  /\ apiLink' = FALSE
  /\ apiWire' \in SUBSET apiWire
  /\ UNCHANGED <<ledgerVars, brokerVars, api, req, unroutable, apiStops>>

(* Faulty: a lost connection is logged and the server goes on. *)
MutLossIgnored == FALSE

(* connClosed: the process drains and exits with an error. *)
ApiSeesLoss ==
  /\ api = "up" /\ ~apiLink
  /\ api' = "draining"
  /\ UNCHANGED <<ledgerVars, brokerVars, apiLink, req, apiWire, unroutable,
                 apiBoundVars>>

(* SIGTERM or SIGINT: srv.Shutdown stops listening and drains. *)
ApiSignal ==
  /\ api = "up" /\ apiStops < MaxApiStops
  /\ api' = "draining"
  /\ apiStops' = apiStops + 1
  /\ UNCHANGED <<ledgerVars, brokerVars, apiLink, req, apiWire, unroutable,
                 apiFaults>>

Cut == [o \in Orders |-> IF o \in InFlight THEN "cut" ELSE req[o]]

(* Faulty: run returns without waiting for srv.Shutdown. *)
MutExitsAtOnce ==
  /\ api = "draining"
  /\ apiLink => apiWire = {}
  /\ api' = "down"
  /\ apiLink' = FALSE
  /\ req' = Cut
  /\ UNCHANGED <<ledgerVars, brokerVars, apiWire, unroutable, apiBoundVars>>

(* Shutdown returned: no request is in flight.  The deferred conn.Close is
   answered after the frames sent before it. *)
ApiExits ==
  /\ api = "draining" /\ InFlight = {}
  /\ apiLink => apiWire = {}
  /\ api' = "down"
  /\ apiLink' = FALSE
  /\ UNCHANGED <<ledgerVars, brokerVars, req, apiWire, unroutable, apiBoundVars>>

(* A crash, a SIGKILL, or Shutdown gave up after its 8s: requests in flight
   are cut where they are.  (A cut INSERT that took effect is StoreCreates
   followed by this step.) *)
ApiDies ==
  /\ api # "down" /\ ApiFault
  /\ api' = "down"
  /\ apiLink' = FALSE
  /\ req' = Cut
  /\ apiWire' \in SUBSET apiWire
  /\ UNCHANGED <<ledgerVars, brokerVars, unroutable, apiStops>>

-----------------------------------------------------------------------------
HandlerStep(o) ==
  \/ StoreCreates(o)
  \/ StoreFails(o)
  \/ Publishes(o)
  \/ PublishFails(o)

ApiStep ==
  \/ ApiStarts
  \/ ApiLosesConnection
  \/ ApiSeesLoss
  \/ ApiSignal
  \/ ApiExits
  \/ ApiDies
  \/ \E o \in Orders :
       \/ AcceptRequest(o)
       \/ HandlerStep(o)
       \/ BrokerHandlesEvent(o)

(* On its own: nobody consumes, but a consumer binds the queue some time. *)
ApiInit ==
  /\ LedgerInit
  /\ BrokerInit
  /\ ApiStateInit

(* A consumer has started somewhere: its topology is there for good. *)
QueueBound ==
  /\ ~bound
  /\ bound' = TRUE
  /\ UNCHANGED <<ledgerVars, apiVars, orderQueue, retryQueue, deadLetterQueue,
                 session, unacked, wire, routed>>

(* Every request has its outcome. *)
ApiIdle ==
  /\ \A o \in Orders : req[o] \in {"201", "500", "cut"}
  /\ UNCHANGED <<ledgerVars, brokerVars, apiVars>>

ApiNext == ApiStep \/ QueueBound \/ ApiIdle

apiAllVars == <<ledgerVars, brokerVars, apiVars>>

(* Handlers, the broker and the process itself go on; the connection loss is
   noticed and a stopped process is replaced.  Faults need not happen. *)
ApiFairness ==
  /\ \A o \in Orders :
       /\ WF_apiAllVars(HandlerStep(o))
       /\ WF_apiAllVars(BrokerHandlesEvent(o))
  /\ WF_apiAllVars(ApiSeesLoss)
  /\ WF_apiAllVars(ApiExits)
  /\ WF_apiAllVars(ApiStarts)

ApiSafety == ApiInit /\ [][ApiNext]_apiAllVars

-----------------------------------------------------------------------------
(* Properties. *)

(* "Without the broker every new order would be saved but its event never
   published": an API that has lost its connection does not stay up. *)
LossStopsApi == (api = "up" /\ ~apiLink) ~> (api # "up")

(* Every accepted request gets an outcome, even when the connection breaks
   under it, so that a drain can end. *)
RequestsEnd == \A o \in Orders : o \in InFlight ~> o \notin InFlight
=============================================================================
