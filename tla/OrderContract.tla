---------------------------- MODULE OrderContract ----------------------------
(***************************************************************************)
(* The data of one order on its way: the checks and normalisation of       *)
(* CreateOrder (internal/order/handler.go), the constraints of the tables  *)
(* (schema.sql), the event (internal/order/events.go) and what the         *)
(* consumer makes of it (Validate, GetPrice, ExecuteOrder).  Four places   *)
(* judge the same data and have to agree.                                  *)
(*                                                                         *)
(* Every step succeeds that the data lets succeed: failures and concurrency *)
(* are OrderApi's and ExecutionConsumer's.  A text is a word with its case *)
(* and padding; a price is absent, positive or neither.                    *)
(***************************************************************************)
EXTENDS Integers

CONSTANTS Tickers,      \* words that match assetSymbolPattern
          KnownSymbols, \* tickers the price service has a price for
          OtherWords,   \* any other words
          Quantities,   \* quantities that requests name
          MaxInteger    \* the largest INTEGER of the database

ASSUME ContractAssumption ==
  /\ KnownSymbols \subseteq Tickers
  /\ "" \notin Tickers
  /\ Quantities \subseteq Int
  /\ MaxInteger \in Nat

Sides == {"BUY", "SELL"}
ExecutionTypes == {"MARKET", "LIMIT"}

(* "" is an empty or blank text. *)
Text(words) == [word : words \cup OtherWords \cup {""},
                upper : BOOLEAN, padded : BOOLEAN]

Request == [assetSymbol : Text(Tickers), quantity : Quantities,
            side : Text(Sides), executionType : Text(ExecutionTypes),
            limitPrice : {"absent", "notPositive", "positive"}]

VARIABLES req,        \* the request body, decoded
          stage,      \* how far the order got
          row,        \* the orders row
          event,      \* the event on the wire
          execution   \* quantity of the executions row, or 0

vars == <<req, stage, row, event, execution>>

Stage == {"received", "400", "500", "stored", "published",
          "executed", "invalidEvent", "unknownSymbol", "writeFails"}

Init ==
  /\ req \in Request
  /\ stage = "received"
  /\ row = req /\ event = req   \* arbitrary until they are set
  /\ execution = 0

-----------------------------------------------------------------------------
(* CreateOrder. *)

ToUpper(t) == [t EXCEPT !.upper = TRUE]
TrimSpace(t) == [t EXCEPT !.padded = FALSE]

(* A constant of the code: in capitals, without spaces. *)
Plain(t) == t.upper /\ ~t.padded

IsValidSide(t) == t.word \in Sides /\ Plain(t)
IsValidExecutionType(t) == t.word \in ExecutionTypes /\ Plain(t)
MatchesPattern(t) == t.word \in Tickers /\ Plain(t)

(* Faulty: the symbol is checked in its normal form but stored as it came. *)
MutNotNormalised(r) ==
  [r EXCEPT !.side = ToUpper(@), !.executionType = ToUpper(@)]

(* The Order that is built from a request. *)
Normalised(r) ==
  [r EXCEPT !.assetSymbol = ToUpper(TrimSpace(@)), !.side = ToUpper(@),
            !.executionType = ToUpper(@)]

(* Faulty: MARKET orders may name a price. *)
MutPriceFits(o) == o.executionType.word = "LIMIT" => o.limitPrice = "positive"

PriceFits(o) ==
  /\ o.executionType.word = "LIMIT" => o.limitPrice = "positive"
  /\ o.executionType.word = "MARKET" => o.limitPrice = "absent"

(* Faulty: any side is let through. *)
MutAcceptable(r) ==
  LET o == Normalised(r) IN
  /\ MatchesPattern(o.assetSymbol)
  /\ r.quantity > 0
  /\ IsValidExecutionType(o.executionType)
  /\ PriceFits(o)

(* No field error. *)
Acceptable(r) ==
  LET o == Normalised(r) IN
  /\ MatchesPattern(ToUpper(TrimSpace(r.assetSymbol)))
  /\ r.quantity > 0
  /\ IsValidSide(o.side)
  /\ IsValidExecutionType(o.executionType)
  /\ PriceFits(o)

BadRequest == "400"

RejectRequest ==
  /\ stage = "received" /\ ~Acceptable(req)
  /\ stage' = BadRequest
  /\ UNCHANGED <<req, row, event, execution>>

FitsInteger(n) == n <= MaxInteger

(* The CHECK constraints and column types of orders. *)
SchemaAllows(o) ==
  /\ FitsInteger(o.quantity)
  /\ IsValidSide(o.side)
  /\ IsValidExecutionType(o.executionType)

(* store.Create *)
StoreOrder ==
  /\ stage = "received" /\ Acceptable(req)
  /\ \/ SchemaAllows(Normalised(req)) /\ stage' = "stored" /\ row' = Normalised(req)
     \/ ~SchemaAllows(Normalised(req)) /\ stage' = "500" /\ UNCHANGED row
  /\ UNCHANGED <<req, event, execution>>

(* NewOrderCreatedEvent, of the row that was created. *)
PublishEvent ==
  /\ stage = "stored"
  /\ stage' = "published"
  /\ event' = row
  /\ UNCHANGED <<req, row, execution>>

-----------------------------------------------------------------------------
(* The consumer. *)

(* OrderCreatedEvent.Validate *)
ValidEvent(e) ==
  /\ e.assetSymbol.word # ""
  /\ e.quantity > 0
  /\ IsValidSide(e.side)
  /\ IsValidExecutionType(e.executionType)
  /\ e.executionType.word = "LIMIT" => e.limitPrice = "positive"
  /\ e.executionType.word = "MARKET" => e.limitPrice = "absent"

(* The price service compares the text. *)
HasPrice(e) == e.assetSymbol.word \in KnownSymbols /\ Plain(e.assetSymbol)

Ends(outcome, quantity) ==
  /\ stage' = outcome
  /\ execution' = quantity

(* handleOrderCreated, once every dependency works. *)
HandleEvent ==
  /\ stage = "published"
  /\ \/ ~ValidEvent(event) /\ Ends("invalidEvent", 0)
     \/ ValidEvent(event) /\ ~HasPrice(event) /\ Ends("unknownSymbol", 0)
     \/ /\ ValidEvent(event) /\ HasPrice(event)
        /\ \/ FitsInteger(event.quantity) /\ Ends("executed", event.quantity)
           \/ ~FitsInteger(event.quantity) /\ Ends("writeFails", 0)
  /\ UNCHANGED <<req, row, event>>

Final == Stage \ {"received", "stored", "published"}

Next ==
  \/ RejectRequest
  \/ StoreOrder
  \/ PublishEvent
  \/ HandleEvent
  \/ stage \in Final /\ UNCHANGED vars

Spec == Init /\ [][Next]_vars

-----------------------------------------------------------------------------
(* Properties. *)

TypeOK ==
  /\ req \in Request /\ row \in Request /\ event \in Request
  /\ stage \in Stage
  /\ execution \in Quantities \cup {0}

(* The API announces nothing the consumer refuses: an accepted request never
   ends in the dead letter queue as an invalid event, nor over an executions
   row that cannot be written. *)
AcceptedEventValid == stage \notin {"invalidEvent", "writeFails"}

(* An accepted order of a symbol with a price is executed, with the quantity
   the client asked for, however it wrote the symbol and the side: the
   spelling the API stores is the one the price service knows. *)
KnownSymbolExecuted ==
  stage \in Final \ {"400", "500"} /\ req.assetSymbol.word \in KnownSymbols =>
    stage = "executed" /\ execution = req.quantity

(* The checks of CreateOrder imply the CHECK constraints of the table: the
   only accepted requests the database refuses are those whose quantity does
   not fit its column. *)
RefusedByWidthOnly == stage = "500" => req.quantity > MaxInteger

(* openapi.yaml, POST /orders: a quantity is an integer of at least 1, with no
   maximum, and the answers are 201, 400 and 413. *)
DocumentedAnswers == stage # "500"
=============================================================================
