------------------------- MODULE OrderContractProofs --------------------------
(***************************************************************************)
(* Theorems about OrderContract, for any tickers, words, quantities and    *)
(* width of INTEGER.  The four places that judge an order agree because    *)
(* the checks of CreateOrder are made of the normal form that is stored:   *)
(* it satisfies the CHECK constraints, apart from the width, and Validate. *)
(***************************************************************************)
EXTENDS OrderContract, TLAPS

-----------------------------------------------------------------------------
(* The normal form of a request has the type of a request, and nothing but the
   spelling of its texts is new. *)
LEMMA NormalForm ==
  ASSUME NEW r \in Request
  PROVE  /\ Normalised(r) \in Request
         /\ Normalised(r).assetSymbol = [r.assetSymbol EXCEPT !.upper = TRUE, !.padded = FALSE]
         /\ Normalised(r).side = [r.side EXCEPT !.upper = TRUE]
         /\ Normalised(r).executionType = [r.executionType EXCEPT !.upper = TRUE]
         /\ Normalised(r).quantity = r.quantity
         /\ Normalised(r).limitPrice = r.limitPrice
<1>1. /\ r.assetSymbol \in Text(Tickers) /\ r.side \in Text(Sides)
      /\ r.executionType \in Text(ExecutionTypes)
  BY DEF Request
<1>2. ASSUME NEW words, NEW t \in Text(words)
      PROVE  ToUpper(t) \in Text(words) /\ TrimSpace(t) \in Text(words)
  BY <1>2 DEF Text, ToUpper, TrimSpace
<1>3. ToUpper(TrimSpace(r.assetSymbol)) = [r.assetSymbol EXCEPT !.upper = TRUE, !.padded = FALSE]
  BY <1>1 DEF Text, ToUpper, TrimSpace
<1>4. Normalised(r) = [r EXCEPT !.assetSymbol = ToUpper(TrimSpace(r.assetSymbol)),
                                !.side = ToUpper(r.side),
                                !.executionType = ToUpper(r.executionType)]
  BY DEF Normalised, Request
<1>5. /\ ToUpper(TrimSpace(r.assetSymbol)) \in Text(Tickers)
      /\ ToUpper(r.side) \in Text(Sides)
      /\ ToUpper(r.executionType) \in Text(ExecutionTypes)
  BY <1>1, <1>2
<1>6. /\ Normalised(r) \in Request
      /\ Normalised(r).assetSymbol = ToUpper(TrimSpace(r.assetSymbol))
      /\ Normalised(r).side = ToUpper(r.side)
      /\ Normalised(r).executionType = ToUpper(r.executionType)
      /\ Normalised(r).quantity = r.quantity
      /\ Normalised(r).limitPrice = r.limitPrice
  BY <1>4, <1>5 DEF Request
<1> QED
  BY <1>3, <1>6 DEF ToUpper

(* What CreateOrder accepts is a valid event, satisfies the constraints of the
   table if its quantity fits, and has a price if its symbol is known. *)
LEMMA AcceptableAgreed ==
  ASSUME NEW r \in Request, Acceptable(r)
  PROVE  /\ ValidEvent(Normalised(r))
         /\ SchemaAllows(Normalised(r)) <=> r.quantity <= MaxInteger
         /\ HasPrice(Normalised(r)) <=> r.assetSymbol.word \in KnownSymbols
<1> DEFINE o == Normalised(r)
<1>1. /\ o.quantity = r.quantity /\ r.quantity > 0
      /\ IsValidSide(o.side) /\ IsValidExecutionType(o.executionType) /\ PriceFits(o)
  <2>1. o.quantity = r.quantity /\ r.quantity > 0
    BY NormalForm DEF Acceptable
  <2>2. IsValidSide(o.side) /\ IsValidExecutionType(o.executionType) /\ PriceFits(o)
    BY DEF Acceptable
  <2> QED
    BY <2>1, <2>2
<1>2. /\ o.assetSymbol.word = r.assetSymbol.word
      /\ o.assetSymbol.upper /\ ~o.assetSymbol.padded
  <2>1. r.assetSymbol \in Text(Tickers)
    BY DEF Request
  <2> QED
    BY <2>1, NormalForm DEF Text
<1>3. r.assetSymbol.word \in Tickers
  <2>1. ToUpper(TrimSpace(r.assetSymbol)).word = r.assetSymbol.word
    BY DEF Request, Text, ToUpper, TrimSpace
  <2> QED
    BY <2>1 DEF Acceptable, MatchesPattern
<1>4. ValidEvent(o)
  BY <1>1, <1>2, <1>3, ContractAssumption DEF ValidEvent, PriceFits
<1>5. SchemaAllows(o) <=> r.quantity <= MaxInteger
  BY <1>1 DEF SchemaAllows, FitsInteger
<1>6. HasPrice(o) <=> r.assetSymbol.word \in KnownSymbols
  BY <1>2 DEF HasPrice, Plain
<1> QED
  BY <1>4, <1>5, <1>6

-----------------------------------------------------------------------------
(* The row of an accepted order is the normal form of its request. *)
RowNormalised ==
  stage \notin {"received", "400", "500"} =>
    Acceptable(req) /\ row = Normalised(req) /\ req.quantity <= MaxInteger

(* The event is a copy of the row. *)
EventFromRow == stage \notin {"received", "400", "500", "stored"} => event = row

(* What each outcome means. *)
OutcomesMean ==
  /\ stage = "executed" => execution = req.quantity
  /\ stage = "unknownSymbol" => req.assetSymbol.word \notin KnownSymbols

ContractInv ==
  /\ TypeOK /\ RowNormalised /\ EventFromRow /\ OutcomesMean
  /\ AcceptedEventValid /\ RefusedByWidthOnly

(* It holds of every request, *)
LEMMA ContractInit == Init => ContractInv
BY DEF Init, ContractInv, TypeOK, Stage, RowNormalised, EventFromRow, OutcomesMean,
       AcceptedEventValid, RefusedByWidthOnly

(* and after every step. *)
LEMMA ContractStep == ContractInv /\ [Next]_vars => ContractInv'
<1> SUFFICES ASSUME ContractInv, [Next]_vars
             PROVE  ContractInv'
  OBVIOUS
<1>0. /\ req \in Request /\ row \in Request /\ event \in Request
      /\ execution \in Quantities \cup {0} /\ Normalised(req) \in Request
      /\ req.quantity \in Quantities
  BY NormalForm DEF ContractInv, TypeOK, Request
<1> USE DEF ContractInv, TypeOK, Stage, RowNormalised, EventFromRow, OutcomesMean,
            AcceptedEventValid, RefusedByWidthOnly
<1>1. CASE RejectRequest
  BY <1>0, <1>1 DEF RejectRequest, BadRequest
<1>2. CASE StoreOrder
  <2>1. Acceptable(req) /\ (SchemaAllows(Normalised(req)) <=> req.quantity <= MaxInteger)
    BY <1>0, <1>2, AcceptableAgreed DEF StoreOrder
  <2>2. req.quantity <= MaxInteger \/ req.quantity > MaxInteger
    <3>1. MaxInteger \in Nat /\ Quantities \subseteq Int
      BY ONLY ContractAssumption
    <3>2. req.quantity \in Int
      BY ONLY <1>0, <3>1
    <3> QED
      BY ONLY <3>1, <3>2
  <2>3. /\ stage = "received" /\ UNCHANGED <<req, event, execution>>
        /\ \/ /\ req.quantity <= MaxInteger /\ stage' = "stored"
              /\ row' = Normalised(req)
           \/ req.quantity > MaxInteger /\ stage' = "500" /\ row' = row
    BY <1>2, <2>1, <2>2 DEF StoreOrder
  <2>4. CASE stage' = "stored"
    BY <1>0, <2>1, <2>3, <2>4
  <2>5. CASE stage' = "500"
    BY <1>0, <2>3, <2>5
  <2> QED
    BY <2>3, <2>4, <2>5
<1>3. CASE PublishEvent
  BY <1>0, <1>3 DEF PublishEvent
<1>4. CASE HandleEvent
  <2>1. /\ stage = "published" /\ event = Normalised(req) /\ Acceptable(req)
        /\ req.quantity <= MaxInteger
    BY <1>4 DEF HandleEvent
  <2>2. /\ ValidEvent(event) /\ event.quantity = req.quantity
        /\ HasPrice(event) <=> req.assetSymbol.word \in KnownSymbols
    BY <1>0, <2>1, AcceptableAgreed, NormalForm
  <2>3. FitsInteger(event.quantity)
    BY <2>1, <2>2 DEF FitsInteger
  <2> QED
    BY <1>0, <1>4, <2>1, <2>2, <2>3 DEF HandleEvent, Ends
<1>5. CASE UNCHANGED vars
  BY <1>0, <1>5 DEF vars
<1> QED
  BY <1>1, <1>2, <1>3, <1>4, <1>5 DEF Next

(* It holds in every state. *)
LEMMA ContractInvariant == Spec => []ContractInv
BY ContractInit, ContractStep, PTL DEF Spec

(* The order keeps the shape of a request on its whole way. *)
THEOREM ContractTypeCorrect == Spec => []TypeOK
BY ContractInvariant, PTL DEF ContractInv

(* Whatever CreateOrder accepts, the consumer accepts and can write. *)
THEOREM AcceptedIsValid == Spec => []AcceptedEventValid
BY ContractInvariant, PTL DEF ContractInv

(* An accepted order of a known symbol is executed in the quantity that was
   asked for, however the request was spelled. *)
THEOREM KnownIsExecuted == Spec => []KnownSymbolExecuted
<1>1. ContractInv => KnownSymbolExecuted
  BY DEF ContractInv, TypeOK, Stage, Final, OutcomesMean, AcceptedEventValid,
         KnownSymbolExecuted
<1> QED
  BY <1>1, ContractInvariant, PTL

(* Of the requests CreateOrder accepts the table refuses only those whose
   quantity is too wide for its column. *)
THEOREM TableRefusesByWidth == Spec => []RefusedByWidthOnly
BY ContractInvariant, PTL DEF ContractInv
=============================================================================
