\* openapi.yaml against the code: POST /orders with a large quantity.
SPECIFICATION Spec
CONSTANTS
  Tickers = {"PETR4", "BOVA11"}
  KnownSymbols = {"PETR4"}
  OtherWords = {"other"}
  Quantities = {0, 1, 3, 4}
  MaxInteger = 3
INVARIANT
  DocumentedAnswers
