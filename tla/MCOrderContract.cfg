\* Every shape of request; INTEGER ends at 3.
SPECIFICATION Spec
CONSTANTS
  Tickers = {"PETR4", "BOVA11"}
  KnownSymbols = {"PETR4"}
  OtherWords = {"other"}
  Quantities = {0, 1, 3, 4}
  MaxInteger = 3
INVARIANTS
  AcceptedEventValid
  KnownSymbolExecuted
  RefusedByWidthOnly
