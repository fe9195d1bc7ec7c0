\* Two requests, one of an unknown symbol, one consumer; one fault on either
\* side and one shutdown of the API.
SPECIFICATION FairPipelineSpec
CONSTANTS
  o1 = o1
  o2 = o2
  c1 = c1
  Orders = {o1, o2}
  Ghosts = {}
  Consumers = {c1}
  Bodies = {"valid", "unknownSymbol"}
  UnknownSymbols = {o2}
  MessageIds = {1, 2, 3, 4, 5, 6}
  MaxDeliveryAttempts = 2
  NoMessage = NoMessage
  MaxFaults = 1
  MaxStops = 0
  MaxApiFaults = 1
  MaxApiStops = 1
INVARIANTS
  AcceptedAccounted
  HandledAfterRow
  ParkedForCause
PROPERTIES
  ImplementsLifecycle
  ImplementsConsumption
  AcceptedSettles
