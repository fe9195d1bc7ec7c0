\* DECISIONS.md, ADR-006, against the code: no fault, any start order.
SPECIFICATION PipelineSpec
CONSTANTS
  o1 = o1
  c1 = c1
  c2 = c2
  Orders = {o1}
  Ghosts = {}
  Consumers = {c1, c2}
  Bodies = {"valid"}
  UnknownSymbols = {}
  MessageIds = {1, 2, 3, 4}
  MaxDeliveryAttempts = 2
  NoMessage = NoMessage
  MaxFaults = 0
  MaxStops = 0
  MaxApiFaults = 0
  MaxApiStops = 1
INVARIANT
  StartOrderIrrelevant
