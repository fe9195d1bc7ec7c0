SPECIFICATION Spec
CONSTANTS
  o1 = o1
  c1 = c1
  c2 = c2
  Orders = {o1}
  Ghosts = {}
  Consumers = {c1, c2}
  Bodies = {"valid", "unknownSymbol"}
  MessageIds = {1, 2, 3, 4, 5, 6}
  MaxDeliveryAttempts = 3
  NoMessage = NoMessage
  MaxFaults = 2
  MaxStops = 1
SYMMETRY Symmetry
INVARIANTS
  TypeOK
  OrderNotLost
  SettledOnce
  NoDuplicateWithoutFault
  DeadLetterJustified
  RetryBudget
PROPERTY
  NoNewWorkAfterSignal
