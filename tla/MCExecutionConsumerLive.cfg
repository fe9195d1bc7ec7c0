\* One order, whose event may be of any kind and which may have no row, two
\* consumers, one fault and two shutdowns: liveness.
SPECIFICATION FairSpec
CONSTANTS
  o1 = o1
  c1 = c1
  c2 = c2
  Orders = {o1}
  Ghosts = {o1}
  Bodies = {"valid", "malformed", "unknownSymbol"}
  Consumers = {c1, c2}
  MessageIds = {1, 2, 3, 4}
  MaxDeliveryAttempts = 2
  NoMessage = NoMessage
  MaxFaults = 1
  MaxStops = 2
INVARIANT
  InvalidEventNotRetried
PROPERTIES
  EventResolved
  ShutdownCompletes
