\* DECISIONS.md, ADR-009, against the code: one consumer, one fault,
\* and a database that answers every call.
SPECIFICATION HealthyDatabaseSpec
CONSTANTS
  o1 = o1
  c1 = c1
  Orders = {o1}
  Ghosts = {}
  Consumers = {c1}
  Bodies = {"valid"}
  MessageIds = {1, 2, 3, 4}
  MaxDeliveryAttempts = 3
  NoMessage = NoMessage
  MaxFaults = 1
  MaxStops = 0
PROPERTY
  DuplicateNeverDeadLettered
