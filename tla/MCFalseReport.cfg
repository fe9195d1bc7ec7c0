\* One request and one graceful shutdown, no fault: the log of awaitReturn.
SPECIFICATION PublisherSpec
CONSTANTS
  o1 = o1
  Orders = {o1}
  Bodies = {"valid"}
  UnknownSymbols = {}
  Consumers = {}
  MessageIds = {1}
  MaxDeliveryAttempts = 3
  ChannelMax = 2
  MaxApiFaults = 0
  MaxApiStops = 1
INVARIANT
  NoFalseReport
