\* Two concurrent requests that share one channel, two faults, one graceful
\* shutdown.
SPECIFICATION PublisherSpec
CONSTANTS
  o1 = o1
  o2 = o2
  Orders = {o1, o2}
  Bodies = {"valid"}
  UnknownSymbols = {}
  Consumers = {}
  MessageIds = {1, 2}
  MaxDeliveryAttempts = 3
  ChannelMax = 1
  MaxApiFaults = 2
  MaxApiStops = 1
INVARIANTS
  PublisherTypeOK
  StrandedOnlyByFaultOrBurst
PROPERTIES
  ImplementsApi
  LossStopsApi
  RequestsEnd
  ChannelsReturn
