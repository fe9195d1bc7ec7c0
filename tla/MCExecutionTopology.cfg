\* Two consumers set up at once, one event and a retry
\* copy of it, two deletions and two crashes.
SPECIFICATION Spec
CONSTANTS
  o1 = o1
  c1 = c1
  c2 = c2
  Orders = {o1}
  Consumers = {c1, c2}
  MaxCopies = 1
  MaxDeletions = 2
  MaxCrashes = 2
INVARIANTS
  TypeOK
  TopologyReady
PROPERTIES
  EventsKept
  RoutedOnceBound
  SetupCompletes
