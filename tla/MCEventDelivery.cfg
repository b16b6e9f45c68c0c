CONSTANTS
  c1 = c1
  p1 = p1
  p2 = p2
  Contexts = {c1}
  Clients = {p1, p2}
  ContextOf <- OneContext
  Priority <- SomePriority
  Factory = factory
  Monitor = monitor
  Nothing = nothing
  Producers = {udev, timer}
  MaxEvents = 2
SPECIFICATION FairSpec
INVARIANTS FactoryFirst PriorityFirst
PROPERTIES ImplementsBroadcast EventsArrive
