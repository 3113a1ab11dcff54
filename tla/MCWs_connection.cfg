\* Requests of which one is malformed, one permit, more events than bus and queue hold.
CONSTANTS
  AdapterEcho = AdapterEcho
  Requests = {q1, q2, q3}
  Malformed = {q3}
  Protocols = {"v11", "v12", "satori", "reverse"}
  QueueCapacity = 1
  MaxInFlight = 1
  BusCapacity = 2
  MaxEvents = 3
SPECIFICATION FairSpec
CHECK_DEADLOCK FALSE
INVARIANTS
  EventsInOrder
  EventsAccounted
  AnsweredOnce
PROPERTIES
  ClosedIsCleaned
  ReadIsAnswered
