\* Four events of two adapters through a bus of one place, half-days, one day of retention.
CONSTANTS
  a1 = a1
  a2 = a2
  e1 = e1
  e2 = e2
  e3 = e3
  Adapters = {a1, a2}
  Events = {e1, e2, e3}
  Messages = {e1, e3}
  Sends <- MCSends
  TimeOf <- MCTimeOf
  BusCapacity = 1
  PartsPerDay = 2
  MaxDays = 1
  Now = {0, 4}
SPECIFICATION FairSpec
CHECK_DEADLOCK FALSE
INVARIANTS
  OnceInOrder
  MessagesAccounted
  PagingSkipsNothing
PROPERTIES
  RetentionKept
  EventuallySettled
