\* A connection lost again after an automatic reconnect.
CONSTANTS
  None = None
  Starter = k1
  Connectors = {k1}
  Conns = {c1, c2}
  Monitors = {m1, m2}
  Calls = {}
  Cancellable = {}
SPECIFICATION FairSpec
CHECK_DEADLOCK FALSE
PROPERTY
  EveryLossRepaired
