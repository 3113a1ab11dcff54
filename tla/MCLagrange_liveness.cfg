\* Liveness with one management task; no symmetry.
CONSTANTS
  None = None
  Starter = k1
  Connectors = {k1, k2}
  Conns = {c1, c2, c3}
  Monitors = {m1, m2}
  Calls = {q1}
  Cancellable = {}
SPECIFICATION FairSpec
CHECK_DEADLOCK FALSE
PROPERTIES
  LossRepaired
  EveryCallReturns
