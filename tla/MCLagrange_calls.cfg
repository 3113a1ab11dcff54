\* Two calls over the connects, losses and disconnects of the start-up and a request.
CONSTANTS
  None = None
  Starter = k1
  Connectors = {k1, k2}
  Conns = {c1, c2, c3}
  Monitors = {m1, m2}
  Calls = {q1, q2}
  Cancellable = {q2}
SPECIFICATION Spec
SYMMETRY Symmetry
CHECK_DEADLOCK FALSE
INVARIANTS
  TypeOK
  AnswersMatch
  EntriesExplained
  ConnectedHasWriter
  DisconnectedIsClean
PROPERTY
  ImplementsApiCall
