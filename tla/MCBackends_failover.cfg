\* A call and two overlapping operations on the account, the fallback with a template.
CONSTANTS
  None = None
  Sides = {"primary", "fallback"}
  Templated = {"fallback"}
  Calls = {q1}
  Admins = {j1, j2}
SPECIFICATION Spec
CHECK_DEADLOCK FALSE
INVARIANTS
  ExecutionsExplained
  FailsOver
  ConnectedIsOpen
