\* A call of an account one of whose backends may not be reachable.
CONSTANTS
  None = None
  Sides = {"primary", "fallback"}
  Templated = {"fallback"}
  Calls = {q1}
  Admins = {j1}
SPECIFICATION Spec
CHECK_DEADLOCK FALSE
INVARIANTS
  UnreachableFailsOver
