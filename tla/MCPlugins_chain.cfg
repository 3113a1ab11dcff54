\* Three passes of two events and a request through a chain of at most two plugins.
CONSTANTS
  None = None
  Garbage = Garbage
  Names = {x, y}
  Events = {e1, e2}
  Requests = {r1}
  Paths = 2
  MaxPasses = 3
SPECIFICATION Spec
CHECK_DEADLOCK FALSE
SYMMETRY Symmetry
INVARIANTS
  ItemKept
  LeftoversTakenOnce
