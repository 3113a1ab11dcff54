\* Two forwarding tasks, sweeps rarer than the window, readings up to two ticks old.
CONSTANTS
  Nothing = Nothing
  Tasks = {t1, t2}
  Events <- Messages
  Window = 3
  MinInterval = 4
  MaxDelay = 2
  MaxClock = 9
SPECIFICATION FilterSpec
SYMMETRY Symmetry
CHECK_DEADLOCK FALSE
INVARIANTS
  FilterTypeOK
  SweepIsComplete
PROPERTY
  ImplementsOncePerWindow
