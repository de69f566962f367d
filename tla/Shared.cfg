CONSTANTS
  Objects = {o1, o2}
  Calls = {c1, c2}
  None = None
  Interrupts = {o2}
  Garbage = {0, 1}
SPECIFICATION FairSpec
INVARIANTS NameIsKept LockedReadIsTrue
PROPERTIES CloseEnds
CHECK_DEADLOCK FALSE
