CONSTANTS
  Objects = {o1, o2}
  Calls = {c1, c2}
  None = None
  Interrupts = {}
  Garbage = {0, 1}
SPECIFICATION Spec
INVARIANTS GotIsAlive
CHECK_DEADLOCK FALSE
