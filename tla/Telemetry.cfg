CONSTANTS
  Threads = {A, B}
  NoThread = NoThread
  Names = {x, y, z}
  MaxCounters = 2
  MaxResets = 2
  MaxStream = 4
SPECIFICATION Spec
INVARIANTS MarksAreTrue FreshIsDescribed
CHECK_DEADLOCK FALSE
