CONSTANTS
  Threads = {A, B}
  NoThread = NoThread
  Traces = {x, y}
  Numbered = {}
  MaxTraces = 2
  Levels = {0}
  MaxResets = 3
  MaxSequence = 3
SPECIFICATION Spec
INVARIANTS DescribedFirst
CHECK_DEADLOCK FALSE
