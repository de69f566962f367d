CONSTANTS
  Threads = {A, B}
  NoThread = NoThread
  Traces = {x, y, z}
  Numbered = {x}
  MaxTraces = 1
  Levels = {0, 1}
  MaxResets = 3
  MaxSequence = 4
SPECIFICATION Spec
INVARIANTS MarksAreTrue FreshIsDescribed StaleOncePerThread SequenceOrdered
PROPERTIES VerbosityObeyed
CHECK_DEADLOCK FALSE
