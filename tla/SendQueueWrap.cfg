CONSTANTS
  Cap = 2
  Reserve = 3
  MaxCount = 7
  SizeLimit = 7
  ChunkCount = 2
  WndMaxCount = 2
  Word = 64
  Sizes = {1, 3, 6}
  Backlogs = {4}
  MaxMessages = 4
SPECIFICATION Spec
INVARIANTS DataLeavesReserve
CHECK_DEADLOCK FALSE
