CONSTANTS
  Data = {1, 2, 3, 4, 5, 6, 7, 8, 9, 10, 104}
  KeyOf <- TheKeyOf
  Nil = Nil
  NoData = NoData
  NodeSegment = 3
  MaxNodeSegments = 3
  Values = {u, v}
  Null = Null
  CellSegment = 2
  MaxCellSegments = 2
  MaxExtracted = 1
  IndexReserve = 0
  Users = {p, q}
  Addresses = {a, b}
  NoAddress = NoAddress
  TickModulus = 8
  TimeOutMin = 1
  TimeOutMax = 4
  Durations = {3, 6}
  Pieces <- ManualPieces
  MaxPieces = 3
  PointerSize = 4
  ArgsReserve = 2
  ChunksReserve = 5
  MaxReportId = 18
  Bytes = 2
  MaxMarked = 2
  Packets = 3
  ExitTimeout = 2
  MaxOwners = 2
SPECIFICATION Spec
INVARIANTS
  TreeIsSound
  ListIsSound
  TimeOutTracksSlowest
  ArgumentsArrive
  ReportIsTrue
  MadeWhileUsed
PROPERTIES
  TreeIsDictionary
  ListIsSequence
  EachIsLookedUp
  DestructionEnds
