CONSTANTS
  MaxId = 40
  IdReserve = 1
  WndMaxCount = 2
  MaxFails = 1
  Extra = {FALSE}
  CanExit = FALSE
  ResetWrap = 20
  IdBound = 5
  MaxAccepted = 2
  MaxRestarts = 1
SPECIFICATION Spec
INVARIANTS WaitingHasControl
PROPERTIES LossIsAnnounced
