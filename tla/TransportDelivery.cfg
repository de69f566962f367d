CONSTANTS
  MaxId = 40
  IdReserve = 1
  WndMaxCount = 2
  MaxFails = 2
  Extra = {TRUE}
  CanExit = TRUE
  ResetWrap = 20
  IdBound = 5
  MaxAccepted = 3
  MaxRestarts = 0
SPECIFICATION Spec
INVARIANTS WindowIsReported ReportCoversWindow IdsFollowQueue HelloIsAnswered ByeAfterDelivery DispatchedOnce
PROPERTIES KeepsPromise
CHECK_DEADLOCK FALSE
