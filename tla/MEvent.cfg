CONSTANTS
  Threads = {A, B}
  Interrupts = {A}
  Count = 3
  MaxSem = 2
SPECIFICATION FairSpec
INVARIANTS NoneUnnoticed
PROPERTIES TimeOutIsTrue SetIsReturned
