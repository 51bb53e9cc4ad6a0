CONSTANTS
  c1 = c1
  c2 = c2
  Conn <- MCConn
  Calls <- MCCalls
  Starts = 3
  MaxBusy = 1
SPECIFICATION FairSpec
INVARIANTS
  ClosedAfterGrace
  StoppedBeforeClosed
PROPERTIES
  InterruptEnds
CHECK_DEADLOCK FALSE
