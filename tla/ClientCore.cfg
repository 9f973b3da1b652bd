CONSTANTS
  Streams = {s1}
  MaxSeq = 3
  MayCrash = TRUE
  Faults <- AllFaults
  MaxLosses = 1
SPECIFICATION FairClientSpec
INVARIANTS
  ClientTypeOK
  InOrderOnce
  ViewInOrder
  ClosedIsComplete
PROPERTIES
  ViewNeverGoesBack
  ViewConverges
CHECK_DEADLOCK FALSE
