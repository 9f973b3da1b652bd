CONSTANTS
  Streams = {s1}
  MaxSeq = 2
  MayCrash = FALSE
  Faults = {}
  MaxLosses = 0
SPECIFICATION ClientSpec
INVARIANTS
  FinishedIsShown
CHECK_DEADLOCK FALSE
