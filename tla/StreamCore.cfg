CONSTANTS
  Streams = {s1, s2}
  MaxSeq = 3
  MayCrash = TRUE
  Faults = {}
SPECIFICATION FairSpec
INVARIANTS
  TypeOK
  Gapless
  CompleteWhenEnded
PROPERTIES
  ImplementsFeed
  EventuallyCaughtUp
CHECK_DEADLOCK FALSE
