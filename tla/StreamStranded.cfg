CONSTANTS
  Streams = {s1}
  MaxSeq = 2
  MayCrash = FALSE
  Faults = {}
SPECIFICATION FairSpec
PROPERTIES
  StreamsEnd
CHECK_DEADLOCK FALSE
