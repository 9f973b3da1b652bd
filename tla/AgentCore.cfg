CONSTANTS
  Paths = {p1, p2}
  Contents = {c1, c2}
  Absent = Absent
  MaxBlocks = 2
  MaxDisturbances = 1
  Faults <- FaultKinds
SPECIFICATION FairSpec
INVARIANTS
  TypeOK
  VerdictIsEarned
  RepairSeesLastFailure
  WithinRecursionLimit
  DiffIsTrue
PROPERTIES
  Terminates
CHECK_DEADLOCK FALSE
