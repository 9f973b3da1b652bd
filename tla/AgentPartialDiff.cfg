CONSTANTS
  Paths = {p1, p2}
  Contents = {c1}
  Absent = Absent
  MaxBlocks = 1
  MaxDisturbances = 0
  Faults = {}
SPECIFICATION Spec
PROPERTIES
  DiffNamesEveryChange
CHECK_DEADLOCK FALSE
