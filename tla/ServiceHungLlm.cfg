CONSTANTS
  t1 = t1
  t2 = t2
  t3 = t3
  t4 = t4
  u = u
  Tasks = {t1}
  Users = {u}
  Owner <- OwnerOf
  MaxConcurrent = 1
  MaxPerUser = 1
  MaxCrashes = 0
  Faults = {"llm_hang"}
SPECIFICATION FairSpec
PROPERTIES
  HardCap
CHECK_DEADLOCK FALSE
