CONSTANTS
  t1 = t1
  t2 = t2
  t3 = t3
  t4 = t4
  u = u
  Tasks = {t1, t2, t3}
  Users = {u, t3}
  Owner <- OwnerOf
  MaxConcurrent = 2
  MaxPerUser = 1
  MaxCrashes = 1
  Faults = {"exec_hang"}
SPECIFICATION FairSpec
INVARIANTS
  TypeOK
  AdmissionBound
  SandboxCeiling
  ActiveIsBacked
  TornDown
PROPERTIES
  Settles
CHECK_DEADLOCK FALSE
