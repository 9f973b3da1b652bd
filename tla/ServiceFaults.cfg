CONSTANTS
  t1 = t1
  t2 = t2
  t3 = t3
  t4 = t4
  u = u
  Tasks = {t1, t3, t4}
  Users = {u, t3, t4}
  Owner <- OwnerOf
  MaxConcurrent = 2
  MaxPerUser = 1
  MaxCrashes = 1
  Faults <- AllFaults
SPECIFICATION Spec
INVARIANTS
  AdmissionBound
  NoSilentQueue
  CutMeansError
PROPERTIES
  TerminalAbsorbing
CHECK_DEADLOCK FALSE
