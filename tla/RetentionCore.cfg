CONSTANTS
  a = a
  b = b
  h = h
  t1 = t1
  t2 = t2
  t3 = t3
  Repos = {a, b, h}
  HostPaths = {h}
  Tasks = {t1, t2, t3}
  RepoOf <- RepoOfTask
  Grace = 0
  Ttl = 1
  MaxAge = 2
  MaxCrashes = 1
  Faults = {"insert"}
SPECIFICATION FairSpec
INVARIANTS
  TypeOK
  DeletedIsGone
  OnlyLostUploadsLeak
PROPERTIES
  NeverPulledOut
  AdmittedHasRepo
  SpaceIsFreed
