CONSTANTS
  a = a
  b = b
  h = h
  t1 = t1
  t2 = t2
  t3 = t3
  Repos = {h}
  HostPaths = {h}
  Tasks = {t3}
  RepoOf <- RepoOfTask
  Grace = 0
  Ttl = 1
  MaxAge = 2
  MaxCrashes = 0
  Faults = {}
SPECIFICATION Spec
PROPERTIES
  HostPathsAreKept
