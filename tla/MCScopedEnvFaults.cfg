SPECIFICATION Spec
CONSTANTS
  t1 = t1
  t2 = t2
  k1 = k1
  k2 = k2
  absent = absent
  v1 = v1
  NoThread = NoThread
  Untouched = Untouched
  Threads = {t1, t2}
  Keys = {k1}
  Values = {absent, v1}
  HostEnv <- MCHostEnv1
  MaxScopes = 2
  Faults <- MCAllFaults
INVARIANTS
  TypeOK
  DepthCoversOpenRecords
  CodeAssertions
PROPERTIES
  WritesUnderLock
  BaseOnlyLostToPanic
