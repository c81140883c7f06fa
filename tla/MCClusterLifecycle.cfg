SPECIFICATION FairSpec
CONSTANTS
  Clusters = {c1, c2}
  NoCluster = NoCluster
  Cases <- MCAwaited
  CleanupModes <- MCTwoModes
  Faults <- MCAwaitedFaults
INVARIANTS
  TypeOK
  ShutdownUnderLock
PROPERTIES
  EveryClusterEnds
