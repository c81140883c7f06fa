SPECIFICATION FairSpec
CONSTANTS
  Clusters = {c1, c2}
  NoCluster = NoCluster
  Cases <- MCInProcessSync
  CleanupModes <- MCNone
  Faults <- MCNoFaults
INVARIANTS
  NoneRetainsData
