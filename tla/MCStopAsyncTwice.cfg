SPECIFICATION Spec
CONSTANTS
  Clusters = {c1, c2}
  NoCluster = NoCluster
  Cases <- MCWorkerStopAsync
  CleanupModes <- MCTwoModes
  Faults <- MCNoFaults
INVARIANTS
  NoDuplicateShutdown
