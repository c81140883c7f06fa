SPECIFICATION Spec
CONSTANTS
  Clusters = {c1, c2}
  NoCluster = NoCluster
  Cases <- MCAllCases
  CleanupModes <- MCFullOrNone
  Faults <- MCAllFaults
SYMMETRY MCSymmetry
INVARIANTS
  ReadyMeansUp
  ServerLeftOnlyByFailure
  OrphanOnlyByFailure
  OnlyDetachedJobsOverlap
  NothingLeftBehind
PROPERTIES
  ImplementsLease
