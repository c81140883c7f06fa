SPECIFICATION FairSpec
CONSTANTS
  p1 = p1
  p2 = p2
  Procs <- TwoProcs
  Plans <- MCPlans
  Together <- MCTogether
INVARIANTS
  TypeOK
  ReadyHasServer
  SetupLeavesWhole
  CleanupLeavesNothing
  NoStrayServer
  FailureHasCause
  StagedWorkerWhole
PROPERTIES
  ResetSparesMarker
  EveryProcessEnds
