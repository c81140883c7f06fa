SPECIFICATION FairSpec
CONSTANTS
  p1 = p1
  p2 = p2
  Procs <- TwoProcs
  Versions <- MCVersions
  Homes = {"h1"}
  Plans <- MCPlans
  Warm <- MCWarm
  Together <- MCTogether
  Repeat = FALSE
INVARIANTS
  TypeOK
  CompleteIsWhole
  ServedTreeIsWhole
PROPERTIES
  ReadsAreStable
  FailureHasCause
  ImplementsEntryCache
  EveryRunEnds
