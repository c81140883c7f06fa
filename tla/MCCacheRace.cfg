SPECIFICATION Spec
CONSTANTS
  p1 = p1
  p2 = p2
  Procs <- TwoProcs
  Versions <- MCVersions
  Homes = {"h1"}
  Plans <- MCUnpinned
  Warm <- MCWarm
  Together <- MCNoFaults
  Repeat = FALSE
INVARIANT CacheNeverBlocks
