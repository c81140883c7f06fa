SPECIFICATION Spec
CONSTANTS
  p1 = p1
  p2 = p2
  Procs <- TwoProcs
  Plans <- MCPlans
  Together = {{"kill"}}
INVARIANT SetupRecovers
