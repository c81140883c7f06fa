SPECIFICATION FairSpec
CONSTANTS
  t1 = t1
  t2 = t2
  t3 = t3
  schema = schema
  seeded = seeded
  demo = demo
  d1 = d1
  d2 = d2
  s1 = s1
  s2 = s2
  s3 = s3
  None = None
  Threads <- Tests3
  Templates <- MCTemplates
  Names = {d1, d2}
  Shards = {s1, s2, s3}
  Needs <- MCNeeds
  Plans <- MCPlans
  Faults = {"start", "late", "setup", "die", "leak", "early_exit"}
INVARIANTS
  TypeOK
  StartFailureHasCause
  DatabaseIsUsable
  ExitLeavesNothing
PROPERTIES
  EveryTestEnds
