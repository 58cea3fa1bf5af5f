CONSTANTS
  GPU = {g1}
  ProbeTtl = 1
  MaxTime = 2
  MaxWrites = 2
  MaxRuns = 1
SPECIFICATION FairSpec
INVARIANTS NoLostReload StaleMeansExpired StartsFromOneRun
PROPERTY ReloadCatchesUp
CHECK_DEADLOCK FALSE
