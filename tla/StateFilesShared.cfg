CONSTANTS
  GPU = {g1, g2}
  ProbeTtl = 1
  MaxTime = 0
  MaxWrites = 2
  MaxRuns = 0
SPECIFICATION Spec
INVARIANT NoLostReload
CHECK_DEADLOCK FALSE
