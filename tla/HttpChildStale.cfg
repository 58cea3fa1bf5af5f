CONSTANTS
  GPU = {g1, g2}
  StaleMs = 1
  U64 = 64
  MaxTime = 3
  MaxInbox = 2
SPECIFICATION Spec

INVARIANT StaleMeansStale
CHECK_DEADLOCK FALSE
