CONSTANTS
  GPU = {g1, g2}
  StaleMs = 1
  U64 = 64
  MaxTime = 2
  MaxInbox = 2
SPECIFICATION FairSpec
INVARIANTS MetricsCompleteOnceReady LiveIsJustified
PROPERTIES SlotsNeverRegress SnapshotsReachSlots ChildExits
CHECK_DEADLOCK FALSE
