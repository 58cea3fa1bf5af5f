CONSTANTS
  GPU = {g1}
  MaxSpawns = 3
  SocketRoom = 1
SPECIFICATION FairSpec
INVARIANTS DescriptorsAccounted OneChildAtATime CleanExit
PROPERTIES ShutdownCompletes ChildDiesWithParent ServiceRestored
CHECK_DEADLOCK FALSE
