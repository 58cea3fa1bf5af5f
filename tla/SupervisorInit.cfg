CONSTANTS
  GPU = {g1}
  MaxSpawns = 3
  SocketRoom = 1
SPECIFICATION Spec
INVARIANT InitComesFirst
CHECK_DEADLOCK FALSE
