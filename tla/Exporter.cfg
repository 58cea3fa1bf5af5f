CONSTANTS
  Gpu = g
  ErrorThreshold = 1
  HardErrorThreshold = 1
  PollInterval = 1
  RetryInterval = 2
  dcgm_available = TRUE
  MaxErrors = 1
  StaleMs = 1
  U64 = 64
  MaxTime = 2
  MaxInbox = 1
  MaxRespawns = 1
SPECIFICATION FairExporterSpec
INVARIANT NothingLostOnTheWay
PROPERTIES PollThreadAsSpecified ReadyComesBack StuckIsNoticed
CHECK_DEADLOCK FALSE
