CONSTANTS
  ErrorThreshold = 2
  HardErrorThreshold = 2
  PollInterval = 1
  RetryInterval = 2
  dcgm_available = TRUE
  MaxErrors = 3
SPECIFICATION FairSpec
PROPERTY OutageIsShown
