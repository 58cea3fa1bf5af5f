CONSTANTS
  ErrorThreshold = 3
  HardErrorThreshold = 2
  PollInterval = 1
  RetryInterval = 2
  dcgm_available = TRUE
  MaxErrors = 5
SPECIFICATION HistorySpec
INVARIANTS StatusMatchesCounters RetryRate
PROPERTIES ExposedErrorsMonotone StopLeadsToExit ReadyEventually RecoversWithDriver
