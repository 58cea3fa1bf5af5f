CONSTANTS
  Sample = {1, 2}
  NoSample = 0
  Capacity = 3
  MaxPolls = 2
  Milli = 1000
  IntBlank = 10000
  U32Max = 4095
  U64Max = 65535
  NotANumber = NotANumber
  cfg <- MCcfg
  StackSamples = 19
  Domain <- MCDomain
  Temps = {70, 85}
  MaxTime = 21
  MaxEvents = 2
SPECIFICATION MCSpec
CONSTRAINT Bounds
INVARIANTS ShownAsReported ReasonsExplainScore CriticalNeverHealthy
INVARIANTS DbeReportedExactly P95IsNearestRank ScoredMeansRegular
PROPERTIES ImplementsWindow WorseNeverHelps
CHECK_DEADLOCK FALSE
