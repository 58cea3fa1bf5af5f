CONSTANTS
  NaN = NaN
  Garbage = Garbage
  Unset = Unset
  NumGpus = 2
  MaxLines = 2
  EnvKey = {"temp_p95_warn_c", "retired_pages_warn"}
  Text = {0, 80, 90, NaN, Garbage}
SPECIFICATION FairSpec
INVARIANTS AcceptedIsOrdered ThreadsHaveTheirLibraries EndsInOrder
PROPERTIES ConfigAsDocumented TermEnds
CHECK_DEADLOCK FALSE
