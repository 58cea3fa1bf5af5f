CONSTANTS
  NaN = NaN
  Garbage = Garbage
  Unset = Unset
  NumGpus = 1
  MaxLines = 0
  EnvKey = {}
  Text = {80}
SPECIFICATION Spec
PROPERTY NoFileMeansDefaults
CHECK_DEADLOCK FALSE
