CONSTANTS
  N = 2
  Thread = {t1}
  NumSamples = 2
  WriteUnflushed = TRUE
  NoFile = NoFile
  MaxUpdates = 1
SPECIFICATION Spec
INVARIANTS
  FileHoldsGraph
CHECK_DEADLOCK FALSE
