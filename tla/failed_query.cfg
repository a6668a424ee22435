CONSTANTS
  N = 3
  Thread = {t1, t2}
  NumSamples = 2
  WriteUnflushed = FALSE
  NoFile = NoFile
  MaxUpdates = 4
SPECIFICATION Spec
INVARIANTS
  IngestsAfterQuery
SYMMETRY Symmetry
CHECK_DEADLOCK FALSE
