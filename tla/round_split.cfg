CONSTANTS
  N = 18
  ThreadCounts = {14}
  Labelings <- OnePair
  NumSamples = 2
SPECIFICATION SerialSpec
INVARIANTS
  SampledWhole
CHECK_DEADLOCK FALSE
