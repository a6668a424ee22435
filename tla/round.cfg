CONSTANTS
  N = 5
  ThreadCounts = {2, 3}
  Labelings <- ManyLabels
  NumSamples = 3
SPECIFICATION FairSpec
INVARIANTS
  TypeOK
  InstructionsRight
  GlobalsComplete
  NoWildAccess
PROPERTIES
  RoundsImplemented
