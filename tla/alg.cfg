CONSTANTS
  N = 3
  Thread = {t1, t2}
  NumSamples = 3
  WriteUnflushed = FALSE
  NoFile = NoFile
  MaxUpdates = 6
SPECIFICATION FairSpec
INVARIANTS
  TypeOK
  AnswerRight
  ForestRight
  FlagsAgree
  SketchesTrackGraph
  SamplesFresh
  SupernodesDouble
  BoruvkaSound
PROPERTIES
  QueryReturns
CHECK_DEADLOCK FALSE
