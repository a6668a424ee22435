CONSTANTS
  N = 3
  Thread = {t1, t2}
  Priorities <- WithTies
  MaxMerges = 4
  NoCall = NoCall
SPECIFICATION FairSpec
INVARIANTS
  TypeOK
  Climbing
  TreesAreComponents
  RootsAccount
  LabelsCountComponents
PROPERTIES
  MergeIsAtomic
  CallsReturn
