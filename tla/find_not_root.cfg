CONSTANTS
  N = 6
  Thread = {t1, t2}
  Priorities <- Distinct
  MaxMerges = 0
  NoCall = NoCall
SPECIFICATION BuiltSpec
INVARIANTS
  FindReturnsRoot
SYMMETRY Symmetry
