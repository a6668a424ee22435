CONSTANTS
  Worker = {w1, w2}
  Update = {1, 2, 3, 4}
  GutterCap = 2
  QueueCap = 1
  MaxFlush = 2
  SpuriousWakeups = TRUE
  Free = Free
SPECIFICATION FairSpec
INVARIANTS
  TypeOK
  QueryQuiescent
  NoUpdateLostOrDoubled
  FirstFlushComplete
PROPERTIES
  FirstFlushReturns
  
CHECK_DEADLOCK FALSE
