CONSTANTS
  Worker = {w1}
  Update = {1}
  GutterCap = 1
  QueueCap = 1
  MaxFlush = 2
  SpuriousWakeups = FALSE
  Free = Free
SPECIFICATION FairSpec
PROPERTIES FlushReturns
CHECK_DEADLOCK FALSE
