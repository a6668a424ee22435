CONSTANTS
  Worker = {w1, w2}
  Update = {1}
  GutterCap = 1
  QueueCap = 1
  MaxFlush = 1
  SpuriousWakeups = FALSE
  Free = Free
SPECIFICATION FairSpec
PROPERTIES DestructorReturns
CHECK_DEADLOCK FALSE
