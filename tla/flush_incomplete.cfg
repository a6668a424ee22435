CONSTANTS
  Worker = {w1, w2}
  Update = {1, 2}
  GutterCap = 1
  QueueCap = 1
  MaxFlush = 2
  SpuriousWakeups = FALSE
  Free = Free
SPECIFICATION Spec
INVARIANTS FlushComplete
SYMMETRY Symmetry
CHECK_DEADLOCK FALSE
