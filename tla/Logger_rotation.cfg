CONSTANTS
  t1 = t1
  Threads = {t1}
  QueueSize = 2
  MaxBytes = 0
  MaxItems = 2
  MaxEntries = 3
  MaxFlushes = 0
SPECIFICATION Spec
INVARIANT RotationBounds
CHECK_DEADLOCK FALSE
