CONSTANTS
  t1 = t1
  Threads = {t1}
  QueueSize = 2
  MaxBytes = 0
  MaxItems = 2
  MaxEntries = 1
  MaxFlushes = 0
SPECIFICATION FairSpec
PROPERTY ShutdownReturns
CHECK_DEADLOCK FALSE
