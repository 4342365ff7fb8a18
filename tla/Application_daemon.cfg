CONSTANTS
  t1 = t1
  t2 = t2
  A = A
  B = B
  C = C
  other = other
  Given <- Daemon
  Options <- LateOptions
  Lines <- TwoMeanings
  Threads <- Two
  QueueSize = 2
  MaxBytes = 0
  MaxItems = 2
  MaxEntries = 4
  MaxFlushes = 1
SPECIFICATION All
INVARIANT UpWhenBack
CHECK_DEADLOCK FALSE
