CONSTANTS
  t1 = t1
  t2 = t2
  A = A
  B = B
  C = C
  other = other
  Given <- AllPlans
  Options <- LateOptions
  Lines <- TwoMeanings
  Threads <- Two
  QueueSize = 2
  MaxBytes = 0
  MaxItems = 2
  MaxEntries = 3
  MaxFlushes = 1
SPECIFICATION FairAll
INVARIANTS Lifecycle EntryAccounting Settings Documents Measured
PROPERTY Ends
CHECK_DEADLOCK FALSE
