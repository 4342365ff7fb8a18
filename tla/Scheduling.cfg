CONSTANTS
  w1 = w1
  w2 = w2
  a = a
  b = b
  x = x
  y = y
  Workers <- TwoWorkers
  Timers <- TwoTimers
  Delays <- SomeIntervals
  Whens <- OneWhen
  MaxDelay = 9
  MaxTime = 2
  MaxRuns = 2
  StopFirst = TRUE
  Crons <- ThreeCrons
  CronTime = 3
  DogTime = 5
SPECIFICATION FairAll
INVARIANTS Scheduling OnSchedule
PROPERTIES CancelFinal OnTime BeginsRight
CHECK_DEADLOCK FALSE
