CONSTANTS
  Loop = Loop
  t1 = t1
  t2 = t2
  a = a
  b = b
  d = d
  e = e
  Threads <- TwoThreads
  Tasks <- TwoTasks
  DTasks <- TwoDelayed
  Fds <- OneFd
  WakeFd = 4
  Delays <- OneDelay
  MaxTime = 1
  MaxRuns = 1
SPECIFICATION LoadedSpec
INVARIANTS PollSet NoLostWakeup
PROPERTIES ImplementsExecutor Progress
