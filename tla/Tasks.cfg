CONSTANTS
  w1 = w1
  w2 = w2
  c1 = c1
  c2 = c2
  p1 = p1
  p2 = p2
  p3 = p3
  Workers <- MCWorkers
  Clients <- TwoClients
  Tasks <- ThreeTasks
  Programs <- Chains
  Connects = 3
  Chunks = 2
  Talks <- MCUses
  MaxReconnects = 3
SPECIFICATION FairAll
INVARIANTS Accounting StopWaitAllDrains Chained Connections
PROPERTIES QuietAfterStop ImplementsExecutor Progress ImplementsTransport OthersProgress
CHECK_DEADLOCK FALSE
