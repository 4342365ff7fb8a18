CONSTANTS
  Parts <- AllParts
  s = s
  a = a
  c1 = c1
  c2 = c2
  q = q
  u = u
  host = host
  Conns <- TwoConns
  Messages <- TwoMessages
  SentBy <- Mixed
  KindOf <- Kinds
  MaxStarts = 2
  MaxNotify = 1
  MaxCuts <- OneStalls
  AcceptMayFail = TRUE
  Peers <- OneConn
  Lengths <- ThreeLengths
  MaxPacket = 2
  Timeout = 1
  Habits <- BothHabits
  MaxOpens = 2
  MaxSent = 2
  MaxTime = 2
  MaxQueue = 1
  Loads <- UpToTwo
  Uses <- NotBlocking
  Room = 2
  Asked <- UpToTwoFiles
  SyncCalls <- OneSync
  AsyncCalls <- OneAsync
  MaxConnects = 2
  Faults <- LossyTransport
SPECIFICATION FairAll
INVARIANTS CallAccounting ThreadAccounting Delivery
PROPERTIES SilentAfterStop Returns
CHECK_DEADLOCK FALSE
