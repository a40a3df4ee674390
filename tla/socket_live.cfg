CONSTANTS
  SeqBits = 3
  ISS = 5
  PeerISS = 6
  PeerLen = 1
  SendLen = 1
  Windows = {1}
  NetCap = 2
  MaxRetx = 0
  Ordered = TRUE
  AckAfterFin = TRUE
  t1 = t1
  t2 = t2
  Threads <- MCThreads
  AtomicWait = TRUE
  NonblockModes = {FALSE}
  ThreadOps <- MCOpsLive
  Hows = {0, 3}
  BufLen = 1
  MaxCalls = 2
  MaxConnects = 1
  Refusals = FALSE
SPECIFICATION FairSpec
PROPERTY ReadReturns PollReturns
CHECK_DEADLOCK FALSE
