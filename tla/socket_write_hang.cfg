CONSTANTS
  SeqBits = 3
  ISS = 5
  PeerISS = 6
  PeerLen = 0
  SendLen = 2
  Windows = {1}
  NetCap = 2
  MaxRetx = 0
  Ordered = TRUE
  AckAfterFin = TRUE
  t1 = t1
  t2 = t2
  Threads <- MCThreads
  AtomicWait = TRUE
  NonblockModes = {FALSE}
  ThreadOps <- MCOpsWriter
  Hows = {0, 3}
  BufLen = 1
  MaxCalls = 2
  MaxConnects = 1
  Refusals = FALSE
SPECIFICATION WriteFairSpec
PROPERTY WriteReturns
CHECK_DEADLOCK FALSE
