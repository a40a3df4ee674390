CONSTANTS
  SeqBits = 3
  ISS = 5
  PeerISS = 6
  PeerLen = 1
  SendLen = 1
  NetCap = 2
  MaxRetx = 0
  Ordered = TRUE
  AckAfterFin = TRUE
  t1 = t1
  t2 = t2
  Threads <- MCThreads
  NonblockModes = {FALSE}
  BufLen = 1
  Windows = {1}
  AtomicWait = TRUE
  ThreadOps <- MCOpsReaders
  Hows = {0}
  MaxCalls = 2
  MaxConnects = 1
  Refusals = FALSE
SPECIFICATION SockSpec
INVARIANT ErrorReportedOnce
CHECK_DEADLOCK FALSE
