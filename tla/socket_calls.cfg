CONSTANTS
  SeqBits = 3
  ISS = 5
  PeerISS = 6
  PeerLen = 1
  SendLen = 1
  Windows = {0, 1}
  NetCap = 1
  MaxRetx = 0
  Ordered = TRUE
  AckAfterFin = FALSE
  t1 = t1
  t2 = t2
  Threads <- MCThreads
  AtomicWait = TRUE
  NonblockModes = {FALSE, TRUE}
  ThreadOps <- MCOpsAll
  Hows = {0, 1, 2, 3}
  BufLen = 1
  MaxCalls = 2
  MaxConnects = 2
  Refusals = TRUE
SPECIFICATION SockSpec
SYMMETRY MCSymmetry
INVARIANT SockTypeOK
CHECK_DEADLOCK FALSE
