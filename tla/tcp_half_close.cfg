CONSTANTS
  SeqBits = 3
  ISS = 5
  PeerISS = 6
  PeerLen = 2
  SendLen = 2
  Windows = {0, 2}
  NetCap = 2
  MaxRetx = 1
  Ordered = TRUE
  AckAfterFin = TRUE
  t1 = t1
  Threads <- MCThreads
SPECIFICATION Spec
INVARIANT FinMeansStreamComplete
CHECK_DEADLOCK FALSE
