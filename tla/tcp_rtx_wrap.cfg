CONSTANTS
  SeqBits = 3
  ISS = 5
  PeerISS = 6
  PeerLen = 2
  SendLen = 2
  Windows = {0, 2}
  NetCap = 2
  MaxRetx = 1
  Ordered = FALSE
  AckAfterFin = TRUE
  t1 = t1
  Threads <- MCThreads
SPECIFICATION Spec
INVARIANT RtxCoversUnacked
CHECK_DEADLOCK FALSE
