CONSTANTS
  SeqBits = 3
  ISS = 5
  PeerISS = 6
  PeerLen = 0
  SendLen = 1
  Windows = {1}
  NetCap = 2
  MaxRetx = 0
  Ordered = TRUE
  AckAfterFin = TRUE
  t1 = t1
  Threads <- MCThreads
SPECIFICATION Spec
PROPERTY LastAckClosesOnFinAck
CHECK_DEADLOCK FALSE
