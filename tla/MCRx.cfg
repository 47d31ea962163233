CONSTANTS
  a = a
  b = b
  c = c
  e = e
  g = g
  None = None
  RX_SLOTS = 3
  RX_WORDS = 16
  UDP_SOCKS = 1
  UDP_QLEN = 2
  NoDgram <- MCNoDgram
  BufSize = 2
  Count <- MCCount
  Loads <- MCLoads
  Summed <- MCSummed
  Shape <- MCShape
  MaxFaults = 1
  MaxOpens = 1
SPECIFICATION Spec
INVARIANTS
  TypeOK
  RingInOrder
  InOrderIsDelivered
  QueueInOrder
 
CHECK_DEADLOCK FALSE
