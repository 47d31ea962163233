SPECIFICATION Spec
CONSTANTS
  SOCKS = 2
  MSS = 2
  RING = 8
  OOO = 1
  TXQ = 2
  BACKLOG = 1
  MAX_RETRANS = 1
  KA_CNT = 1
  SYN_TRIES = 2
  SeqSpace = 64
  Iss <- MCIss
  MaxFaults = 0
  HTTPD_MAX = 2
  ReqLen = 1
  RespLen = 5
  MaxGets = 1
INVARIANT
  OneSlotPerConnection
CHECK_DEADLOCK FALSE
