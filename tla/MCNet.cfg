SPECIFICATION Spec
CONSTANTS
  None = None
  NoDgram <- MCNoDgram
  NCACHE = 2
  NS_TRIES = 2
  RS_TRIES = 1
  Callers = {"sh", "pr"}
  UDP_SOCKS = 1
  UDP_QLEN = 2
  Scripts <- MCScripts
  Servers = {"s1", "s2"}
  Hosts6 = {"h3", "r6", "f6"}
  Routers6 = {"r6"}
  Default = "s0"
  Far = {"f6", "f4"}
  Zone <- MCZone
  NameLen <- MCNameLen
  DISCOVERS = 2
  HOPS = 2
  TRIES = 2
  DNS_CACHE = 1
INVARIANTS
  TypeOK
  
  LeaseMatches
  PingMatches
  

  
CHECK_DEADLOCK FALSE
