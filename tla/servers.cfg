SPECIFICATION ServersSpec
CONSTANTS
  ESIX_MAX_SOCK = 4
  ESIX_QUEUE_DEPHT = 0
  FIRST_PORT = 79
  LAST_PORT = 84
  MAX_RETX_TIME = 0
  SeqMod = 1
  in6addr_any = any
  a1 = a1
  p1 = p1
  OwnAddrs <- MCOwnAddrs
  FirstAddr = a1
  Peers <- MCPeers
  Groups = {group}
  PeerPorts <- MCPeerPorts
  BindPorts <- MCPorts
  InPorts <- MCPorts
  InFlags <- MCInFlags
  SegNums = {0}
  Payloads <- MCPayloads
  Fds <- MCFds
  NoSock = none
  MaxChild = 2
  MaxTime = 1000
  Demos <- MCDemos
  exit <- MCExit
  text <- MCText
  MdnsGroup = group
  MaxSyns = 2
VIEW Relative
CHECK_DEADLOCK FALSE
INVARIANTS
  ServersListen
  SessionsHeld
PROPERTIES
  ComesToRest
