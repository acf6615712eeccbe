SPECIFICATION Spec
CONSTANTS
  ESIX_MAX_SOCK = 3
  ESIX_QUEUE_DEPHT = 1
  FIRST_PORT = 32
  LAST_PORT = 36
  MAX_RETX_TIME = 2
  SeqMod = 1
  in6addr_any = any
  f1 = f1
  f2 = f2
  a1 = a1
  p1 = p1
  g1 = g1
  x = x
  OwnAddrs <- MCOwnAddr
  FirstAddr = a1
  Peers <- MCPeers
  Groups = {}
  PeerPorts <- MCPeerPorts
  BindPorts <- MCBindPorts
  InPorts <- MCInPorts
  InFlags <- AllFlags
  SegNums = {0}
  Payloads = {}
  Fds <- MCFds
  NoSock = none
  MaxChild = 2
  MaxTime = 1000
SYMMETRY FdSymmetry
VIEW Table
CHECK_DEADLOCK FALSE
INVARIANTS
  QueuesSound
  PortsDistinct
PROPERTIES
  AbandonedOnlyWithListener
