SPECIFICATION Spec
CONSTANTS
  ESIX_MAX_SOCK = 1
  ESIX_QUEUE_DEPHT = 2
  FIRST_PORT = 32
  LAST_PORT = 34
  MAX_RETX_TIME = 2
  SeqMod = 5
  in6addr_any = any
  f1 = f1
  f2 = f2
  a1 = a1
  p1 = p1
  g1 = g1
  x = x
  OwnAddrs <- MCOwnAddr
  FirstAddr = a1
  Peers <- MCPeers
  Groups = {g1}
  PeerPorts <- MCPeerPorts
  BindPorts <- MCBindPorts
  InPorts <- MCInPorts
  InFlags <- DataFlags
  SegNums <- AllNums
  Payloads <- OneByte
  Fds <- MCOneFd
  NoSock = none
  MaxChild = 1
  MaxTime = 1000
VIEW Table
CHECK_DEADLOCK FALSE
INVARIANTS
  TypeOK
  QueuesSound
  RexmitArmed
  TxContiguous
  GiveUpBound
