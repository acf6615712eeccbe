SPECIFICATION Spec
CONSTANTS
  MAX_FRAME_SIZE = 28
  SendLength = 3
  Packets = {p1, p2, p3, p4}
  Nothing = Nothing
  WireLengths <- MCWireLengths
  FifoWords = 16
  UartLength = 2
  Loads <- MCLoads
CHECK_DEADLOCK FALSE
INVARIANTS
  NothingOverrun
  ToldOfFrames
  FramesWhole
  PacketsOwned
PROPERTIES
  Delivered
