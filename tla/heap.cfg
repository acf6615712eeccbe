SPECIFICATION Spec
CONSTANTS
  configTOTAL_HEAP_SIZE = 96
  Requests <- MCRequests
INVARIANTS
  HeapSound
PROPERTIES
  BlocksAreTheirs
