SPECIFICATION FairSpec
CONSTANTS
  Log <- ThreeBlocks
  BROADCAST_CAPACITY = 3
  GAP_FILL_LIMIT = 1
  SocketCapacity = 1
  Faults = {"cut", "crash", "fetch", "close"}
  MaxFaults = 2
INVARIANTS SettledMeansComplete
PROPERTIES EverythingArrives ClosedForGood
CHECK_DEADLOCK FALSE
