SPECIFICATION Spec
CONSTANTS
  Log <- ThreeBlocks
  BROADCAST_CAPACITY = 16
  GAP_FILL_LIMIT = 9
  SocketCapacity = 1
  Faults = {"cut"}
  MaxFaults = 1
INVARIANTS NoMissedEvent
CHECK_DEADLOCK FALSE
