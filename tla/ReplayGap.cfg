SPECIFICATION Spec
CONSTANTS
  Pubkeys = {"P", "Q"}
  Chain <- TwoPools
  REORG_BUFFER_SLOTS = 1
  BLOCK_CHANNEL_CAPACITY = 2
  Retention = 99
  FirstSlot = 3
  Checkpoints = {3}
  LastSlot = 8
  Faults = {"write"}
  MaxFaults = 2
INVARIANTS FailedBlocksReplayable
CHECK_DEADLOCK FALSE
