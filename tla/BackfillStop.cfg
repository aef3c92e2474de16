SPECIFICATION BackfillSpec
CONSTANTS
  Pubkeys = {"P", "Q"}
  Chain <- TwoPools
  REORG_BUFFER_SLOTS = 1
  BLOCK_CHANNEL_CAPACITY = 1
  Retention = 4
  FirstSlot = 2
  Checkpoints = {0}
  LastSlot = 4
  Faults = {}
  MaxFaults = 0
  History <- TwoPoolsHistory
  PAGE_LIMIT = 2
  MAX_HTTP_ATTEMPTS = 2
  MaxBackfills = 1
  MaxUnread = 0
INVARIANTS StopMeansCaughtUp
CHECK_DEADLOCK FALSE
