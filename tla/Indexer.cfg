SPECIFICATION FairSpec
CONSTANTS
  Pubkeys = {"P", "Q"}
  Chain <- TwoPools
  REORG_BUFFER_SLOTS = 1
  BLOCK_CHANNEL_CAPACITY = 2
  Retention = 2
  FirstSlot = 3
  Checkpoints = {0, 3}
  LastSlot = 8
  Faults = {"disconnect", "crash", "write"}
  MaxFaults = 2
INVARIANTS LostOnlyWhenMissed CacheTrue TablesAgree LpSupplyRight SupplyAsLastTold
PROPERTIES KeepsThePromise CatchesUp
CHECK_DEADLOCK FALSE
