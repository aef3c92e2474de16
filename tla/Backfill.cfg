SPECIFICATION BackfillFairSpec
CONSTANTS
  Pubkeys = {"P", "Q"}
  Chain <- TwoPools
  REORG_BUFFER_SLOTS = 1
  BLOCK_CHANNEL_CAPACITY = 1
  Retention = 4
  FirstSlot = 2
  Checkpoints = {0}
  LastSlot = 4
  Faults = {"write", "page", "listing"}
  MaxFaults = 1
  History <- TwoPoolsHistory
  PAGE_LIMIT = 2
  MAX_HTTP_ATTEMPTS = 2
  MaxBackfills = 2
  MaxUnread = 1
INVARIANTS LeavesOutOnlyTheUnknown StaleOnlyAfterRollback TablesAgree LatestIsNewest SuppliesOfThePool
PROPERTIES KeepsThePromise BackfillEnds
CHECK_DEADLOCK FALSE
