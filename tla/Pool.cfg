SPECIFICATION MCSpec
CHECK_DEADLOCK FALSE
CONSTANTS
  U64_MAX = 300
  SWAP_FEE_BPS = 25
  FEE_DENOMINATOR = 250
  MIN_LIQUIDITY = 1
  LP_LOCK_CREATOR_BPS = 2000
  LP_LOCK_PROVIDER_BPS = 2500
  PRICE_ONE = 16
  CUM_MOD = 1024
  TWAP_RING_SIZE = 3
  MIN_OBS_SPACING_SLOTS = 2
  MIN_SPOT_RESERVE = 16
  Users = {u1, u2}
  RENT = 3
  MIN_INITIAL_SOL = 36
  MIN_INITIAL_TOKENS = 10
  MIN_POOL_RESERVE_SOL = 6
  MIN_POOL_RESERVE_TOKENS = 4
  TRANSFER_FEE_BPS = 1000
  MAX_TRANSFER_FEE = 2
  SolEndowment <- EachSol
  TokEndowment <- EachTok
  StartSlot = 2
  InitialAmounts <- BornAny
  SwapAmounts = {1, 11}
  DepositAmounts = {5, 17}
  RedeemAmounts = {3, 20}
  Bounds = {0, 4}
  MaxBounds = {6, 50}
  GiftAmounts = {4}
  SlotSteps = {1}
  Lookbacks = {}
  Creators = {u1}
  Traders = {u1, u2}
  MaxOps = 4
  MaxSlot = 3
  SolEach = 100
  TokEach = 100
  u1 = u1
  u2 = u2
INVARIANT TypeOK
INVARIANT LpAccounted
INVARIANT NeverEmpty
INVARIANT BackedSupply
INVARIANT LockedFloor
INVARIANT HoldersCanExit
PROPERTY ShareGrowth
PROPERTY OthersKeepTheirShare
PROPERTY LockedNeverFalls
PROPERTY BoundsHonoured
