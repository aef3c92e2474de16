SPECIFICATION MCCSpec
CHECK_DEADLOCK FALSE
CONSTANTS
  Active = {"sdk"}
  SLIPPAGE_BPS = 50
  U64_MAX = 300
  SWAP_FEE_BPS = 25
  FEE_DENOMINATOR = 250
  MIN_LIQUIDITY = 1
  LP_LOCK_CREATOR_BPS = 2000
  LP_LOCK_PROVIDER_BPS = 2500
  PRICE_ONE = 16
  CUM_MOD = 128
  TWAP_RING_SIZE = 2
  MIN_OBS_SPACING_SLOTS = 2
  MIN_SPOT_RESERVE = 16
  Users = {u1}
  RENT = 3
  MIN_INITIAL_SOL = 36
  MIN_INITIAL_TOKENS = 10
  MIN_POOL_RESERVE_SOL = 1
  MIN_POOL_RESERVE_TOKENS = 2
  TRANSFER_FEE_BPS = 0
  MAX_TRANSFER_FEE = 2
  SolEndowment <- EachSol
  TokEndowment <- EachTok
  StartSlot = 2
  InitialAmounts <- BornBalanced
  SwapAmounts = {10}
  DepositAmounts = {}
  RedeemAmounts = {14}
  Bounds = {0}
  MaxBounds = {50}
  GiftAmounts = {}
  SlotSteps = {1, 3}
  Lookbacks = {1, 2, 4}
  Creators = {u1}
  Traders = {u1}
  MaxOps = 5
  MaxSlot = 8
  SolEach = 100
  TokEach = 100
  u1 = u1
INVARIANT RingOrdered
INVARIANT MarkWithinSeen
INVARIANT MirrorAgrees
INVARIANT OldReadStillAverages
PROPERTY MarkTakesTime
