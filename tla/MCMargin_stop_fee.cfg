SPECIFICATION Spec
CONSTANTS
  owner = owner
  trader = trader
  keeper = keeper
  btc = btc
  usd = usd
  i1 = i1
  i2 = i2
  i3 = i3
  NoPosition = NoPosition
  NoTrade = NoTrade
  NoStop = NoStop
  Accounts = {owner, trader, keeper}
  Tokens <- TwoTokens
  PosIds = {i1}
  Owner = owner
  Traders = {trader}
  Keepers = {keeper}
  Pairs <- Long
  MinReserveShares = 1
  MaxRatio = 4
  ReserveRatio = 1
  OpenFeeRate = 2
  PendingDebtScale = 4
  MaxPositions = 1
  SlippageRate = 2
  ForceSlippageRate = 4
  SafetyBuffer = 1
  MaxLeverage = 2
  ProtocolRate = 2
  LiquidatorRate = 2
  MinBase = 1
  MaxBase = 4
  TotalBase = 4
  MinBorrowed = 1
  SupplyLimit <- NoLimit
  BorrowLimit <- NoLimit
  Unit = 1
  StopFee <- FeeInUsd
  Stops <- LossOrProfit
  Prices <- NoneMove
  InitialSupply <- KeeperLendsUsd
  InitialMargin <- TraderHasMore
  InitialReserve <- Reserve
  Transfers = {}
  ReserveDeposits = {}
  Amounts = {1, 2}
  Outputs = {1, 2}
  PartsUsed = {}
  Interests = {}
  MaxDebt = 3
  HoldingFees = {}
  MaxHoldingFee = 1
  MaxCash = 8
  MaxReserve = 1
CHECK_DEADLOCK FALSE
PROPERTIES FeeLeavesSupply
