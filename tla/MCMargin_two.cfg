SPECIFICATION FairSpec
CONSTANTS
  owner = owner
  trader = trader
  keeper = keeper
  btc = btc
  usd = usd
  i1 = i1
  i2 = i2
  i3 = i3
  NoPosition = NoPosition
  NoTrade = NoTrade
  NoStop = NoStop
  Accounts = {owner, trader, keeper}
  Tokens <- TwoTokens
  PosIds = {i1, i2}
  Owner = owner
  Traders = {trader}
  Keepers = {keeper}
  Pairs <- Longs
  MinReserveShares = 2
  MaxRatio = 4
  ReserveRatio = 1
  OpenFeeRate = 2
  PendingDebtScale = 4
  MaxPositions = 2
  SlippageRate = 2
  ForceSlippageRate = 4
  SafetyBuffer = 1
  MaxLeverage = 2
  ProtocolRate = 2
  LiquidatorRate = 2
  MinBase = 1
  MaxBase = 4
  TotalBase = 4
  MinBorrowed = 1
  SupplyLimit <- NoLimit
  BorrowLimit <- NoLimit
  Unit = 1
  StopFee <- FeeInBtc
  Stops = {}
  Prices <- NoneMove
  InitialSupply <- KeeperLendsMoreBtc
  InitialMargin <- TraderHasOneOfBoth
  InitialReserve <- Reserve
  Transfers = {2}
  ReserveDeposits = {}
  Amounts = {1}
  Outputs = {1, 2}
  PartsUsed = {}
  Interests = {1}
  MaxDebt = 2
  HoldingFees = {}
  MaxHoldingFee = 1
  MaxCash = 3
  MaxReserve = 1
CHECK_DEADLOCK FALSE
INVARIANTS LockedWhileTraded OwnerCanResume
PROPERTIES PositionsUnlock
