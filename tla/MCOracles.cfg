SPECIFICATION Spec
CONSTANTS
  alice = alice
  bob = bob
  near = near
  stnear = stnear
  usd = usd
  fnear = fnear
  NoCall = NoCall
  NoInfo = NoInfo
  NoPrice = NoPrice
  NoAnswer = NoAnswer
  NoRecord = NoRecord
  Accounts <- AliceAndBob
  Tokens <- ThreeTokens
  Feeds = {fnear}
  FeedOf <- FeedOfToken
  Steady <- OneDollar
  One = 2
  ValidDuration = 1
  MaxStaleness = 1
  MaxRecency = 0
  MaxRatio = 2
  NoLimit = NoLimit
  InitialMaxChange <- Unlimited
  MaxChanges <- Half
  CollateralWeight <- Volatile
  DebtWeight <- VolatileDebt
  MarginTokens <- LongNear
  SafetyBuffer = 1
  MaxLeverage = 3
  InitialAccount <- AtFirst
  InitialPrice <- FirstPrices
  InitialReserve <- Reserve
  InitialMargin <- MarginAtFirst
  InitialInfo <- InfoAtFirst
  InfoChanges <- DollarDoubles
  Lists <- ListsSent
  MarginLists <- MarginListsSent
  PriceLists <- PriceListsSent
  FeedPrices <- Prices
  Rates <- StakingRates
  Switches = {FALSE}
  Syncers = {bob}
  MaxCalls = 2
  MaxTime = 2
CHECK_DEADLOCK FALSE
INVARIANT NothingIsMinted
PROPERTIES RiskIsPriced SeizedAtRisk RecordFallsUnlimited
