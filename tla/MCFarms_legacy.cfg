SPECIFICATION Spec
CONSTANTS
  alice = alice
  bob = bob
  usd = usd
  brrr = brrr
  Accounts <- AliceAndBob
  Tokens <- UsdAndBrrr
  Booster = brrr
  Slots = {}
  NoTransfer = NoTransfer
  EchoSenders = {}
  MinReserveShares = 1
  Fine = 6
  Day = 1
  FullRate = 2
  BoosterBase = 1
  LogBase = 2
  Policies <- OnlyShort
  Pays <- BothPayBrrr
  InitialWallet <- Wealth
  InitialReserve <- Reserve
  InitialLegacy <- BobLegacy
  Barrable = {}
  Payees <- OnlyBob
  Amounts = {1}
  Rewards <- OneByOne
  MaxTime = 3
CHECK_DEADLOCK FALSE
INVARIANTS UnlockedStakesLeave
