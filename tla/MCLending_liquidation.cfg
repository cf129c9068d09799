SPECIFICATION Spec
CONSTANTS
  owner = owner
  user = user
  btc = btc
  usd = usd
  NoTransfer = NoTransfer
  NoRequest = NoRequest
  Accounts <- TwoAccounts
  Tokens <- TwoTokens
  Slots = {}
  Owner = owner
  Beneficiary = owner
  Refusing = {}
  Reliable = {}
  Scale = 1
  MinReserveShares = 1
  MaxRatio = 2
  ReserveRatio = 1
  BeneficiaryRate = 0
  CollateralWeight <- CollateralRatio
  DebtWeight <- DebtRatio
  SupplyLimit <- OnlyBtcPledged
  BorrowLimit <- OnlyUsdLent
  MaxNumAssets = 2
  Prices = {1, 2}
  InitialWallet <- Apart
  Amounts = {1, 2}
  SimpleAmounts = {}
  Interests = {2}
  MaxDebt = 4
CHECK_DEADLOCK FALSE
INVARIANTS SharesConserved DebtIsBacked
PROPERTIES OnlyMarketHurts SupplyPriceNeverFalls
