SPECIFICATION Spec
CONSTANTS
  owner = owner
  user = user
  btc = btc
  usd = usd
  NoTransfer = NoTransfer
  NoRequest = NoRequest
  Accounts <- TwoAccounts
  Tokens <- TwoTokens
  Slots = {1}
  Owner = owner
  Beneficiary = owner
  Refusing = {}
  Reliable = {}
  Scale = 1
  MinReserveShares = 1
  MaxRatio = 2
  ReserveRatio = 1
  BeneficiaryRate = 0
  CollateralWeight <- CollateralRatio
  DebtWeight <- DebtRatio
  SupplyLimit <- OnlyBtcPledged
  BorrowLimit <- OnlyUsdLent
  MaxNumAssets = 2
  Prices = {1}
  InitialWallet <- ApartOne
  Amounts = {1, 2}
  SimpleAmounts = {1}
  Interests = {1}
  MaxDebt = 2
CHECK_DEADLOCK FALSE
INVARIANT PaymentsFunded
PROPERTY OnlyMarketHurts
