SPECIFICATION Spec
CONSTANTS
  owner = owner
  user = user
  btc = btc
  usd = usd
  NoTransfer = NoTransfer
  NoRequest = NoRequest
  Accounts <- TwoAccounts
  Tokens <- OneToken
  Slots = {1, 2}
  Owner = owner
  Beneficiary = owner
  Refusing = {}
  Reliable = {user}
  Scale = 2
  MinReserveShares = 3
  MaxRatio = 2
  ReserveRatio = 2
  BeneficiaryRate = 2
  CollateralWeight <- CollateralRatio
  DebtWeight <- DebtRatio
  SupplyLimit <- NoLimit
  BorrowLimit <- NoLimit
  MaxNumAssets = 2
  Prices = {1}
  InitialWallet <- TwoAndFour
  Amounts = {1, 2}
  SimpleAmounts = {}
  Interests = {3}
  MaxDebt = 5
CHECK_DEADLOCK FALSE
INVARIANTS RefundsCanBeSaved CashCoversClaims
PROPERTIES OnlyDustIsLost CallerNeverGains
