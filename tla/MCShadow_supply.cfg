SPECIFICATION Spec
CONSTANTS
  alice = alice
  bob = bob
  Accounts <- AliceAndBob
  Reliable = {}
  MinReserveShares = 1
  MinDeposit = 3
  ForceClosing = TRUE
  SupplyLimit = 100
  CollateralWeight = 3
  DebtWeight = 4
  Values = {1, 2}
  InitialShares <- TwoShares
  InitialDollars <- TwoDollars
  InitialReserve = 3
  Providers <- OnlyAlice
  Amounts = {1}
  Loans = {3}
  FarmMayPause = FALSE
  MaxShares = 2
  MaxCalls = 2
CHECK_DEADLOCK FALSE
INVARIANTS LpSupplyIsHeld
