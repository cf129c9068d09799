SPECIFICATION FairSpec
CONSTANTS
  alice = alice
  bob = bob
  Accounts <- AliceAndBob
  Reliable = {}
  MinReserveShares = 2
  MinDeposit = 3
  ForceClosing = TRUE
  SupplyLimit = 100
  CollateralWeight = 3
  DebtWeight = 4
  Values = {1, 2}
  InitialShares <- TwoShares
  InitialDollars <- ThreeDollars
  InitialReserve = 3
  Providers <- OnlyAlice
  Amounts = {1, 2}
  Loans = {2, 3}
  FarmMayPause = FALSE
  MaxShares = 2
  MaxCalls = 1
CHECK_DEADLOCK FALSE
PROPERTIES LocksAreReleased
