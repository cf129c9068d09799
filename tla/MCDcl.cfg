SPECIFICATION Spec
CONSTANTS
    alice = alice
    bob = bob
    dao = dao
    farm = farm
    Unit = 16
    Rate = 2
    LeftMost <- MCLeftMost
    RightMost = 4
    FeeUnit = 64
    Modulus = 1048576
    Whole = 8
    MaxLiquidityPerPoint = 1000
    Users <- MCUsers
    Owner = dao
    Farm = farm
    Fee = 2
    MaxSlots = 3
    Amounts = {7, 90}
    Stops <- MCStops
    Supplies <- MCSupplies
    Ranges <- MCRanges
    FarmRange <- MCFarmRange
    Mining = 8
    Discounts = {0, 4}
    ProtocolRates = {0, 8}
    MaxTransfers = 2
    Starts <- MCStarts
INVARIANTS
    LiquidityAddsUp
    NoOrderPassed
    EveryoneCanLeave
    TokensHeld
    NoFreeLunch
CHECK_DEADLOCK FALSE
