SPECIFICATION Spec
CONSTANTS
    alice = alice
    admin = admin
    guard = guard
    None = None
    NoAsset = NoAsset
    NoRules = NoRules
    NoRecord = NoRecord
    NoStorage = NoStorage
    Accounts <- MCAccounts
    Users <- MCUsers
    Guards <- MCGuards
    InitialOwner = admin
    InitialGuardians <- MCInitialGuardians
    MaxRatio = 4
    Divisor = 2
    MaxBeneficiaries = 2
    MinWait = 1
    InitialRules <- MCInitialRules
    Configs <- MCConfigs
    Amounts = {1, 3}
    Rates = {1, 5}
    Beneficiaries <- MCBeneficiaries
    Shares = {1, 3}
    RuleChanges <- MCRuleChanges
    Limits <- MCLimits
    Ranges <- MCRanges
    MaxChanges = 2
    BaseBytes <- MCBaseBytes
    MarginBaseBytes <- MCMarginBaseBytes
    ItemBytes = 1
    EntryBytes = 2
    StorageBytes = 2
    MinStorage = 11
    LoanWeight = 2
    Starts <- MCStarts
    MaxTransfers = 1
    MaxCash = 2
    MaxMove = 3
    MaxBalance = 12
INVARIANTS
    BytesAddUp
    SharesOfAccounts
PROPERTIES
    BooksDriftByRefunds
    SettingsStaySound
CHECK_DEADLOCK FALSE
