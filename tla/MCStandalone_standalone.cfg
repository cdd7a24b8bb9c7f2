SPECIFICATION Spec
CONSTANTS
    MaxRetries = 2
    PollFinalStatus = TRUE
    Records <- SomeRecords
    Watchers = {p1, p2}
    WatchedNames = {a, b}
    FirstTotal = 2
    StorageAlarm = 5
    MaxPolls = 6
    MaxNames = 4
    MaxBatch = 4
    StartLedger = 0
    MaxRestarts = 2
    HasBackoff = TRUE
    LastLedger = 2
    NONE = none
    Chains = {base, ethereum, arbitrum}
    Endpoints = {e1, e2}
    BridgeAdmins = {adm}
    NO_VALUE = no_value
INVARIANTS ProgramTypeOK NeverOnWrongNetwork RetriesBounded MissingIdOnlyRegistry
    AdviceRight ExitStatusTrue PortfolioExact WatchlistSound RoutesCurrent
PROPERTIES FinalStatusKept CallsEnd PrimaryRetried ReportsGrow StreamRefined
