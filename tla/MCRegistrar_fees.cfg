SPECIFICATION GatedSpec
CONSTANTS
    Names = {n1}
    Users = {u1, u2}
    Admins = {adm}
    ResolverIds = {}
    NftCandidates = {}
    EntryTargets = {}
    Metadata = {}
    NftAdmins = {}
    U64Max = 5
    U32Max = 0
    Skew = 0
    REGISTRY = registry
    NFT = nft
    RESOLVER = resolver
    NONE = none
    Targets = {}
    Chains = {stellar}
    STELLAR = stellar
    TextKeys = {}
    MaxTextRecords = 1
    MaxBatchOps = 0
    Parent <- NoParents
    FallbackDepth = 1
    RegistrarAdmins = {adm}
    Labels = {n1}
    LabelLength <- Lengths
    TierPrice <- Prices
    MaxYears = 1
    YearSeconds = 2
    MinGrace = 1
    MaxGrace = 2
    DefaultGrace = 2
    RateWindows = {1}
    RateLimits = {1}
    DefaultRate <- OnePerWindow
    Payments = {1, 2, 3}
    Whitelistable = {u1}
    AmountMax = 4
INVARIANTS RegistrarTypeOK RecordMirrorsEntry RenewalFits AccountingCovers
PROPERTIES TermIsPaid
VIEW NoInvoker
