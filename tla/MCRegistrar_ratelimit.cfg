SPECIFICATION GatedSpec
CONSTANTS
    Names = {n1, n2}
    Users = {u1}
    Admins = {}
    ResolverIds = {}
    NftCandidates = {}
    EntryTargets = {}
    Metadata = {}
    NftAdmins = {}
    U64Max = 4
    U32Max = 0
    Skew = 0
    REGISTRY = registry
    NFT = nft
    RESOLVER = resolver
    NONE = none
    Targets = {}
    Chains = {stellar}
    STELLAR = stellar
    TextKeys = {}
    MaxTextRecords = 1
    MaxBatchOps = 0
    Parent <- NoParents
    FallbackDepth = 1
    RegistrarAdmins = {u1}
    Labels = {n1, n2}
    LabelLength <- Lengths
    TierPrice <- Prices
    MaxYears = 1
    YearSeconds = 1
    MinGrace = 1
    MaxGrace = 1
    DefaultGrace = 1
    RateWindows = {}
    RateLimits = {2}
    DefaultRate <- OnePerWindow
    Payments = {2}
    Whitelistable = {}
    AmountMax = 5

INVARIANT RateLimitHolds
