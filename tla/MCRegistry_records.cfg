SPECIFICATION Spec
CONSTANTS
    Names <- NestedNames
    Users = {u1}
    Admins = {}
    ResolverIds = {}
    NftCandidates = {}
    EntryTargets = {}
    Metadata = {}
    NftAdmins = {}
    U64Max = 0
    U32Max = 0
    Skew = 0
    REGISTRY = registry
    NFT = nft
    RESOLVER = resolver
    NONE = none
    Targets = {u1}
    Chains = {stellar}
    STELLAR = stellar
    TextKeys = {k1, k2}
    MaxTextRecords = 1
    MaxBatchOps = 2
    Parent <- NestedParent
    FallbackDepth = 1
INVARIANTS FallbackNearest


VIEW NoInvoker
