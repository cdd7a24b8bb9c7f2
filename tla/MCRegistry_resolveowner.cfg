SPECIFICATION Spec
CONSTANTS
    Names = {n1}
    Users = {u1, u2}
    Admins = {}
    ResolverIds = {resolver}
    NftCandidates = {}
    EntryTargets = {}
    Metadata = {}
    NftAdmins = {registry}
    U64Max = 1
    U32Max = 0
    Skew = 0
    REGISTRY = registry
    NFT = nft
    RESOLVER = resolver
    NONE = none
    Targets = {u1,u2}
    Chains = {stellar}
    STELLAR = stellar
    TextKeys = {}
    MaxTextRecords = 1
    MaxBatchOps = 2
    Parent <- NoParents
    FallbackDepth = 1

PROPERTY ResolveRejectsDrift
