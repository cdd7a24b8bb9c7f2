SPECIFICATION Spec
CONSTANTS
    Names = {n1, n2}
    Users = {u1, u2}
    Admins = {}
    ResolverIds = {resolver}
    NftCandidates = {}
    EntryTargets = {}
    Metadata = {}
    NftAdmins = {registry}
    U64Max = 0
    U32Max = 0
    Skew = 0
    REGISTRY = registry
    NFT = nft
    RESOLVER = resolver
    NONE = none
    Targets = {u1,u2}
    Chains = {stellar, evm}
    STELLAR = stellar
    TextKeys = {}
    MaxTextRecords = 1
    MaxBatchOps = 2
    Parent <- NoParents
    FallbackDepth = 1
INVARIANTS ReverseSound
SYMMETRY Symmetry
VIEW NoWildcard
