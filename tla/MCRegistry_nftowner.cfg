SPECIFICATION Spec
CONSTANTS
    Names = {n1}
    Users = {u1, u2}
    Admins = {adm}
    ResolverIds = {}
    NftCandidates = {nft, u2}
    EntryTargets = {}
    Metadata = {}
    NftAdmins = {registry}
    U64Max = 2
    U32Max = 1
    Skew = 1
    REGISTRY = registry
    NFT = nft
    RESOLVER = resolver
    NONE = none
    Targets = {}
    Chains = {stellar}
    STELLAR = stellar
    TextKeys = {}
    MaxTextRecords = 1
    MaxBatchOps = 0
    Parent <- NoParents
    FallbackDepth = 1
INVARIANT TokenOwnerIsNameOwner
