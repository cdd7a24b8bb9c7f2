SPECIFICATION SystemSpec
CONSTANTS
    Names <- BaseNames
    Users = {u1, u2}
    Admins = {adm}
    ResolverIds = {}
    NftCandidates = {}
    EntryTargets = {}
    Metadata = {}
    NftAdmins = {}
    U64Max = 2
    U32Max = 0
    Skew = 0
    REGISTRY = registry
    NFT = nft
    RESOLVER = resolver
    NONE = none
    Targets = {}
    Chains = {stellar}
    STELLAR = stellar
    TextKeys = {}
    MaxTextRecords = 1
    MaxBatchOps = 0
    Parent <- NoParents
    FallbackDepth = 1
    Subs <- SubNames
    ParentOf <- Bases
    LabelDepth <- LabelCounts
    SubdomainAdmins = {adm}
    Depths = {1}
    DefaultDepth = 2
INVARIANTS SubdomainIndexExact
PROPERTIES NamespaceStartsEmpty SubdomainConsent
SYMMETRY Symmetry
VIEW NoInvoker
