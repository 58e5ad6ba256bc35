SPECIFICATION Spec
CONSTANTS
    k1 = k1
    k2 = k2
    pub = pub
    priv = priv
    old1 = old1
    old2 = old2
    NoKey = NoKey
    NoBucket = NoBucket
    Keys <- MCKeys
    Buckets <- MCBuckets
    Priority <- MCPriority
    ManifestLists <- MCManifestLists
INVARIANTS
    TypeOK
    RouteIndex
    BestClaimOwns
    LoadComplete
PROPERTY
    ImplementsRegistry
