CONSTANTS
    None = None
    b1 = b1
    b2 = b2
    Host <- MCHost
    Lower <- MCLower
    Loopback = {}
    SchemeLike = {}
    Desc <- MCDesc
    Descriptor <- MCDescriptor
    Malformed = {"broken"}
    Body <- MCBody
    Request <- MCRequest
    Root <- MCRoot
    RootBase <- MCRootBase
    Serves <- MCServes
    Mappers = {"known"}
    Allowlist <- MCAllowlist
    DepthLimit = 6
SPECIFICATION Spec
INVARIANTS
    ChainIsAncestry
    DepthCountsReferences
    NoFalseCycle
    NothingLost
    NothingMalformed
PROPERTIES
    KeepsPromise
