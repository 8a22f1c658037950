CONSTANTS
    None = None
    b1 = b1
    b2 = b2
    r1 = r1
    r2 = r2
    Host <- MCHost
    Lower <- MCLower
    Loopback = {}
    SchemeLike = {}
    Desc <- MCDesc
    Descriptor <- MCDescriptor
    Malformed = {}
    Body <- MCBody
    Request <- MCRequest
    Root <- MCRoot
    RootBase <- MCRootBase
    Serves <- MCServes
    Mappers = {}
    Allowlist = {}
    DepthLimit = 0
SPECIFICATION FairSpec
INVARIANTS
    TypeOK
    PinnedBodies
    FetchedOncePerRequest
    TornPageNeedsRace
PROPERTIES
    KeepsPromise
    SettledForGood
    Answered
