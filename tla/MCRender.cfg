CONSTANTS
    None = None
    b1 = b1
    b2 = b2
    Host <- MCHost
    Lower <- MCLower
    Loopback = {}
    SchemeLike = {}
    Desc <- MCDesc
    Descriptor <- MCDescriptor
    Malformed = {}
    Body <- MCBody
    Transform <- MCTransform
    Calls <- MCCalls
    Fails <- MCFails
    Request <- MCRequest
    Root <- MCRoot
    RootBase <- MCRootBase
    Serves <- MCServes
    Mappers = {"known"}
    Allowlist = {}
    DepthLimit = 0
SPECIFICATION Spec
INVARIANTS
    GuardIsNeverNeeded
    ShownAsCalled
    IndependentProjection
    ArrayOrder
