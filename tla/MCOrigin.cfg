CONSTANTS
    None = None
    Host <- MCHost
    Lower <- MCLower
    Loopback <- MCLoopback
    SchemeLike = {"localhost:8080"}
    Desc <- MCDesc
    Descriptor <- MCDescriptor
    Malformed = {}
    Body = {"html"}
    Request = {"secure", "local", "plain", "nobase"}
    Root <- MCRoot
    RootBase <- MCRootBase
    Serves <- MCServes
    Mappers = {}
    Allowlist = {}
    DepthLimit = 0
SPECIFICATION Spec
INVARIANTS
    SameOriginClosure
    BodyProvenance
    FetchedSecurely
    AnswersAsAnnounced
