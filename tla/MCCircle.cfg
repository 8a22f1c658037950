CONSTANTS
    None = None
    Host <- MCHost
    Lower <- MCLower
    Loopback = {}
    SchemeLike = {}
    Desc = {"a"}
    Descriptor <- MCDescriptor
    Malformed = {}
    Body = {"html"}
    Request = {"r1"}
    Root <- MCRoot
    RootBase <- MCRootBase
    Serves <- MCServes
    Mappers = {}
    Allowlist = {}
    DepthLimit = 0
SPECIFICATION Spec
INVARIANTS
    RootIsNotRevisited
