CONSTANTS
    None = None
    DemoHost = "localhost:8080"
    Host <- MCHost
    Lower <- MCLower
    Loopback = {"localhost:8080"}
    SchemeLike = {"localhost:8080"}
    Expression = {"{id}"}
    ViewName = {"default", "compact", "card"}
    Undecodable = {}
    Query <- MCQuery
    Get <- MCGet
    NestedPlain <- MCPlain
    NestedParse <- MCParse
    NestedEval <- MCEval
    Desc <- MCDesc
    Descriptor <- DemoDescriptor
    Malformed = {}
    Body <- Files
    Request <- MCODataRequest
    Root <- DemoRoot
    RootBase <- DemoRootBase
    Serves <- DemoServes
    Mappers = {"summary-totals"}
    Allowlist <- TrustedTemplateURLs
    DepthLimit = 0
    MaxVisits = 1
SPECIFICATION DemoSpec
INVARIANTS
    LoopbackOpaqueIsFetched
