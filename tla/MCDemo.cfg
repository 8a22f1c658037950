CONSTANTS
    None = None
    DemoHost = "127.0.0.1:8080"
    Host <- MCHost
    Lower <- MCLower
    Loopback = {"127.0.0.1:8080"}
    SchemeLike = {}
    Expression = {"{id}"}
    ViewName = {"default", "compact", "card"}
    Undecodable = {}
    Query <- MCQuery
    Get <- MCGet
    NestedPlain <- MCPlain
    NestedParse <- MCParse
    NestedEval <- MCEval
    Desc <- MCDesc
    Descriptor <- DemoDescriptor
    Malformed = {}
    Body <- Files
    Request <- MCRequest
    Root <- DemoRoot
    RootBase <- DemoRootBase
    Serves <- DemoServes
    Mappers = {"summary-totals"}
    Allowlist <- TrustedTemplateURLs
    DepthLimit = 0
    MaxVisits = 2
SPECIFICATION DemoSpec
INVARIANTS
    DegradesAsDocumented
    OneContractPerTemplate
    DiscoveryAgrees
