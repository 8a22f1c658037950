CONSTANTS
    None = None
    Host <- MCHost
    Lower <- MCLower
    Loopback = {}
    SchemeLike = {}
    Desc <- MCDesc
    Descriptor <- MCDescriptor
    Malformed <- MCMalformed
    Body = {"b1", "b2"}
    ViewName = {"default", "compact", "other"}
    Undecodable = {"future"}
    Request = {"r1"}
    Origin <- MCOrigin
    Wanted <- MCWanted
    APIServes <- MCAPIServes
    DiscoveryServes <- MCDiscoveryServes
    ResourceServes <- MCResourceServes
    LocalAllowlist = {}
    Mappers = {"summary"}
SPECIFICATION Spec
INVARIANTS
    RawOnlyWithoutTransform
