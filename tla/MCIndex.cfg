CONSTANTS
    Index <- MCIndex
    MaxInt = 7
    Vendor = {"x-note", "x-by", "x-kind"}
    Reserved = {"$sum", "$to", "$default"}
    BadURI <- MCBadURI
    BadReference <- MCBadReference
    Fold <- MCFold
    Doc <- MCDoc
    Payload <- MCPayload
    Entry <- MCEntry
    LinkText <- MCLinkText
    ReadView <- MCRead
    ValidView <- MCValid
    Model <- ModelOf
    NestedPlain <- MCPlain
    NestedParse <- MCParse
    NestedEval <- MCEval
    NestedMarshal <- MCMarshal
    NestedToJSON <- MCToJSON
    NestedWrite <- MCWrite
    NestedRebased <- MCRebased
    NestedRemovals <- MCRemovals
    Value <- MCValue
    Input <- MCInput
    Nesting <- MCNesting
SPECIFICATION Spec
INVARIANTS
    PointerBeyondIsNil
