CONSTANTS
    Symbol <- MCSymbol
    Body <- MCBody
    String <- MCString
    UrlKey = "url"
    WithNul = {"nul"}
    Length <- MCLength
    Capacity = 6
    MaxDepth = 2
    None = None
SPECIFICATION Spec
INVARIANTS
    RecursionIsBounded
    AcceptsRequests
CHECK_DEADLOCK FALSE
