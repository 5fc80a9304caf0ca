CONSTANTS
    HeadSymbol <- MCHeadSymbol
    Heads <- MCHeads
    MaxTarget = 2
    MaxSize = 25
SPECIFICATION HeadSpec
INVARIANTS
    MalformedIsRefused
CHECK_DEADLOCK FALSE
