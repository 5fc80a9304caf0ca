CONSTANTS
    HeadSymbol <- MCHeadSymbol
    Heads <- MCHeads
    MaxTarget = 2
    MaxSize = 25
SPECIFICATION HeadSpec
INVARIANTS
    HeadIsUnderstood
CHECK_DEADLOCK FALSE
