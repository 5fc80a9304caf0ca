CONSTANTS
    Base = 3
    MaxValue = 19
    MaxEncodedLength = 3
    Alphabet <- MCAlphabet
    Foreign <- MCForeign
    MaxInput = 4
    Power <- MCPower
SPECIFICATION Spec
INVARIANTS
    TypeOK
    ReversedFits
    OutputFits
    NeverWraps
    RoundTrip
    ReturnsCodes
CHECK_DEADLOCK FALSE
