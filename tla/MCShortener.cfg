CONSTANTS
    Base = 2
    MaxValue = 7
    Alphabet <- MCAlphabet
    MaxId = 3
    Url <- MCUrl
    WellFormed <- MCWellFormed
    Length <- MCLength
    MaxUrlLength = 2
    None = None
    Target <- MCTarget
    Slash = "/"
    Query = "?"
    Health <- MCHealth
    Shorten <- MCShorten
    MaxEncodedLength = 2
    MaxCodeLength = 2
    BaseUrlLength = 21
    JsonCapacity = 53
    MaxBody = 52
SPECIFICATION Spec
INVARIANTS
    TypeOK
    ShortUrlsResolve
    OneCodeForARecord
    MissingIsNotMalformed
    RecordsHaveCodes
PROPERTIES
    CodesAreFresh
