CONSTANTS
    Url <- MCUrl
    MaxId = 3
    Length <- MCLength
    Capacity = {0, 2, 3}
    None = None
SPECIFICATION Spec
INVARIANTS
    TypeOK
    NothingLeaks
    PromisesAreKept
    RecordsAreAccountedFor
PROPERTIES
    ImplementsUrlRecords
