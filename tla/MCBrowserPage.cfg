CONSTANTS
    Input = {"", "http", "text"}
    Plausible = {"http"}
    MaxSubmissions = 3
    MaxCopies = 3
SPECIFICATION Spec
INVARIANTS
    ShownIsTheLatest
PROPERTIES
    RetryIsPermitted
    CopiedIsTemporary
