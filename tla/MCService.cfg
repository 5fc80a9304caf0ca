CONSTANTS
    MaxHeader = 1
    MaxBody = 1
    Client = {c1, c2}
    Streams <- MCStreams
    Deadline = 1
    ResponseLength = 1
    MaxSignals = 1
    MaxId = 1
    MaxCrashes = 1
    None = None
SYMMETRY MCSymmetry
SPECIFICATION ServiceSpec
INVARIANTS
    NothingStoredInSilence
    ExitTellsTheTruth
    SignalsNeverCutTheService
PROPERTIES
    Implements
CHECK_DEADLOCK FALSE
