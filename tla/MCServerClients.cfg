CONSTANTS
    MaxHeader = 3
    MaxBody = 2
    Client = {c1, c2}
    Streams <- MCSomeStreams
    Deadline = 1
    ResponseLength = 2
    MaxSignals = 1
    None = None
SPECIFICATION FairSpec
INVARIANTS
    NobodyIsForgotten
    DeadlineIsTotal
    ReturnsClean
PROPERTIES
    StopIsHonoured
    EveryConnectionEnds
CHECK_DEADLOCK FALSE
