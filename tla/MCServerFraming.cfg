CONSTANTS
    MaxHeader = 3
    MaxBody = 2
    Client = {c1}
    Streams <- MCAllStreams
    Deadline = 1
    ResponseLength = 1
    MaxSignals = 0
    None = None
SPECIFICATION Spec
INVARIANTS
    TypeOK
    RoomForMore
    AnswerIsTheStreams
CHECK_DEADLOCK FALSE
