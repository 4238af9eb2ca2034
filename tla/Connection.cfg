CONSTANTS
    Radix = 2
    HeaderSize = 2
    MaxPayload = 2
    CompactionThreshold = 3
    SocketBuffer = 3
    ReadBufferSize = 3
    Responses <- MCResponses
    MaxStream = 6
SPECIFICATION ConnectionSpec
CONSTRAINT Bounded
INVARIANTS ConnectionTypeOK InputIntact OutputIntact NoFrameLeftBehind ErrorsAreReal
CHECK_DEADLOCK FALSE
