CONSTANTS
    Radix = 2
    HeaderSize = 3
    MaxPayload = 4
    CompactionThreshold = 4
    SocketBuffer = 3
    ReadBufferSize = 4
    Responses <- MCResponses
    Telemetry <- MCTelemetry
    Modes = {FALSE, TRUE}

SPECIFICATION ExchangeSpec
INVARIANTS
    ExchangeTypeOK
    BytesAccounted
PROPERTIES
    ImplementsRequestReply
    DeviceReleased
CHECK_DEADLOCK FALSE
