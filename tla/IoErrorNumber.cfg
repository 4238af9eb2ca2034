CONSTANTS
    Radix = 2
    HeaderSize = 3
    MaxPayload = 4
    CompactionThreshold = 4
    SocketBuffer = 3
    ReadBufferSize = 4
    Responses <- MCResponses
    Telemetry <- MCTelemetry
    Modes = {TRUE}

SPECIFICATION ExchangeSpec
INVARIANT ErrorNumberOnlyOnError
CHECK_DEADLOCK FALSE
