CONSTANTS
    Workers = {w1, w2}
    Capacity = 1
    Fds = {5, 6, 7}
    MaxConnectionId = 2
    Frames <- MCFrames
    EventFdMax = 2
    Faults = {"reset", "oversized"}
    NoTask = NoTask
    Clients = {c1, c2}
    MaxFrames = 1
    SendBuffer = 1
    MaxEvents = 64
    listenerFd = 3
    notificationFd = 4
    NoClient = NoClient
    NoFd = NoFd

SYMMETRY LoopSymmetry
SPECIFICATION EventLoopSpec
INVARIANTS
    EventLoopTypeOK
    NoMisdelivery
    DescriptorsMatch
    EventsAreFresh
CHECK_DEADLOCK FALSE
