CONSTANTS
    Workers = {w1, w2}
    Capacity = 1
    Fds = {5, 6, 7}
    MaxConnectionId = 2
    Frames <- MCFrames
    EventFdMax = 1
    Faults = {"eventfd", "setup", "throw", "notify", "modify", "add", "accept", "run", "oversized", "reset", "io"}
    NoTask = NoTask
    Clients = {c1, c2}
    MaxFrames = 1
    SendBuffer = 1
    MaxEvents = 2
    listenerFd = 3
    notificationFd = 4
    NoClient = NoClient
    NoFd = NoFd

SYMMETRY LoopSymmetry
SPECIFICATION EventLoopSpec
INVARIANTS
    NoMisdelivery
    DescriptorsMatch
    AtMostOnce
CHECK_DEADLOCK FALSE
