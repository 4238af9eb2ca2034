CONSTANTS
    Workers = {w1}
    Capacity = 1
    Fds = {5, 6}
    MaxConnectionId = 2
    Frames <- MCFrames
    EventFdMax = 1
    Faults = {"eventfd", "setup", "throw", "notify", "modify", "add", "accept", "run", "oversized", "reset", "io"}
    NoTask = NoTask
    Clients = {c1, c2}
    MaxFrames = 1
    SendBuffer = 1
    MaxEvents = 64
    listenerFd = 3
    notificationFd = 4
    NoClient = NoClient
    NoFd = NoFd

SPECIFICATION FairEventLoopSpec
PROPERTIES
    ConnectionsReleased
CHECK_DEADLOCK FALSE
