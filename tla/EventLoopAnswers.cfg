CONSTANTS
    Workers = {w1}
    Capacity = 1
    Fds = {5, 6, 7}
    MaxConnectionId = 2
    Frames <- MCFrames
    EventFdMax = 1
    Faults = {}
    NoTask = NoTask
    Clients = {c1, c2}
    MaxFrames = 2
    SendBuffer = 1
    MaxEvents = 64
    listenerFd = 3
    notificationFd = 4
    NoClient = NoClient
    NoFd = NoFd

SPECIFICATION FairEventLoopSpec
PROPERTIES
    FramesAnswered
CHECK_DEADLOCK FALSE
