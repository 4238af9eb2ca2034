CONSTANTS
    Workers = {w1, w2}
    Capacity = 2
    Fds = {5, 6, 7}
    MaxConnectionId = 2
    Frames <- MCFrames
    EventFdMax = 2
    Faults = {}
    NoTask = NoTask
    Clients = {c1, c2}
    MaxFrames = 2
    SendBuffer = 1
    MaxEvents = 64
    listenerFd = 3
    notificationFd = 4
    NoClient = NoClient
    NoFd = NoFd

SYMMETRY LoopSymmetry
SPECIFICATION EventLoopSpec
INVARIANTS
    InterestMatches
    AtMostOnce
    NeverLost
    StartedInOrder
PROPERTIES
    OvertakenByWorkersOnly
CHECK_DEADLOCK FALSE
