CONSTANTS
    Workers = {w1, w2}
    Capacity = 2
    Fds = {5}
    MaxConnectionId = 1
    Frames = {f1, f2}
    EventFdMax = 1
    Faults = {"eventfd", "throw", "notify"}
    NoTask = NoTask
    MaxOutstanding = 4

SPECIFICATION MCSpec
INVARIANTS
    DispatcherTypeOK
    NoStrandedResult
    NotifierOutlivesWorkers
PROPERTIES
    ResultsAreTaken
CHECK_DEADLOCK FALSE
