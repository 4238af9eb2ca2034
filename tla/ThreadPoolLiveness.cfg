CONSTANTS
    Capacity = 1
    Tasks = {t1, t2}
    Workers = {w1, w2}
    Submitters = {p1, p2}
    Stoppers = {s1, s2}
    Creator = creator
    NoTask = NoTask
    NoThread = NoThread

SPECIFICATION FairSpec
PROPERTIES
    StopReturns
    ImplementsTaskPool
