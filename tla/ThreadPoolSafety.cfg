CONSTANTS
    Capacity = 2
    Tasks = {t1, t2}
    Workers = {w1, w2, w3}
    Submitters = {p1, p2}
    Stoppers = {s1, s2}
    Creator = creator
    NoTask = NoTask
    NoThread = NoThread

SPECIFICATION Spec
SYMMETRY PoolSymmetry
INVARIANTS
    TypeOK
    NoLostWakeup
    NoSleeperAfterClose
    WorkersOutliveTasks
    StopDrains
