CONSTANTS
    Sockets = {s1, s2}
    Epolls = {e1, e2}
    EventFds = {v1, v2}
    Fds = {3, 4, 5, 6}

SPECIFICATION OwnerSpec
SYMMETRY Symmetry
INVARIANTS
    DescriptorTypeOK
    SoleOwner
    NothingLeaked
    ErrorFollowsDescriptor
CHECK_DEADLOCK FALSE
