\* Three clients, one after the other, and a vector of at most two entries.
SPECIFICATION Spec
CONSTANTS
    Clients = {c1, c2, c3}
    Patient = {}
    Stalled = {}
    MaxBytes = 1
    BufSize = 1
    SockBuf = 1
    Rlimit = 5
    FdSetSize = 2
    Faults = {}
PROPERTIES
    RefusedOnlyWhenFull
CHECK_DEADLOCK FALSE
