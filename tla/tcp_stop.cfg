\* Clients that leave when they have their bytes back, and a stop() at any
\* moment.
SPECIFICATION FairSpec
CONSTANTS
    Clients = {c1, c2}
    Patient = {c1, c2}
    Stalled = {}
    MaxBytes = 1
    BufSize = 2
    SockBuf = 1
    Rlimit = 6
    Threads = {t1, t2}
    Faults = {}
    StopCalled = TRUE
PROPERTIES
    StopCompletes
    StopEndsRun
CHECK_DEADLOCK FALSE
