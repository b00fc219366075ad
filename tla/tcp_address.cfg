\* Two clients; nobody stops the server.
SPECIFICATION Spec
CONSTANTS
    Clients = {c1, c2}
    Patient = {}
    Stalled = {}
    MaxBytes = 1
    BufSize = 2
    SockBuf = 1
    Rlimit = 6
    Threads = {t1, t2}
    Faults = {}
    StopCalled = FALSE
INVARIANTS
    OwnAddress
CHECK_DEADLOCK FALSE
