\* Two clients that come and go as they like, a stop() at any moment, and
\* calls that may fail.
SPECIFICATION Spec
CONSTANTS
    Clients = {c1, c2}
    Patient = {}
    Stalled = {}
    MaxBytes = 2
    BufSize = 2
    SockBuf = 1
    Rlimit = 6
    Threads = {t1, t2}
    Faults = {"socket", "accept", "thread"}
    StopCalled = TRUE
SYMMETRY Symmetry
INVARIANTS
    TypeOK
    FdOwnership
    NoThreadOutlives
PROPERTIES
    CloseIsJustified
    ImplementsEchoService
CHECK_DEADLOCK FALSE
