\* Two clients that come and go as they like, every call may fail, and
\* descriptors for one connection more than there are threads.
SPECIFICATION Spec
CONSTANTS
    Clients = {c1, c2}
    Patient = {}
    Stalled = {}
    MaxBytes = 2
    BufSize = 2
    SockBuf = 1
    Rlimit = 6
    Threads = {t1, t2}
    Blocks = {b1, b2, b3}
    Faults = {"socket", "malloc", "accept", "pthread_create"}
SYMMETRY Symmetry
INVARIANTS
    TypeOK
    FdOwnership
    BlockOwnership
    ThreadsReclaimed
    EchoPrefix
PROPERTIES
    CloseIsJustified
    ImplementsEchoService
CHECK_DEADLOCK FALSE
