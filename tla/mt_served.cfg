\* One client that reads and one that never does; no call fails.
SPECIFICATION FairSpec
CONSTANTS
    Clients = {c1, c2}
    Patient = {c1}
    Stalled = {c2}
    MaxBytes = 2
    BufSize = 2
    SockBuf = 1
    Rlimit = 6
    Threads = {t1, t2}
    Blocks = {b1, b2, b3}
    Faults = {}
PROPERTIES
    PatientServed
    LeaversReleased
CHECK_DEADLOCK FALSE
