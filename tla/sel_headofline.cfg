\* One client reads on, the other one never reads.
SPECIFICATION FairSpec
CONSTANTS
    Clients = {c1, c2}
    Patient = {c1}
    Stalled = {c2}
    MaxBytes = 2
    BufSize = 2
    SockBuf = 1
    Rlimit = 6
    FdSetSize = 6
    Faults = {}
PROPERTIES
    PatientServed
CHECK_DEADLOCK FALSE
