\* Every client reads on; closes as soon as it likes after its last echo.
SPECIFICATION OneThreadFairSpec
CONSTANTS
    Clients = {c1, c2}
    Patient = {c1, c2}
    Stalled = {}
    MaxBytes = 2
    BufSize = 2
    SockBuf = 1
    Rlimit = 6
    FdSetSize = 6
    Faults = {"socket"}
PROPERTIES
    PatientServed
    LeaversReleased
CHECK_DEADLOCK FALSE
