\* Three clients that come and go as they like and an array of two entries,
\* which the third one finds full.
SPECIFICATION OneThreadSpec
CONSTANTS
    Clients = {c1, c2, c3}
    Patient = {}
    Stalled = {}
    MaxBytes = 2
    BufSize = 2
    SockBuf = 1
    Rlimit = 7
    FdSetSize = 2
    Faults = {"socket", "select", "accept"}
SYMMETRY Symmetry
INVARIANTS
    TypesOK
    SlotsAreConnections
    RecvNeverBlocks
PROPERTIES
    EveryConnectionTracked
    CloseIsJustified
    OneAtATime
    ImplementsEchoService
CHECK_DEADLOCK FALSE
