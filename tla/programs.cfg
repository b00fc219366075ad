\* Three SIGINTs and one of each other signal at any moment; pipes smaller than
\* what goes through them, any pipe() of the first two examples and any fork() may fail and any process may be killed;
\* three UDP clients with messages of one, two and three bytes, on two ports,
\* of which the server's buffer cuts the longest and the client's the longer
\* two; two TCP clients at a server that serves one, with messages of three bytes
\* that come and go in parts; a bandwidth test shorter than, as long as and
\* longer than the server's; two crashes of each program that leaves files.
SPECIFICATION ProgramsSpec
CONSTANTS
    MaxSends <- Sends
    PipeSize = 2
    Lines = 5
    CallsMayFail = TRUE
    Killable <- AllProcesses
    Runs = {1, 2, 3}
    Ports = {4, 5}
    ServerBuf = 2
    ClientBuf = 1
    Clients = {c1, c2}
    MaxBytes = 3
    BufSize = 1
    SockBuf = 1
    Rlimit = 6
    Faults = {"socket"}
    Limit = 2
    Durations = {0, 2, 3}
    Buffer = 2
    Cap = 3
    Timeout = 2
    MaxCrashes = 2
INVARIANTS
    TypesOK
    CountIsExact
    AtMostOneLateRound
    ChildrenReaped
    NoSigpipe
    PrintedIsTrue
    AnswersAreEchoes
    ServerSurvives
    ReportsAgree
    HeapDiscipline
    FilesWhole
    CleanedUp
PROPERTIES
    RequestHonoured
    EveryoneEnds
    ConnectIsHonest
CHECK_DEADLOCK FALSE
