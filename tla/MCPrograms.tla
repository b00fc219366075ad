----------------------------- MODULE MCPrograms -----------------------------
(***************************************************************************)
(* The programs and pairs of programs that share nothing with the          *)
(* concurrent TCP servers, nor with one another.  A behaviour is a run of  *)
(* one of them, so that TLC checks all ten at once.                       *)
(***************************************************************************)
EXTENDS SignalHandling

CONSTANTS PipeSize, Lines, CallsMayFail, Killable, Runs, Ports, ServerBuf, ClientBuf,
    Clients, MaxBytes, BufSize, SockBuf, Rlimit, Faults,
    Limit, Durations, Buffer, Cap, Timeout, MaxCrashes

\* The runs of the UDP client are numbered, as its message has the length of the
\* number.
ASSUME UdpAssumption ==
    /\ Runs \subseteq Nat /\ Runs # {}
    /\ Ports # {}
    /\ ServerBuf \in Nat /\ ClientBuf \in Nat

\* Some time is the longest that either side takes.
ASSUME BandwidthAssumption ==
    /\ Limit \in Nat /\ Durations \subseteq Nat
    /\ \E n \in Durations \cup {Limit} : \A m \in Durations \cup {Limit} : m <= n
    /\ Buffer \in Nat \ {0} /\ Cap \in Nat

ASSUME SessionAssumption ==
    /\ {"free", "listener", "shut"} \cap Clients = {}
    /\ MaxBytes \in Nat \ {0} /\ BufSize \in Nat \ {0} /\ SockBuf \in Nat \ {0}
    /\ Rlimit \in Nat \ (0..3)

ASSUME PipesAssumption == PipeSize \in Nat /\ Lines \in Nat

ASSUME BoundsAssumption == Timeout \in Nat /\ MaxCrashes \in Nat

VARIABLES
    program,                                    \* the one that was started
    held, content, life, pc, line, wp, results, \* of PipesIpc
    parent, children, code, wstatus, pid, i, reported, \* of ProcessManagement
    net, server, buffer, client, port, answer,  \* of UdpEcho
    conn, fdtab, echo_pc, client_fd, unsent, tcp_client, \* of EchoSession
    lang, duration, receiver, sender, age, wire, rst, taken, gap, printed,
                                                \* of BandwidthTest
    attempt, sockfd, link, waited, result,      \* of NonblockingConnect
    file_pc, fd, file, file_failed, underrun, file_crashes, \* of FileIO
    memory_pc, live, length, copied, memory_failed, memory_crashes,
                                                \* of MemoryManagement
    dir_pc, fs, cwd, original, strayed, dir_crashes \* of DirectoryOps

AllProcesses == {"parent", "reader", "callee", "generator", "squarer"}

Pipe == INSTANCE PipesIpc
          WITH Procs <- AllProcesses,
               PipeIds <- {"pipefd", "pipe_p2c", "pipe_c2p", "pipe1", "pipe2"}
Fork == INSTANCE ProcessManagement
          WITH pc <- parent, life <- children, status <- wstatus
Udp == INSTANCE UdpEcho WITH Length <- [r \in Runs |-> r]
Session == INSTANCE EchoSession
             WITH pc <- echo_pc, client <- tcp_client, ClientBuf <- MaxBytes,
                  Patient <- {}, Stalled <- {}
Bandwidth == INSTANCE BandwidthTest
               WITH server <- receiver, client <- sender, reported <- printed
Nonblocking == INSTANCE NonblockingConnect WITH pc <- attempt
File == INSTANCE FileIO
          WITH pc <- file_pc, failed <- file_failed, crashes <- file_crashes
Memory == INSTANCE MemoryManagement
            WITH pc <- memory_pc, failed <- memory_failed,
                 crashes <- memory_crashes
Directory == INSTANCE DirectoryOps WITH pc <- dir_pc, crashes <- dir_crashes

signal_vars == vars
pipe_vars == <<held, content, life, pc, line, wp, results>>
fork_vars == <<parent, children, code, wstatus, pid, i, reported>>
udp_vars == <<net, server, buffer, client, port, answer>>
session_vars == <<conn, fdtab, echo_pc, client_fd, unsent, tcp_client>>
bandwidth_vars ==
    <<lang, duration, receiver, sender, age, wire, rst, taken, gap, printed>>
connect_vars == <<attempt, sockfd, link, waited, result>>
file_vars == <<file_pc, fd, file, file_failed, underrun, file_crashes>>
memory_vars ==
    <<memory_pc, live, length, copied, memory_failed, memory_crashes>>
dir_vars == <<dir_pc, fs, cwd, original, strayed, dir_crashes>>
all_vars ==
    <<program, signal_vars, pipe_vars, fork_vars, udp_vars, session_vars,
      bandwidth_vars, connect_vars, file_vars, memory_vars, dir_vars>>

\* A step of program p leaves the variables of the others alone.
In(p) ==
    /\ program = p
    /\ UNCHANGED program
    /\ IF p = "signal_handling" THEN TRUE ELSE UNCHANGED signal_vars
    /\ IF p = "pipes_ipc" THEN TRUE ELSE UNCHANGED pipe_vars
    /\ IF p = "process_management" THEN TRUE ELSE UNCHANGED fork_vars
    /\ IF p = "udp_echo" THEN TRUE ELSE UNCHANGED udp_vars
    /\ IF p = "tcp_session" THEN TRUE ELSE UNCHANGED session_vars
    /\ IF p = "bandwidth_test" THEN TRUE ELSE UNCHANGED bandwidth_vars
    /\ IF p = "nonblocking_connect" THEN TRUE ELSE UNCHANGED connect_vars
    /\ IF p = "file_io" THEN TRUE ELSE UNCHANGED file_vars
    /\ IF p = "memory_management" THEN TRUE ELSE UNCHANGED memory_vars
    /\ IF p = "directory_ops" THEN TRUE ELSE UNCHANGED dir_vars

ProgramsInit ==
    /\ program \in {"signal_handling", "pipes_ipc", "process_management",
                    "udp_echo", "tcp_session", "bandwidth_test",
                    "nonblocking_connect", "file_io", "memory_management",
                    "directory_ops"}
    /\ Init
    /\ Pipe!Init
    /\ Fork!Init
    /\ Udp!Init
    /\ Session!SessionInit
    /\ Bandwidth!Init
    /\ program # "bandwidth_test" =>
          lang = "c" /\ \A n \in Durations : duration <= n
    /\ Nonblocking!Init
    /\ File!Init
    /\ Memory!Init
    /\ Directory!Init

ProgramsNext ==
    \/ In("signal_handling") /\ Next
    \/ In("pipes_ipc") /\ Pipe!Next
    \/ In("process_management") /\ Fork!Next
    \/ In("udp_echo") /\ Udp!Next
    \/ In("tcp_session") /\ Session!SessionNext
    \/ In("bandwidth_test") /\ Bandwidth!Next
    \/ In("nonblocking_connect") /\ Nonblocking!Next
    \/ In("file_io") /\ File!Next
    \/ In("memory_management") /\ Memory!Next
    \/ In("directory_ops") /\ Directory!Next

\* The fairness of each program that is to end by itself or to react: its
\* processes run, the kernel delivers a signal, TCP delivers, time passes.  Of
\* UDP, and of the UDP server, nothing is assumed.
ProgramsSpec ==
    /\ ProgramsInit
    /\ [][ProgramsNext]_all_vars
    /\ WF_all_vars(In("signal_handling") /\ MainStep)
    /\ WF_all_vars(In("signal_handling") /\ HandlerStep)
    /\ WF_all_vars(In("signal_handling") /\ Deliver)
    /\ WF_all_vars(In("pipes_ipc") /\ Pipe!Parent)
    /\ WF_all_vars(In("pipes_ipc") /\ Pipe!Reader)
    /\ WF_all_vars(In("pipes_ipc") /\ Pipe!Callee)
    /\ WF_all_vars(In("pipes_ipc") /\ Pipe!Generator)
    /\ WF_all_vars(In("pipes_ipc") /\ Pipe!Squarer)
    /\ WF_all_vars(In("process_management") /\ Fork!Parent)
    /\ WF_all_vars(In("process_management") /\ Fork!ChildStep)
    /\ \A r \in Runs : WF_all_vars(In("udp_echo") /\ Udp!Client(r))
    /\ WF_all_vars(In("tcp_session") /\ Session!SessionServer)
    /\ \A c \in Clients :
          /\ WF_all_vars(In("tcp_session") /\ Session!ClientRuns(c))
          /\ WF_all_vars(In("tcp_session") /\ Session!NetworkRuns(c))
    /\ WF_all_vars(In("bandwidth_test") /\ Bandwidth!Server)
    /\ WF_all_vars(In("bandwidth_test") /\ Bandwidth!Client)
    /\ WF_all_vars(In("bandwidth_test") /\ Bandwidth!ResetArrives)
    /\ WF_all_vars(In("bandwidth_test") /\ Bandwidth!Tick)

\* The variables of each program keep to their types (its TypeOK).
TypesOK ==
    /\ TypeOK
    /\ Pipe!TypeOK
    /\ Fork!TypeOK
    /\ Udp!TypeOK
    /\ Session!SessionTypeOK
    /\ Bandwidth!TypeOK
    /\ Nonblocking!TypeOK
    /\ File!TypeOK
    /\ Memory!TypeOK
    /\ Directory!TypeOK

\* Every process of the programs that are to end by themselves ends: the parent
\* and the children of pipes_ipc and process_management, whichever forks fail
\* and whoever is killed; the UDP clients, whatever is lost; the clients of
\* simple_echo_server(), which serves one at a time; both ends of the bandwidth
\* test, whoever leaves first.
EveryoneEnds ==
    <>[](/\ program = "pipes_ipc" => Pipe!EveryoneEnded
         /\ program = "process_management" => Fork!ParentEnded
         /\ program = "udp_echo" => Udp!ClientsEnded
         /\ program = "tcp_session" => Session!SessionsEnded
         /\ program = "bandwidth_test" => Bandwidth!BothEnded)

\* The properties of the programs, those that say the same of two together:
\* no parent that says that all is done leaves a child behind;
ChildrenReaped == Pipe!ChildrenReaped /\ Fork!CompletedIsTrue

\* what a parent prints of its children is what they sent it or ended with;
PrintedIsTrue == Pipe!PrintedIsSent /\ Fork!StatusIsTrue

\* what a client takes for its answer is its own message, or the first part;
AnswersAreEchoes == Udp!AnswersAreEchoes /\ Session!AnswerIsOwn

\* a file is what the last run made of it, whatever a killed one left;
FilesWhole == File!FileIsWhole /\ Memory!MappedPersists

\* and the properties of one program under its own name.
NoSigpipe == Pipe!NoSigpipe
ServerSurvives == Session!ServerSurvives
ReportsAgree == Bandwidth!ReportsAgree
ConnectIsHonest == Nonblocking!ConnectIsHonest
HeapDiscipline == Memory!HeapDiscipline
CleanedUp == Directory!CleanedUp

Sends == [s \in Signals |-> IF s = "SIGINT" THEN 3 ELSE 1]
=============================================================================
