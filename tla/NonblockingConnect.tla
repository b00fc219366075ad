-------------------------- MODULE NonblockingConnect --------------------------
(***************************************************************************)
(* nonblocking_connect() and set_nonblocking() of socket_examples_c.c: a   *)
(* connection attempt that is given up after timeout_sec seconds.  The     *)
(* other host accepts it, refuses it or never answers, and may reset the   *)
(* connection later; all of it at any moment.  No program of the           *)
(* repository calls the function.                                          *)
(***************************************************************************)
EXTENDS Naturals

CONSTANT
    Timeout     \* timeout_sec

VARIABLES
    pc,         \* where the function is
    sockfd,     \* the state of the descriptor
    link,       \* the state of the connection
    waited,     \* seconds since select() was called
    result      \* what the function returned: "fd" or -1

vars == <<pc, sockfd, link, waited, result>>

TypeOK ==
    /\ pc \in {"socket", "fcntl", "connect", "select", "getsockopt", "close",
               "returned"}
    /\ sockfd \in {"none", "blocking", "nonblocking", "closed"}
    /\ link \in {"none", "syn_sent", "established", "error"}
    /\ waited \in 0..Timeout
    /\ result \in {"none", "fd", "-1"}

Init ==
    /\ pc = "socket"
    /\ sockfd = "none"
    /\ link = "none"
    /\ waited = 0
    /\ result = "none"

Step(from, to) == pc = from /\ pc' = to

Socket ==
    /\ \/ Step("socket", "fcntl") /\ sockfd' = "blocking" /\ UNCHANGED result
       \/ Step("socket", "returned") /\ UNCHANGED sockfd /\ result' = "-1"
    /\ UNCHANGED <<link, waited>>

\* F_GETFL and F_SETFL; either may fail.
SetNonblocking ==
    /\ \/ Step("fcntl", "connect") /\ sockfd' = "nonblocking"
       \/ Step("fcntl", "close") /\ UNCHANGED sockfd
    /\ UNCHANGED <<link, waited, result>>

\* EINPROGRESS, a connection at once, or an error at once.
Connect ==
    /\ \/ Step("connect", "select") /\ link' \in {"syn_sent", "established"}
       \/ Step("connect", "close") /\ UNCHANGED link
    /\ UNCHANGED <<sockfd, waited, result>>

Writable == link # "syn_sent"

\* The socket is writable once the attempt is decided, either way; select()
\* returns 0 only if it is not when the time is over, and may fail.
Select ==
    /\ \/ Writable /\ Step("select", "getsockopt")
       \/ ~Writable /\ waited = Timeout /\ Step("select", "close")
       \/ Step("select", "close")
    /\ UNCHANGED <<sockfd, link, waited, result>>

\* Seeded fault: a writable socket is taken for a connection.
GetSockOptSkipped ==
    /\ Step("getsockopt", "returned")
    /\ result' = "fd"
    /\ UNCHANGED <<sockfd, link, waited>>

\* SO_ERROR decides; getsockopt() itself may fail.
GetSockOpt ==
    /\ \/ link = "established" /\ Step("getsockopt", "returned") /\ result' = "fd"
       \/ Step("getsockopt", "close") /\ UNCHANGED result
    /\ UNCHANGED <<sockfd, link, waited>>

Close ==
    /\ Step("close", "returned")
    /\ sockfd' = "closed"
    /\ result' = "-1"
    /\ UNCHANGED <<link, waited>>

Function == Socket \/ SetNonblocking \/ Connect \/ Select \/ GetSockOpt \/ Close

\* SYN and ACK, RST, an ICMP error or the end of all retries.
Network ==
    /\ \/ link = "syn_sent" /\ link' \in {"established", "error"}
       \/ link = "established" /\ link' = "error"
    /\ UNCHANGED <<pc, sockfd, waited, result>>

\* Time passes in select() only: the process is scheduled when its wait is over,
\* and its other calls do not block.
Tick ==
    /\ pc = "select" /\ ~Writable /\ waited < Timeout
    /\ waited' = waited + 1
    /\ UNCHANGED <<pc, sockfd, link, result>>

Next == Function \/ Network \/ Tick

Spec == Init /\ [][Next]_vars

-----------------------------------------------------------------------------
\* The descriptor is returned only if the connection stood when it was looked
\* at last, and in non-blocking mode; -1 is returned with the descriptor closed,
\* whichever call failed, and also when the answer comes just after the time is
\* over (lines 473-525).
ConnectIsHonest ==
    [][result' # result =>
         /\ result' = "fd" => sockfd = "nonblocking" /\ link = "established"
         /\ result' = "-1" => sockfd' \in {"none", "closed"}]_vars
=============================================================================
