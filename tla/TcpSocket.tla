------------------------------ MODULE TcpSocket ------------------------------
(***************************************************************************)
(* The part of the Linux TCP stack the echo servers of                     *)
(* socket_examples_c.c call: the descriptor table of the one server        *)
(* process, the connections, and the remote clients at their other ends.   *)
(* None of it is code of the repository; it is modelled from how the       *)
(* servers use it.                                                         *)
(*                                                                         *)
(* Every client connects once and sends at most MaxBytes bytes; the k-th   *)
(* byte of client c is the pair <<c, k>>, so a byte that reaches the wrong *)
(* client, or the right one twice, is recognised.                          *)
(***************************************************************************)
EXTENDS Integers, Sequences, FiniteSets

CONSTANTS
    Clients,    \* the remote clients
    Patient,    \* clients that keep reading and stay until all is echoed
    Stalled,    \* clients that never read and never close
    MaxBytes,   \* bound: bytes a client sends
    BufSize,    \* sizeof(buffer) in the server, in bytes of the model
    SockBuf,    \* bytes the kernel takes from send() ahead of the client
    Rlimit      \* RLIMIT_NOFILE: descriptors are 0 .. Rlimit - 1

ASSUME ClientsAssumption ==
    /\ Patient \subseteq Clients
    /\ Stalled \subseteq Clients \ Patient
    /\ {"free", "listener", "shut"} \cap Clients = {}

ASSUME SizesAssumption ==
    /\ MaxBytes \in Nat \ {0}
    /\ BufSize \in Nat \ {0}
    /\ SockBuf \in Nat \ {0}
    /\ Rlimit \in Nat \ (0..3)

VARIABLES
    conn,       \* conn[c]: the connection of client c
    fdtab       \* fdtab[f]: what descriptor f of the server refers to

kernel == <<conn, fdtab>>

\* 0, 1 and 2 are the standard streams and stay open.
Fds == 3 .. (Rlimit - 1)

Bytes == Clients \X (1..MaxBytes)

\* What a pending reset makes of the next call on the socket.  "reported":
\* the error was handed to one call, later ones see a dead socket.
Resets == {"no", "ECONNRESET", "EPIPE", "reported"}

Conn == [cl    : {"idle", "open", "closed"},          \* the client's end
         sv    : {"none", "backlog", "accepted", "closed"}, \* the server's end
         sent  : 0..MaxBytes,    \* bytes the client has sent
         taken : 0..MaxBytes,    \* bytes recv() has handed to the server
         echo  : Seq(Bytes),     \* bytes send() has taken from the server
         got   : Nat,            \* bytes of echo the client has read
         fin   : BOOLEAN,        \* the client's FIN has arrived
         rst   : Resets]

KernelTypeOK ==
    /\ conn \in [Clients -> Conn]
    /\ fdtab \in [Fds -> Clients \cup {"free", "listener", "shut"}]

KernelInit ==
    /\ conn = [c \in Clients |->
                 [cl |-> "idle", sv |-> "none", sent |-> 0, taken |-> 0,
                  echo |-> <<>>, got |-> 0, fin |-> FALSE, rst |-> "no"]]
    /\ fdtab = [f \in Fds |-> "free"]

Listening == \E f \in Fds : fdtab[f] = "listener"
Unread(c) == Len(conn[c].echo) - conn[c].got

-----------------------------------------------------------------------------
(* The clients and the network.                                            *)

Connect(c) ==
    /\ conn[c].cl = "idle"
    /\ Listening
    /\ conn' = [conn EXCEPT ![c] = [@ EXCEPT !.cl = "open", !.sv = "backlog"]]
    /\ UNCHANGED fdtab

\* What a client sends after the server closed never arrives.
ClientSend(c) ==
    /\ conn[c].cl = "open"
    /\ conn[c].sv \in {"backlog", "accepted"}
    /\ conn[c].sent < MaxBytes
    /\ conn' = [conn EXCEPT ![c].sent = @ + 1]
    /\ UNCHANGED fdtab

ClientRecv(c) ==
    /\ conn[c].cl = "open"
    /\ c \notin Stalled
    /\ Unread(c) > 0
    /\ conn' = [conn EXCEPT ![c].got = @ + 1]
    /\ UNCHANGED fdtab

MayClose(c) ==
    /\ conn[c].cl = "open"
    /\ c \notin Stalled
    /\ c \in Patient => conn[c].got = conn[c].sent

\* A close with all read, or a shutdown() before the close: a FIN.
ClientClose(c) ==
    /\ MayClose(c)
    /\ conn' = [conn EXCEPT ![c] = [@ EXCEPT !.cl = "closed", !.fin = TRUE]]
    /\ UNCHANGED fdtab

\* A close that discards unread bytes sends RST instead of FIN.
ClientAbort(c) ==
    /\ MayClose(c)
    /\ Unread(c) > 0
    /\ conn' = [conn EXCEPT ![c] = [@ EXCEPT !.cl = "closed", !.rst = "ECONNRESET"]]
    /\ UNCHANGED fdtab

\* The answer to bytes that reached a client after its close, or that it had
\* not read when it came to that after a shutdown(): the server's end, which
\* has seen the FIN, records EPIPE.
ResetArrives(c) ==
    /\ conn[c].fin
    /\ conn[c].rst = "no"
    /\ conn[c].sv = "accepted"
    /\ Unread(c) > 0
    /\ conn' = [conn EXCEPT ![c].rst = "EPIPE"]
    /\ UNCHANGED fdtab

ClientStep(c) ==
    \/ Connect(c)
    \/ ClientSend(c)
    \/ ClientRecv(c)
    \/ ClientClose(c)
    \/ ClientAbort(c)
    \/ ResetArrives(c)

-----------------------------------------------------------------------------
(* The system calls of the server.                                         *)

LowestFree(f) ==
    /\ fdtab[f] = "free"
    /\ \A g \in Fds : fdtab[g] = "free" => f <= g

NoFreeFd == \A f \in Fds : fdtab[f] # "free"

Pending == {c \in Clients : conn[c].sv = "backlog"}

\* socket(), bind() and listen() on a process that has no other sockets.
Listen(f) ==
    /\ LowestFree(f)
    /\ fdtab' = [fdtab EXCEPT ![f] = "listener"]
    /\ UNCHANGED conn

\* shutdown() of the listening socket: it stays open but accepts no more, and
\* the connections nobody accepted are gone.
ShutdownListener ==
    /\ fdtab' = [f \in Fds |-> IF fdtab[f] = "listener" THEN "shut" ELSE fdtab[f]]
    /\ conn' = [c \in Clients |-> IF conn[c].sv = "backlog"
                                  THEN [conn[c] EXCEPT !.sv = "closed"]
                                  ELSE conn[c]]

\* accept() returns f.  Any pending connection may be the one at the head.
Accept(f) ==
    /\ Listening
    /\ LowestFree(f)
    /\ \E c \in Pending :
          /\ conn' = [conn EXCEPT ![c].sv = "accepted"]
          /\ fdtab' = [fdtab EXCEPT ![f] = c]

Connected(f) == f \in Fds /\ fdtab[f] \in Clients

\* What the client behind f has sent and the server has not taken.
Available(f) == conn[fdtab[f]].sent - conn[fdtab[f]].taken

RecvCount(f) == IF Available(f) <= BufSize THEN Available(f) ELSE BufSize

\* What a successful recv() on f leaves in the buffer, from its start.
RecvBytes(f) ==
    [k \in 1..RecvCount(f) |-> <<fdtab[f], conn[fdtab[f]].taken + k>>]

\* recv() > 0
RecvData(f) ==
    /\ Connected(f)
    /\ Available(f) > 0
    /\ conn' = [conn EXCEPT ![fdtab[f]].taken = @ + RecvCount(f)]
    /\ UNCHANGED fdtab

\* recv() <= 0: end of stream, a reset (reported once), or not a socket.
RecvEnds(f) ==
    /\ UNCHANGED fdtab
    /\ \/ ~Connected(f) /\ UNCHANGED conn
       \/ /\ Connected(f)
          /\ Available(f) = 0
          /\ LET c == fdtab[f]
             IN  \/ /\ conn[c].fin \/ conn[c].rst = "reported"
                    /\ UNCHANGED conn
                 \/ /\ ~conn[c].fin /\ conn[c].rst = "ECONNRESET"
                    /\ conn' = [conn EXCEPT ![c].rst = "reported"]

\* The kernel takes the next byte of a send() that still has room.
SendByte(f, byte) ==
    /\ Connected(f)
    /\ LET c == fdtab[f]
       IN  /\ conn[c].rst = "no"
           /\ Unread(c) < SockBuf
           /\ conn' = [conn EXCEPT ![c].echo = Append(@, byte)]
    /\ UNCHANGED fdtab

\* send() = -1 with no signal: the reset the peer sent is reported, once.
SendFails(f) ==
    /\ UNCHANGED fdtab
    /\ \/ ~Connected(f) /\ UNCHANGED conn
       \/ /\ Connected(f)
          /\ conn[fdtab[f]].rst = "ECONNRESET"
          /\ conn' = [conn EXCEPT ![fdtab[f]].rst = "reported"]

\* send() on a connection known to be dead raises SIGPIPE.
SendRaisesSigpipe(f) ==
    /\ Connected(f)
    /\ conn[fdtab[f]].rst \in {"EPIPE", "reported"}

\* A send() that already took bytes when the reset came returns their count.
SendCutShort(f) == Connected(f) /\ conn[fdtab[f]].rst # "no"

\* close(); on a descriptor that is not open it changes nothing.
CloseFd(f) ==
    /\ fdtab' = [g \in Fds |-> IF g = f THEN "free" ELSE fdtab[g]]
    /\ conn' = [c \in Clients |->
                  IF \/ f \in Fds /\ fdtab[f] = c
                     \/ /\ f \in Fds /\ fdtab[f] = "listener"
                        /\ conn[c].sv = "backlog"
                  THEN [conn[c] EXCEPT !.sv = "closed"]
                  ELSE conn[c]]

\* The process ends, by return from main() or by a signal.
CloseAll ==
    /\ fdtab' = [f \in Fds |-> "free"]
    /\ conn' = [c \in Clients |->
                  IF conn[c].sv \in {"backlog", "accepted"}
                  THEN [conn[c] EXCEPT !.sv = "closed"]
                  ELSE conn[c]]
=============================================================================
