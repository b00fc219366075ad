------------------------------ MODULE SelectLoop ------------------------------
(***************************************************************************)
(* The loop that select_based_server() of socket_examples_c.c and          *)
(* SelectEchoServer::run() of socket_examples_cpp.cpp have in common: one  *)
(* thread builds the read set from its table of clients, waits in          *)
(* select(), accepts at most one client and then scans the table.  What    *)
(* they do differently - a full table, a client that leaves, a send() that *)
(* fails - is in the modules of the two servers.                           *)
(***************************************************************************)
EXTENDS EchoServer

CONSTANTS
    FdSetSize,  \* FD_SETSIZE: length of the table and width of an fd_set
    Faults      \* calls that may fail though their resource is not used up

ASSUME SelectAssumption ==
    /\ FdSetSize \in Nat \ {0}
    /\ Faults \subseteq {"socket", "select", "accept"}

VARIABLES
    pc,         \* where the loop is
    listen_fd,
    clients,    \* the table from its first entry to its last; -1 is no client
    read_set,   \* before select() what is asked, after it what is ready
    i,          \* index of the scan and of the closing loop, from 1
    unsent      \* the part of buffer that send() has not taken yet

process == <<pc, listen_fd, clients, read_set, i, unsent>>
vars == <<kernel, process>>

TypeOK ==
    /\ KernelTypeOK
    /\ pc \in {"start", "build", "select", "accept", "scan", "remove", "send",
               "sending", "close_listener", "close_clients", "unwind",
               "returned", "ended", "killed"}
    /\ listen_fd \in Fds \cup {-1}
    /\ clients \in Seq(Fds \cup {-1})
    /\ Len(clients) <= FdSetSize
    /\ read_set \in SUBSET Fds
    /\ i \in 1..(FdSetSize + 1)
    /\ unsent \in Seq(Bytes)

Init ==
    /\ KernelInit
    /\ pc = "start"
    /\ listen_fd = -1
    /\ clients = <<>>
    /\ read_set = {}
    /\ i = 1
    /\ unsent = <<>>

Running == pc \in {"build", "select", "accept", "scan", "remove", "send", "sending"}

\* The loop is left, and the sockets are closed one after the other.
Closing == pc \in {"close_listener", "close_clients", "unwind"}

\* One step of the thread from one place of the loop to another.
Step(from, to) == pc = from /\ pc' = to

\* The process ends, and the system closes what it has left open.
Terminate(label) ==
    /\ CloseAll
    /\ pc' = label
    /\ UNCHANGED <<listen_fd, clients, read_set, i, unsent>>

Start ==
    /\ Step("start", "build")
    /\ \E f \in Fds : Listen(f) /\ listen_fd' = f
    /\ UNCHANGED <<clients, read_set, i, unsent>>

StartFails ==
    /\ Step("start", "returned")
    /\ "socket" \in Faults
    /\ UNCHANGED <<listen_fd, clients, read_set, i, unsent, kernel>>

-----------------------------------------------------------------------------
(* The read set and select().                                              *)

Valid == {k \in DOMAIN clients : clients[k] # -1}
Tracked == {clients[k] : k \in Valid}

\* Seeded fault: the loop over the table ends one entry too early.
BuildReadSetShort ==
    /\ Step("build", "select")
    /\ read_set' = {listen_fd} \cup {clients[k] : k \in Valid \ {Len(clients)}}
    /\ UNCHANGED <<listen_fd, clients, i, unsent, kernel>>

\* FD_SET() of a descriptor the set has no bit for writes past it on the
\* stack: the descriptor may be watched all the same.
BuildReadSet ==
    /\ Step("build", "select")
    /\ read_set' = {listen_fd} \cup Tracked
    /\ UNCHANGED <<listen_fd, clients, i, unsent, kernel>>

\* ... or the process may die of it.
BuildCorruptsStack ==
    /\ pc = "build"
    /\ \E f \in {listen_fd} \cup Tracked : f >= FdSetSize
    /\ Terminate("killed")

Readable(f) ==
    \/ fdtab[f] = "listener" /\ Pending # {}
    \/ /\ Connected(f)
       /\ \/ Available(f) > 0
          \/ conn[fdtab[f]].fin
          \/ conn[fdtab[f]].rst # "no"

SelectReady ==
    /\ Step("select", "accept")
    /\ \E f \in read_set : Readable(f)
    /\ read_set' = {f \in read_set : Readable(f)}
    /\ UNCHANGED <<listen_fd, clients, i, unsent, kernel>>

\* Five seconds without activity.
SelectTimeout ==
    /\ Step("select", "build")
    /\ \A f \in read_set : ~Readable(f)
    /\ read_set' = {}
    /\ UNCHANGED <<listen_fd, clients, i, unsent, kernel>>

\* select() = -1: the loop is left, and the place next closes the first socket.
SelectFails(next) ==
    /\ Step("select", next)
    /\ "select" \in Faults
    /\ i' = 1
    /\ UNCHANGED <<listen_fd, clients, read_set, unsent, kernel>>

-----------------------------------------------------------------------------
(* One accept() per round, if the listening socket was ready; then the     *)
(* scan begins.                                                            *)

Accepting ==
    /\ Step("accept", "scan")
    /\ i' = 1
    /\ UNCHANGED <<listen_fd, read_set, unsent>>

\* Seeded fault: the length of the table is not checked.
AcceptClientUnbounded ==
    /\ Accepting
    /\ listen_fd \in read_set
    /\ \E f \in Fds : Accept(f) /\ clients' = Append(clients, f)

AcceptClient ==
    /\ Accepting
    /\ listen_fd \in read_set
    /\ Len(clients) < FdSetSize
    /\ \E f \in Fds : Accept(f) /\ clients' = Append(clients, f)

\* accept() = -1 is passed over; so is a listening socket that is not ready.
AcceptNothing ==
    /\ Accepting
    /\ listen_fd \notin read_set \/ NoFreeFd \/ "accept" \in Faults
    /\ UNCHANGED <<clients, kernel>>

-----------------------------------------------------------------------------
(* The scan of the table, with the read set of this round.                 *)

Scanned == pc = "scan" /\ i \in Valid /\ clients[i] \in read_set

ScanSkips ==
    /\ pc = "scan"
    /\ i <= Len(clients)
    /\ i \in Valid => clients[i] \notin read_set
    /\ i' = i + 1
    /\ UNCHANGED <<pc, listen_fd, clients, read_set, unsent, kernel>>

ScanEnds ==
    /\ Step("scan", "build")
    /\ i > Len(clients)
    /\ UNCHANGED <<listen_fd, clients, read_set, i, unsent, kernel>>

ScanRecv ==
    /\ Scanned
    /\ RecvData(clients[i])
    /\ unsent' = RecvBytes(clients[i])
    /\ pc' = "send"
    /\ UNCHANGED <<listen_fd, clients, read_set, i>>

\* Seeded fault: only a recv() of -1, and not the end of the stream, removes
\* the client.
ScanRecvEndsOnErrorOnly ==
    /\ Scanned
    /\ RecvEnds(clients[i])
    /\ IF conn' # conn THEN pc' = "remove" /\ UNCHANGED i
                       ELSE UNCHANGED pc /\ i' = i + 1
    /\ UNCHANGED <<listen_fd, clients, read_set, unsent>>

ScanRecvEnds ==
    /\ Scanned
    /\ RecvEnds(clients[i])
    /\ pc' = "remove"
    /\ UNCHANGED <<listen_fd, clients, read_set, i, unsent>>

\* Seeded fault: the send starts again at the first byte of the buffer.
SendRestarts ==
    /\ pc \in {"send", "sending"}
    /\ SendByte(clients[i], Head(unsent))
    /\ pc' = "sending"
    /\ UNCHANGED <<listen_fd, clients, read_set, i, unsent>>

\* A step of the blocking send(); when it returns, whatever it returns above
\* zero, the scan goes on.
Send ==
    /\ pc \in {"send", "sending"}
    /\ SendStep(clients[i], unsent, unsent', pc = "sending")
    /\ IF unsent' = <<>> THEN pc' = "scan" /\ i' = i + 1
                         ELSE pc' = "sending" /\ UNCHANGED i
    /\ UNCHANGED <<listen_fd, clients, read_set>>

SendKills ==
    /\ pc = "send"
    /\ SendRaisesSigpipe(clients[i])
    /\ Terminate("killed")

-----------------------------------------------------------------------------
(* After the loop.                                                         *)

\* The entries of the table from the first to the last; -1 is passed over.
CloseClient ==
    /\ pc \in {"close_clients", "unwind"}
    /\ i <= Len(clients)
    /\ IF i \in Valid THEN CloseFd(clients[i]) ELSE UNCHANGED kernel
    /\ i' = i + 1
    /\ UNCHANGED <<pc, listen_fd, clients, read_set, unsent>>

\* main() ends when the server has returned, normally or by an exception.
MainEnds == pc = "returned" /\ Terminate("ended")

Loop ==
    \/ Start
    \/ StartFails
    \/ BuildReadSet
    \/ BuildCorruptsStack
    \/ SelectReady
    \/ SelectTimeout
    \/ AcceptClient
    \/ AcceptNothing
    \/ ScanSkips
    \/ ScanEnds
    \/ ScanRecv
    \/ ScanRecvEnds
    \/ Send
    \/ SendKills
    \/ CloseClient
    \/ MainEnds

Environment == UNCHANGED process /\ \E c \in Clients : ClientStep(c)

-----------------------------------------------------------------------------
(* Properties of both servers.                                             *)

\* The entries whose connections are open: all in the loop, then those that
\* the closing loop has not reached.
Held ==
    {k \in Valid : Running \/ (Closing /\ k >= i)}

\* The entries of the table that hold a client are distinct open connections,
\* through every removal during a scan: no descriptor is kept that was closed
\* and may be given out again.  After a failed select() each socket is closed
\* once: what the closing loop comes to is open, what it has passed is closed,
\* and the function returns with neither a client of the table nor its
\* listening socket open (c lines 629-653, cpp lines 573-615 and 70-85).
SlotsAreConnections ==
    /\ \A k \in Valid : Connected(clients[k]) <=> k \in Held
    /\ \A k, l \in Held : clients[k] = clients[l] => k = l
    /\ pc = "returned" => ~Listening

\* The server forgets no open connection: one that is not in the table found
\* it full when it was accepted, and no removal or move loses one later
\* (c lines 615-645, cpp lines 574-615).
EveryConnectionTracked ==
    [][\A f \in Fds :
         /\ Running /\ Running'
         /\ fdtab'[f] \in Clients
         /\ f \notin Tracked'
         => \/ ~Connected(f) /\ Len(clients) = FdSetSize
            \/ Connected(f) /\ f \notin Tracked]_vars

\* The client sockets are blocking, so the one recv() per round must find
\* something though the table changed since select() returned: a descriptor
\* of the read set still is the connection select() looked at
\* (c lines 615-631, cpp lines 574-601).
RecvNeverBlocks == Scanned => Readable(clients[i])

\* The server closes a connection it tracks only after the client closed it,
\* and with every byte of an orderly leaver echoed, unless it ends
\* (c lines 631-643, cpp lines 600-613).
CloseIsJustified ==
    [][\A c \in Clients :
         conn[c].sv = "accepted" /\ conn'[c].sv = "closed" /\ Running' =>
            /\ conn[c].cl = "closed"
            /\ conn[c].rst = "no" => Len(conn[c].echo) = conn[c].sent]_vars
=============================================================================
