-------------------------- MODULE SelectEchoServer --------------------------
(***************************************************************************)
(* class SelectEchoServer of socket_examples_cpp.cpp: the table of         *)
(* SelectLoop is a vector of Socket objects.  A client that leaves has its *)
(* Socket closed and reset; its entry stays in the vector.                 *)
(***************************************************************************)
EXTENDS SelectLoop

\* The vector is full: the local Socket closes the connection again.
AcceptRefuses ==
    /\ Accepting
    /\ listen_fd \in read_set
    /\ Len(clients) = FdSetSize
    /\ ~NoFreeFd
    /\ \E c \in Pending : conn' = [conn EXCEPT ![c].sv = "closed"]
    /\ UNCHANGED <<clients, fdtab>>

\* Seeded fault: the descriptor is closed and the Socket not reset.
ResetKeepsFd ==
    /\ Step("remove", "scan")
    /\ CloseFd(clients[i])
    /\ i' = i + 1
    /\ UNCHANGED <<listen_fd, clients, read_set, unsent>>

\* clients[i] = Socket()
Reset ==
    /\ Step("remove", "scan")
    /\ CloseFd(clients[i])
    /\ clients' = [clients EXCEPT ![i] = -1]
    /\ i' = i + 1
    /\ UNCHANGED <<listen_fd, read_set, unsent>>

\* The SocketException of send() closes the client.
SendThrows ==
    /\ Step("send", "remove")
    /\ SendFails(clients[i])
    /\ unsent' = <<>>
    /\ UNCHANGED <<listen_fd, clients, read_set, i>>

\* The SocketException of select() leaves run() and main() destroys the server:
\* first the Sockets of the vector, then listen_socket.
CloseListener ==
    /\ Step("unwind", "returned")
    /\ i > Len(clients)
    /\ CloseFd(listen_fd)
    /\ UNCHANGED <<listen_fd, clients, read_set, i, unsent>>

Server ==
    \/ Loop
    \/ AcceptRefuses
    \/ Reset
    \/ SendThrows
    \/ SelectFails("unwind")
    \/ CloseListener

Next == Server \/ Environment

Spec == Init /\ [][Next]_vars

-----------------------------------------------------------------------------
\* "Max FD_SETSIZE clients" (line 541): a client is turned away only while
\* that many are connected.
RefusedOnlyWhenFull ==
    [][\A c \in Clients :
         conn[c].sv = "backlog" /\ conn'[c].sv = "closed" /\ Running' =>
            Cardinality(Valid) = FdSetSize]_vars
=============================================================================
