-------------------------- MODULE SelectBasedServer --------------------------
(***************************************************************************)
(* select_based_server() of socket_examples_c.c: the table of SelectLoop   *)
(* is clients[0 .. num_clients - 1], without gaps.  What the array holds   *)
(* behind num_clients is never read, so the sequence ends there.           *)
(***************************************************************************)
EXTENDS SelectLoop

\* The array is full: the new descriptor is neither stored nor closed.
AcceptForgets ==
    /\ Accepting
    /\ listen_fd \in read_set
    /\ Len(clients) = FdSetSize
    /\ \E f \in Fds : Accept(f)
    /\ UNCHANGED clients

\* memmove() of the entries behind the one of the scan, and num_clients--.
WithoutScanned ==
    SubSeq(clients, 1, i - 1) \o SubSeq(clients, i + 1, Len(clients))

\* Seeded fault: the entry is removed but the descriptor not closed.
RemoveLeaks ==
    /\ Step("remove", "scan")
    /\ clients' = WithoutScanned
    /\ UNCHANGED <<listen_fd, read_set, i, unsent, kernel>>

\* Seeded fault: the descriptor closed is the one that moved up.
RemoveThenClose ==
    /\ Step("remove", "scan")
    /\ clients' = WithoutScanned
    /\ CloseFd(IF i < Len(clients) THEN clients[i + 1] ELSE clients[i])
    /\ UNCHANGED <<listen_fd, read_set, i, unsent>>

\* i-- and the i++ of the loop leave the index where it is.
Remove ==
    /\ Step("remove", "scan")
    /\ CloseFd(clients[i])
    /\ clients' = WithoutScanned
    /\ UNCHANGED <<listen_fd, read_set, i, unsent>>

\* The result of send() is not looked at.
SendError ==
    /\ Step("send", "scan")
    /\ SendFails(clients[i])
    /\ unsent' = <<>>
    /\ i' = i + 1
    /\ UNCHANGED <<listen_fd, clients, read_set>>

\* break; close(listen_fd).
CloseListener ==
    /\ Step("close_listener", "close_clients")
    /\ CloseFd(listen_fd)
    /\ UNCHANGED <<listen_fd, clients, read_set, i, unsent>>

\* Seeded fault: the closing loop ends one entry too early.
ClientsClosedShort ==
    /\ Step("close_clients", "returned")
    /\ i >= Len(clients)
    /\ UNCHANGED <<listen_fd, clients, read_set, i, unsent, kernel>>

ClientsClosed ==
    /\ Step("close_clients", "returned")
    /\ i > Len(clients)
    /\ UNCHANGED <<listen_fd, clients, read_set, i, unsent, kernel>>

Server ==
    \/ Loop
    \/ AcceptForgets
    \/ Remove
    \/ SendError
    \/ SelectFails("close_listener")
    \/ CloseListener
    \/ ClientsClosed

Next == Server \/ Environment

Spec == Init /\ [][Next]_vars

\* The one thread of the server runs, the network delivers resets, and only
\* patient clients are bound to read on.
FairSpec ==
    /\ Spec
    /\ WF_vars(Server)
    /\ \A c \in Clients : WF_vars(UNCHANGED process /\ ResetArrives(c))
    /\ \A c \in Patient : WF_vars(UNCHANGED process /\ ClientRecv(c))
=============================================================================
