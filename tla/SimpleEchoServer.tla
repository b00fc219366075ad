--------------------------- MODULE SimpleEchoServer ---------------------------
(***************************************************************************)
(* simple_echo_server() of socket_examples_c.c: one thread that accepts a  *)
(* client, echoes until it leaves, closes and accepts the next.  Whoever   *)
(* connects meanwhile waits in the backlog.                                *)
(***************************************************************************)
EXTENDS EchoServer

CONSTANT
    Faults      \* calls that may fail though their resource is not used up

VARIABLES
    pc,         \* where the server is
    client_fd,
    unsent      \* the part of buffer that send() has not taken yet

process == <<pc, client_fd, unsent>>
vars == <<kernel, process>>

TypeOK ==
    /\ KernelTypeOK
    /\ pc \in {"start", "accept", "recv", "send", "sending", "close",
               "returned", "killed"}
    /\ client_fd \in Fds \cup {-1}
    /\ unsent \in Seq(Bytes)

Init ==
    /\ KernelInit
    /\ pc = "start"
    /\ client_fd = -1
    /\ unsent = <<>>

Running == pc \notin {"start", "returned", "killed"}

Step(from, to) == pc = from /\ pc' = to

\* The function returns, or a signal ends it; main() ends with it.
Terminate(label) ==
    /\ CloseAll
    /\ pc' = label
    /\ UNCHANGED <<client_fd, unsent>>

Start ==
    /\ Step("start", "accept")
    /\ \E f \in Fds : Listen(f)
    /\ UNCHANGED <<client_fd, unsent>>

StartFails == pc = "start" /\ "socket" \in Faults /\ Terminate("returned")

AcceptClient ==
    /\ Step("accept", "recv")
    /\ \E f \in Fds : Accept(f) /\ client_fd' = f
    /\ UNCHANGED unsent

\* accept() = -1: complain and try again.
AcceptFails ==
    /\ pc = "accept"
    /\ "accept" \in Faults \/ NoFreeFd
    /\ client_fd' = -1
    /\ UNCHANGED <<pc, unsent, kernel>>

\* Seeded fault: what was received is kept and sent again with it.
RecvTwice ==
    /\ Step("recv", "send")
    /\ RecvData(client_fd)
    /\ unsent' = RecvBytes(client_fd) \o RecvBytes(client_fd)
    /\ UNCHANGED client_fd

Recv ==
    /\ Step("recv", "send")
    /\ RecvData(client_fd)
    /\ unsent' = RecvBytes(client_fd)
    /\ UNCHANGED client_fd

RecvStops ==
    /\ Step("recv", "close")
    /\ RecvEnds(client_fd)
    /\ UNCHANGED <<client_fd, unsent>>

\* Seeded fault: one round of the echo loop per client.
SendOnce ==
    /\ pc \in {"send", "sending"}
    /\ SendStep(client_fd, unsent, unsent', pc = "sending")
    /\ pc' = IF unsent' = <<>> THEN "close" ELSE "sending"
    /\ UNCHANGED client_fd

Send ==
    /\ pc \in {"send", "sending"}
    /\ SendStep(client_fd, unsent, unsent', pc = "sending")
    /\ pc' = IF unsent' = <<>> THEN "recv" ELSE "sending"
    /\ UNCHANGED client_fd

SendError ==
    /\ Step("send", "close")
    /\ SendFails(client_fd)
    /\ unsent' = <<>>
    /\ UNCHANGED client_fd

SendKills == pc = "send" /\ SendRaisesSigpipe(client_fd) /\ Terminate("killed")

CloseClient ==
    /\ Step("close", "accept")
    /\ CloseFd(client_fd)
    /\ UNCHANGED <<client_fd, unsent>>

Server ==
    \/ Start
    \/ StartFails
    \/ AcceptClient
    \/ AcceptFails
    \/ Recv
    \/ RecvStops
    \/ Send
    \/ SendError
    \/ SendKills
    \/ CloseClient

Environment == UNCHANGED process /\ \E c \in Clients : ClientStep(c)

Next == Server \/ Environment

Spec == Init /\ [][Next]_vars

-----------------------------------------------------------------------------
\* The server ends a connection only after the client did, and with every byte
\* of an orderly leaver echoed, and starts with the next one only then: it
\* never has two (lines 78-108).
OneAtATime ==
    [][Running' =>
       /\ Cardinality({c \in Clients : conn'[c].sv = "accepted"}) <= 1
       /\ \A c \in Clients :
             conn[c].sv = "accepted" /\ conn'[c].sv = "closed" =>
                /\ conn[c].cl = "closed"
                /\ conn[c].rst = "no" => Len(conn[c].echo) = conn[c].sent]_vars
=============================================================================
