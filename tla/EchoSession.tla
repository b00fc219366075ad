----------------------------- MODULE EchoSession -----------------------------
(***************************************************************************)
(* simple_echo_server() with simple_tcp_client() of socket_examples_c.c,   *)
(* or TCPClient of socket_examples_cpp.cpp, at the other ends of its       *)
(* connections instead of clients that do anything at all.  A client sends *)
(* one message of MaxBytes bytes, takes one recv() of the echo, which may  *)
(* be a part of it, and leaves; it waits five seconds for it.              *)
(*                                                                         *)
(* send() returns when the kernel has the message; it arrives byte by byte *)
(* (ClientSend), before the FIN of a client that has ended by then.        *)
(***************************************************************************)
EXTENDS SimpleEchoServer

CONSTANT
    ClientBuf   \* bytes the one recv() takes at most

VARIABLE
    client      \* client[c]: where the program of client c is

sessionVars == <<vars, client>>

SessionTypeOK ==
    /\ TypeOK
    /\ client \in [Clients -> {"start", "connected", "recv", "copying",
                              "received", "unanswered"}]

SessionInit ==
    /\ Init
    /\ client = [c \in Clients |-> "start"]

ClientAt(c, from, to) ==
    client[c] = from /\ client' = [client EXCEPT ![c] = to]

ClientEnded(c) == client[c] \in {"received", "unanswered"}

\* socket(), inet_pton() or connect() fails, or nobody listens.
ConnectFails(c) == ClientAt(c, "start", "unanswered") /\ UNCHANGED kernel

ClientConnects(c) == ClientAt(c, "start", "connected") /\ Connect(c)

\* send(), once the connection was reset: -1, or SIGPIPE, which ends it too.
SendRefused(c) ==
    /\ ClientAt(c, "connected", "unanswered")
    /\ conn[c].sv = "closed"
    /\ UNCHANGED kernel

SendsMessage(c) == ClientAt(c, "connected", "recv") /\ UNCHANGED kernel

\* The only recv(): what has come of the echo, up to the size of the buffer.
CopiesByte(c) ==
    /\ client[c] \in {"recv", "copying"}
    /\ conn[c].got < ClientBuf
    /\ ClientRecv(c)
    /\ client' = [client EXCEPT ![c] = "copying"]

RecvReturns(c) ==
    /\ ClientAt(c, "copying", "received")
    /\ Unread(c) = 0 \/ conn[c].got = ClientBuf
    /\ UNCHANGED kernel

\* recv() returns 0 or -1: the server has closed, or the five seconds of
\* SO_RCVTIMEO are over.
RecvEndsEmpty(c) ==
    ClientAt(c, "recv", "unanswered") /\ Unread(c) = 0 /\ UNCHANGED kernel

TcpClient(c) ==
    \/ ConnectFails(c)
    \/ ClientConnects(c)
    \/ SendRefused(c)
    \/ SendsMessage(c)
    \/ CopiesByte(c)
    \/ RecvReturns(c)
    \/ RecvEndsEmpty(c)

\* The FIN goes behind the message, as far as there is anybody to take it.
Delivered(c) == conn[c].sent = MaxBytes \/ conn[c].sv = "closed"

\* disconnect() of the C++ client, called when it has its answer, is a
\* shutdown() before the close(); the C client, and one without an answer, has
\* only the close().
Disconnects(c) == client[c] = "received"

\* The network: the rest of the message, then what the end of the client
\* sends, and the answer to an echo that comes too late.
Arrives(c) ==
    /\ UNCHANGED client
    /\ \/ client[c] \notin {"start", "connected"} /\ ClientSend(c)
       \/ /\ ClientEnded(c)
          /\ \/ ClientAbort(c)
             \/ /\ Delivered(c)
                /\ Unread(c) = 0 \/ Disconnects(c)
                /\ ClientClose(c)
       \/ ResetArrives(c)

SessionServer == Server /\ UNCHANGED client
ClientRuns(c) == TcpClient(c) /\ UNCHANGED process
NetworkRuns(c) == Arrives(c) /\ UNCHANGED process

SessionNext ==
    \/ SessionServer
    \/ \E c \in Clients : ClientRuns(c) \/ NetworkRuns(c)

SessionSpec == SessionInit /\ [][SessionNext]_sessionVars

-----------------------------------------------------------------------------
(* Properties.                                                             *)

\* In the end every client has ended and its connection is given back, though
\* the server has one client at a time, the message or the echo comes in parts
\* and a client that waits in the backlog gives up: nobody waits for ever for
\* somebody who waits for him (c lines 78-108 and 169-192).
SessionsEnded ==
    \A c \in Clients : ClientEnded(c) /\ conn[c].sv \in {"none", "closed"}

\* The server survives its clients as long as each one takes the whole echo:
\* it is killed by SIGPIPE only if one left with a part of it, or without
\* (c lines 96-104, 176-192).
ServerSurvives ==
    pc = "killed" => \E c \in Clients : ClientEnded(c) /\ conn[c].got < MaxBytes

\* An answer is the beginning of the client's own message, and not empty
\* (c lines 176-189).
AnswerIsOwn ==
    \A c \in Clients : client[c] = "received" =>
       /\ conn[c].got \in 1..ClientBuf
       /\ \A k \in 1..conn[c].got : conn[c].echo[k] = <<c, k>>
=============================================================================
