------------------------------- MODULE UdpEcho -------------------------------
(***************************************************************************)
(* udp_echo_server() and udp_client() of socket_examples_c.c, and the      *)
(* classes UDPServer and UDPClient of socket_examples_cpp.cpp, which do    *)
(* the same and throw where the C code returns -1.  A client is one run of *)
(* the program: it sends its message and waits for one datagram.           *)
(*                                                                         *)
(* A datagram stays in net when it is received: it may be received again,  *)
(* in any order, and one that is lost is one that never is.                *)
(***************************************************************************)
EXTENDS Naturals

CONSTANTS
    Runs,       \* runs of the client program
    Ports,      \* ports the kernel gives the clients
    Length,     \* Length[r]: the length of the message of run r
    ServerBuf,  \* bytes recvfrom() takes in the server
    ClientBuf   \* and in the client, where C leaves a byte for the '\0'

VARIABLES
    net,        \* every datagram ever sent
    server,     \* where the server is
    buffer,     \* its client_addr and the n bytes in its buffer
    client,     \* client[r]: where run r is
    port,       \* port[r]: the port run r has, or had
    answer      \* answer[r]: what it received

vars == <<net, server, buffer, client, port, answer>>

\* A message is known by the run that sent it and how much of it is left.
Text == [of : Runs, len : Nat]
Datagram == [to : {"server", "client"}, port : Ports, text : Text]

TypeOK ==
    /\ net \in SUBSET Datagram
    /\ server \in {"start", "recvfrom", "sendto", "returned"}
    /\ buffer \in [port : Ports, text : Text]
    /\ client \in [Runs -> {"start", "recvfrom", "received", "failed"}]
    /\ port \in [Runs -> Ports]
    /\ answer \in [Runs -> Text]

\* Of what is not set yet any value will do: nothing reads it.
NoPort == CHOOSE p \in Ports : TRUE
Empty == [of |-> CHOOSE r \in Runs : TRUE, len |-> 0]

Init ==
    /\ net = {}
    /\ server = "start"
    /\ client = [r \in Runs |-> "start"]
    /\ buffer = [port |-> NoPort, text |-> Empty]
    /\ port = [r \in Runs |-> NoPort]
    /\ answer = [r \in Runs |-> Empty]

\* What recvfrom() with a buffer of n bytes makes of a datagram.
Cut(text, n) == IF text.len <= n THEN text ELSE [text EXCEPT !.len = n]

Message(r) == [of |-> r, len |-> Length[r]]

-----------------------------------------------------------------------------
(* The server.                                                             *)

Start ==
    /\ server = "start"
    /\ server' \in {"recvfrom", "returned"}
    /\ UNCHANGED <<net, buffer, client, port, answer>>

\* Seeded fault: client_addr is filled in by the first datagram only.
RecvFromKeepsAddress ==
    /\ server = "recvfrom"
    /\ \E d \in net :
          /\ d.to = "server"
          /\ buffer' = [buffer EXCEPT !.text = Cut(d.text, ServerBuf)]
    /\ server' = "sendto"
    /\ UNCHANGED <<net, client, port, answer>>

RecvFrom ==
    /\ server = "recvfrom"
    /\ \E d \in net :
          /\ d.to = "server"
          /\ buffer' = [port |-> d.port, text |-> Cut(d.text, ServerBuf)]
    /\ server' = "sendto"
    /\ UNCHANGED <<net, client, port, answer>>

SendTo ==
    /\ server = "sendto"
    /\ net' = net \cup {[to |-> "client", port |-> buffer.port,
                         text |-> buffer.text]}
    /\ server' = "recvfrom"
    /\ UNCHANGED <<buffer, client, port, answer>>

\* The error is printed, or caught, and the loop goes on.
SendToFails ==
    /\ server = "sendto"
    /\ server' = "recvfrom"
    /\ UNCHANGED <<net, buffer, client, port, answer>>

Server == Start \/ RecvFrom \/ SendTo \/ SendToFails

-----------------------------------------------------------------------------
(* The clients.                                                            *)

\* The kernel binds an unbound socket to a port that nobody has.
ClientSends(r) ==
    /\ client[r] = "start"
    /\ \E p \in Ports :
          /\ \A q \in Runs : client[q] = "recvfrom" => port[q] # p
          /\ port' = [port EXCEPT ![r] = p]
          /\ net' = net \cup {[to |-> "server", port |-> p, text |-> Message(r)]}
    /\ client' = [client EXCEPT ![r] = "recvfrom"]
    /\ UNCHANGED <<server, buffer, answer>>

\* socket() or sendto() fails.
ClientFails(r) ==
    /\ client[r] = "start"
    /\ client' = [client EXCEPT ![r] = "failed"]
    /\ UNCHANGED <<net, server, buffer, port, answer>>

\* Whatever comes to its port: the client does not look at the sender.
ClientReceives(r) ==
    /\ client[r] = "recvfrom"
    /\ \E d \in net :
          /\ d.to = "client"
          /\ d.port = port[r]
          /\ answer' = [answer EXCEPT ![r] = Cut(d.text, ClientBuf)]
    /\ client' = [client EXCEPT ![r] = "received"]
    /\ UNCHANGED <<net, server, buffer, port>>

\* SO_RCVTIMEO: five seconds without a datagram.
ClientTimesOut(r) ==
    /\ client[r] = "recvfrom"
    /\ client' = [client EXCEPT ![r] = "failed"]
    /\ UNCHANGED <<net, server, buffer, port, answer>>

Client(r) ==
    \/ ClientSends(r)
    \/ ClientFails(r)
    \/ ClientReceives(r)
    \/ ClientTimesOut(r)

Next ==
    \/ Server
    \/ \E r \in Runs : Client(r)

Spec == Init /\ [][Next]_vars

-----------------------------------------------------------------------------
(* Properties.                                                             *)

\* What a client prints is what came back of its own message, cut to the
\* shorter buffer, or of the message of an earlier run that had its port:
\* loss, doubling and reordering never bring it the echo of anybody else's
\* (c lines 346-365, 403-418).
AnswersAreEchoes ==
    \A r \in Runs : client[r] = "received" =>
       \E q \in Runs :
          /\ port[q] = port[r]
          /\ client[q] # "start"
          /\ q # r => client[q] # "recvfrom"
          /\ answer[r] = Cut(Cut(Message(q), ServerBuf), ClientBuf)

\* What every client comes to, though its message, the answer or the server is
\* lost (c lines 384-388, 412-417).
ClientsEnded == \A r \in Runs : client[r] \in {"received", "failed"}
=============================================================================
