-------------------------- MODULE EchoSessionProofs --------------------------
(***************************************************************************)
(* simple_echo_server() with the clients of the repository at the other    *)
(* ends of its connections, proved for any number of them.                 *)
(***************************************************************************)
EXTENDS EchoSession, SimpleEchoServerProofs

\* What is true of a client between its program and its connection: it closes
\* when it ends, reads only what was echoed and not after its end, and what
\* resets a connection is an echo it did not read.
SessionInv ==
    /\ client \in [Clients -> {"start", "connected", "recv", "copying",
                              "received", "unanswered"}]
    /\ \A c \in Clients :
          /\ conn[c].cl = "closed" => ClientEnded(c)
          /\ conn[c].got <= Len(conn[c].echo)
          /\ conn[c].rst # "no" => conn[c].got < Len(conn[c].echo)
          /\ client[c] \in {"start", "connected", "recv"} => conn[c].got = 0
          /\ client[c] \in {"copying", "received"} => conn[c].got \in 1..ClientBuf
    /\ ServerSurvives

\* No call of the server touches what a client has read or whether it is there.
LEMMA ServerKeeps ==
  ASSUME KernelTypeOK, TypeInv, Server, NEW c \in Clients
  PROVE  /\ conn'[c].cl = conn[c].cl /\ conn'[c].got = conn[c].got
         /\ Len(conn[c].echo) <= Len(conn'[c].echo)
         /\ conn'[c].rst # "no" => conn[c].rst # "no"
<1>1. conn \in [Clients -> Conn] /\ conn[c] \in Conn /\ conn[c].echo \in Seq(Bytes)
      /\ Len(conn[c].echo) \in Nat
  BY ConnSizes DEF KernelTypeOK
<1>2. CASE conn'[c] = conn[c]
  BY <1>1, <1>2
<1>3. CASE conn'[c] = [conn[c] EXCEPT !.sv = "closed"]
  BY <1>1, <1>3 DEF Conn
<1>4. CASE Start \/ AcceptFails
  BY <1>2, <1>4 DEF Start, Listen, AcceptFails, kernel
<1>5. CASE StartFails \/ SendKills
  BY <1>1, <1>2, <1>3, <1>5 DEF StartFails, SendKills, Terminate, CloseAll
<1>6. CASE AcceptClient
  <2>1. PICK d \in Pending : conn' = [conn EXCEPT ![d].sv = "accepted"]
    BY <1>6 DEF AcceptClient, Accept
  <2> QED
    BY <1>1, <2>1 DEF Conn
<1>7. CASE Recv
  BY <1>1, <1>7 DEF Recv, RecvData, Conn
<1>8. CASE RecvStops \/ SendError
  <2>1. \/ conn' = conn
        \/ /\ conn' = [conn EXCEPT ![fdtab[client_fd]].rst = "reported"]
           /\ conn[fdtab[client_fd]].rst = "ECONNRESET"
    BY <1>8 DEF RecvStops, RecvEnds, SendError, SendFails
  <2>2. \/ conn'[c] = conn[c]
        \/ /\ conn'[c] = [conn[c] EXCEPT !.rst = "reported"]
           /\ conn[c].rst = "ECONNRESET"
    BY <1>1, <2>1
  <2>3. CASE /\ conn'[c] = [conn[c] EXCEPT !.rst = "reported"]
             /\ conn[c].rst = "ECONNRESET"
    BY <1>1, <2>3 DEF Conn
  <2> QED
    BY <1>2, <2>2, <2>3
<1>9. CASE Send
  <2>1. CASE UNCHANGED kernel
    BY <1>2, <2>1 DEF kernel
  <2>2. CASE SendByte(client_fd, Head(unsent)) /\ fdtab[client_fd] = c
    <3>1. unsent \in Seq(Bytes) /\ unsent # <<>>
      BY <1>9 DEF Send, TypeInv, TypeOK, Sending
    <3>2. Head(unsent) \in Bytes
      BY <3>1, FirstOff
    <3>3. conn'[c] = [conn[c] EXCEPT !.echo = Append(conn[c].echo, Head(unsent))]
      BY <1>1, <2>2 DEF SendByte
    <3>4. /\ conn'[c].cl = conn[c].cl /\ conn'[c].got = conn[c].got
          /\ conn'[c].rst = conn[c].rst
          /\ conn'[c].echo = Append(conn[c].echo, Head(unsent))
      BY <1>1, <3>3 DEF Conn
    <3> QED
      BY <1>1, <3>2, <3>4, AppendProperties
  <2>3. CASE SendByte(client_fd, Head(unsent)) /\ fdtab[client_fd] # c
    BY <1>1, <1>2, <2>3 DEF SendByte
  <2> QED
    BY <1>9, <2>1, <2>2, <2>3 DEF Send, SendStep
<1>10. CASE CloseClient
  BY <1>2, <1>3, <1>10 DEF CloseClient, CloseFd
<1> QED
  BY <1>4, <1>5, <1>6, <1>7, <1>8, <1>9, <1>10 DEF Server

\* Every step of a session is one of the server with clients that do anything.
LEMMA SessionStep == [SessionNext]_sessionVars => [Next]_vars
<1>1. UNCHANGED sessionVars => UNCHANGED vars
  BY DEF sessionVars
<1>2. SessionServer => Next
  BY DEF SessionServer, Next
<1>3. ASSUME NEW c \in Clients, ClientRuns(c) PROVE [Next]_vars
  <2>1. CASE UNCHANGED kernel
    BY <1>3, <2>1 DEF ClientRuns, vars
  <2>2. CASE Connect(c) \/ ClientRecv(c)
    BY <1>3, <2>2 DEF ClientRuns, Next, Environment, ClientStep
  <2> QED
    BY <1>3, <2>1, <2>2 DEF ClientRuns, TcpClient, ConnectFails, ClientConnects,
       SendRefused, SendsMessage, CopiesByte, RecvReturns, RecvEndsEmpty
<1>4. ASSUME NEW c \in Clients, NetworkRuns(c) PROVE [Next]_vars
  BY <1>4 DEF NetworkRuns, Arrives, Next, Environment, ClientStep
<1> QED
  BY <1>1, <1>2, <1>3, <1>4 DEF SessionNext

LEMMA InitSession == SessionInit => SimpleInv /\ SessionInv
<1> SUFFICES ASSUME SessionInit PROVE SimpleInv /\ SessionInv
  OBVIOUS
<1>1. Init /\ KernelInit /\ pc = "start" /\ client = [c \in Clients |-> "start"]
  BY DEF SessionInit, Init
<1>2. \A c \in Clients : /\ conn[c].cl = "idle" /\ conn[c].got = 0
                         /\ conn[c].rst = "no" /\ conn[c].echo = <<>>
  BY <1>1 DEF KernelInit
<1> QED
  BY <1>1, <1>2, InitSimple DEF SessionInv, ServerSurvives

\* A client whose connection was reset while the server could still write left
\* before it had read all: that is the client the server dies of.
LEMMA KilledByLeaver ==
  ASSUME SimpleInv, SessionInv, SendKills
  PROVE  \E c \in Clients : ClientEnded(c) /\ conn[c].got < MaxBytes
<1>1. PICK c \in Clients : c = fdtab[client_fd] /\ conn[c].rst # "no"
  BY DEF SendKills, SendRaisesSigpipe, Connected
<1>2. ClientEnded(c) /\ conn[c].got < Len(conn[c].echo)
  BY <1>1 DEF SessionInv, SimpleInv, KernelInv
<1>3. /\ KernelTypeOK
      /\ Len(conn[c].echo) <= conn[c].taken /\ conn[c].taken <= conn[c].sent
  BY DEF SimpleInv, Streams, Prefix, TypeInv, TypeOK
<1>4. conn[c] \in Conn /\ Len(conn[c].echo) \in Nat
  BY <1>3, ConnSizes
<1>5. conn[c].got < MaxBytes
  BY <1>2, <1>3, <1>4, SizesAssumption DEF Conn
<1> QED
  BY <1>2, <1>5

LEMMA ServerSession ==
  ASSUME SimpleInv, SessionInv, SessionServer
  PROVE  SessionInv'
<1>1. /\ KernelTypeOK /\ TypeInv /\ Server /\ client' = client
      /\ \A c \in Clients : ClientEnded(c)' = ClientEnded(c)
  BY DEF SimpleInv, TypeInv, TypeOK, SessionServer, ClientEnded
<1>2. ASSUME NEW c \in Clients
      PROVE  /\ conn'[c].cl = conn[c].cl /\ conn'[c].got = conn[c].got
             /\ Len(conn[c].echo) <= Len(conn'[c].echo)
             /\ conn'[c].rst # "no" => conn[c].rst # "no"
             /\ conn[c].got \in Nat
             /\ Len(conn[c].echo) \in Nat /\ Len(conn'[c].echo) \in Nat
  <2>1. KernelTypeOK'
    BY StepTyped, <1>1 DEF Next, TypeInv, TypeOK
  <2>2. conn[c] \in Conn /\ Len(conn[c].echo) \in Nat /\ Len(conn'[c].echo) \in Nat
    BY <1>1, <2>1, ConnSizes DEF KernelTypeOK, Conn
  <2> QED
    BY <1>1, <2>2, ServerKeeps DEF Conn
<1>3. ASSUME NEW c \in Clients
      PROVE  /\ conn'[c].cl = "closed" => ClientEnded(c)'
             /\ conn'[c].got <= Len(conn'[c].echo)
             /\ conn'[c].rst # "no" => conn'[c].got < Len(conn'[c].echo)
             /\ client'[c] \in {"start", "connected", "recv"} => conn'[c].got = 0
             /\ client'[c] \in {"copying", "received"} => conn'[c].got \in 1..ClientBuf
  BY <1>1, <1>2 DEF SessionInv
<1>4. ServerSurvives'
  <2>1. pc' = "killed" => SendKills
    BY <1>1
       DEF Server, Start, StartFails, AcceptClient, AcceptFails, Recv,
           RecvStops,
       Send, SendError, SendKills, CloseClient, Step, Terminate
  <2> QED
    BY <1>1, <1>2, <2>1, KilledByLeaver DEF ServerSurvives
<1> QED
  BY <1>1, <1>3, <1>4 DEF SessionInv

LEMMA ClientSession ==
  ASSUME SimpleInv, SessionInv, ClientBuf \in Nat,
         NEW c \in Clients, ClientRuns(c) \/ NetworkRuns(c)
  PROVE  SessionInv'
<1>t. /\ conn \in [Clients -> Conn] /\ conn[c] \in Conn /\ KernelInv
      /\ conn[c].got \in Nat /\ Len(conn[c].echo) \in Nat
  <2>1. KernelTypeOK /\ KernelInv
    BY DEF SimpleInv, TypeInv, TypeOK
  <2> QED
    BY <2>1, ConnSizes DEF KernelTypeOK, Conn
<1> DEFINE Good ==
      /\ conn'[c].cl = "closed" => ClientEnded(c)'
      /\ conn'[c].got <= Len(conn'[c].echo)
      /\ conn'[c].rst # "no" => conn'[c].got < Len(conn'[c].echo)
      /\ client'[c] \in {"start", "connected", "recv"} => conn'[c].got = 0
      /\ client'[c] \in {"copying", "received"} => conn'[c].got \in 1..ClientBuf
<1>1. \A d \in Clients \ {c} : conn'[d] = conn[d] /\ client'[d] = client[d]
  <2>1. \/ UNCHANGED kernel \/ Connect(c) \/ ClientSend(c) \/ ClientRecv(c)
        \/ ClientClose(c) \/ ClientAbort(c) \/ ResetArrives(c)
    BY DEF ClientRuns, NetworkRuns, Arrives, TcpClient, ConnectFails,
       ClientConnects, SendRefused, SendsMessage, CopiesByte, RecvReturns,
       RecvEndsEmpty
  <2>2. \A d \in Clients \ {c} : conn'[d] = conn[d]
    BY <1>t, <2>1 DEF kernel, Connect, ClientSend, ClientRecv, ClientClose,
                      ClientAbort, ResetArrives
  <2>3. \E to : client' = client \/ client' = [client EXCEPT ![c] = to]
    BY DEF ClientRuns, NetworkRuns, Arrives, TcpClient, ConnectFails, ClientAt,
       ClientConnects, SendRefused, SendsMessage, CopiesByte, RecvReturns,
       RecvEndsEmpty
  <2> QED
    BY <2>2, <2>3 DEF SessionInv
<1>2. ASSUME ClientRuns(c)
      PROVE  /\ client' \in [Clients -> {"start", "connected", "recv", "copying",
                                        "received", "unanswered"}]
             /\ Good /\ ~ClientEnded(c)
  <2>1. CASE ConnectFails(c) \/ SendRefused(c) \/ SendsMessage(c) \/ RecvReturns(c)
             \/ RecvEndsEmpty(c)
    BY <1>t, <2>1
       DEF ConnectFails, SendRefused, SendsMessage, RecvReturns, kernel,
                      RecvEndsEmpty, ClientAt, ClientEnded, SessionInv
  <2>2. CASE ClientConnects(c)
    <3>1. conn'[c] = [conn[c] EXCEPT !.cl = "open", !.sv = "backlog"]
      BY <1>t, <2>2 DEF ClientConnects, Connect
    <3>2. /\ conn'[c].cl = "open" /\ conn'[c].got = conn[c].got
          /\ conn'[c].echo = conn[c].echo /\ conn'[c].rst = conn[c].rst
      BY <1>t, <3>1 DEF Conn
    <3> QED
      BY <1>t, <2>2, <3>2 DEF ClientConnects, ClientAt, ClientEnded, SessionInv
  <2>3. CASE CopiesByte(c)
    <3>1. /\ conn'[c] = [conn[c] EXCEPT !.got = conn[c].got + 1]
          /\ conn[c].cl = "open" /\ conn[c].got < Len(conn[c].echo)
      BY <1>t, <2>3 DEF CopiesByte, ClientRecv, Unread
    <3>2. /\ conn'[c].cl = "open" /\ conn'[c].got = conn[c].got + 1
          /\ conn'[c].echo = conn[c].echo /\ conn'[c].rst = conn[c].rst
      BY <1>t, <3>1 DEF Conn
    <3>3. conn[c].rst = "no"
      BY <1>t, <3>1 DEF KernelInv
    <3>4. conn[c].got + 1 \in 1..ClientBuf
      BY <1>t, <2>3 DEF CopiesByte
    <3> QED
      BY <1>t, <2>3, <3>1, <3>2, <3>3, <3>4
         DEF CopiesByte, ClientEnded, SessionInv
  <2> QED
    BY <1>2, <2>1, <2>2, <2>3 DEF ClientRuns, TcpClient
<1>3. ASSUME NetworkRuns(c)
      PROVE  client' = client /\ Good /\ conn'[c].got = conn[c].got
  <2>1. CASE ClientSend(c)
    <3>1. PICK n : conn'[c] = [conn[c] EXCEPT !.sent = n]
      BY <1>t, <2>1 DEF ClientSend
    <3>2. /\ conn'[c].cl = conn[c].cl /\ conn'[c].got = conn[c].got
          /\ conn'[c].echo = conn[c].echo /\ conn'[c].rst = conn[c].rst
      BY <1>t, <3>1 DEF Conn
    <3> QED
      BY <1>3, <3>2 DEF NetworkRuns, Arrives, SessionInv, ClientEnded
  <2>2. CASE ClientEnded(c) /\ (ClientAbort(c) \/ ClientClose(c))
    <3>1. ClientAbort(c) => conn[c].got < Len(conn[c].echo)
      BY <1>t DEF ClientAbort, Unread
    <3>2. \/ /\ conn' = [conn EXCEPT ![c] =
                           [conn[c] EXCEPT !.cl = "closed", !.rst = "ECONNRESET"]]
             /\ ClientAbort(c)
          \/ conn' = [conn EXCEPT ![c] =
                        [conn[c] EXCEPT !.cl = "closed", !.fin = TRUE]]
      BY <1>t, <2>2 DEF ClientAbort, ClientClose
    <3>3. \/ /\ conn'[c] = [conn[c] EXCEPT !.cl = "closed", !.rst = "ECONNRESET"]
             /\ conn[c].got < Len(conn[c].echo)
          \/ conn'[c] = [conn[c] EXCEPT !.cl = "closed", !.fin = TRUE]
      BY <1>t, <3>1, <3>2
    <3>4. /\ conn'[c].got = conn[c].got /\ conn'[c].echo = conn[c].echo
          /\ conn'[c].rst = conn[c].rst \/ conn[c].got < Len(conn[c].echo)
      BY <1>t, <3>3 DEF Conn
    <3> QED
      BY <1>3, <2>2, <3>4 DEF NetworkRuns, Arrives, SessionInv, ClientEnded
  <2>3. CASE ResetArrives(c)
    BY <1>t, <1>3, <2>3 DEF NetworkRuns, Arrives, SessionInv, ClientEnded,
       ResetArrives, Unread, Conn, KernelInv
  <2> QED
    BY <1>3, <2>1, <2>2, <2>3 DEF NetworkRuns, Arrives
<1>4. /\ Good
      /\ client' \in [Clients -> {"start", "connected", "recv", "copying",
                                 "received", "unanswered"}]
      /\ ClientEnded(c) => ClientEnded(c)' /\ conn'[c].got = conn[c].got
  BY <1>2, <1>3 DEF SessionInv, ClientEnded
<1>5. pc' = pc
  BY DEF ClientRuns, NetworkRuns, process
<1>6. ServerSurvives'
  BY <1>1, <1>4, <1>5 DEF SessionInv, ServerSurvives, ClientEnded
<1>7. ASSUME NEW d \in Clients, d # c
      PROVE  /\ conn'[d].cl = "closed" => ClientEnded(d)'
             /\ conn'[d].got <= Len(conn'[d].echo)
             /\ conn'[d].rst # "no" => conn'[d].got < Len(conn'[d].echo)
             /\ client'[d] \in {"start", "connected", "recv"} => conn'[d].got = 0
             /\ client'[d] \in {"copying", "received"} => conn'[d].got \in 1..ClientBuf
  BY <1>1, <1>7 DEF SessionInv, ClientEnded
<1> QED
  BY <1>4, <1>6, <1>7 DEF SessionInv

LEMMA StepSession ==
  ASSUME ClientBuf \in Nat, SimpleInv, SessionInv, [SessionNext]_sessionVars
  PROVE  SimpleInv' /\ SessionInv'
<1>1. SimpleInv'
  BY SessionStep, StepSimple
<1>2. CASE UNCHANGED sessionVars
  <2>1. client' = client /\ conn' = conn /\ pc' = pc
    BY <1>2 DEF sessionVars, vars, kernel, process
  <2>2. ServerSurvives'
    BY <2>1 DEF SessionInv, ServerSurvives, ClientEnded
  <2> QED
    BY <1>1, <2>1, <2>2 DEF SessionInv, ClientEnded
<1>3. CASE SessionServer
  BY <1>1, <1>3, ServerSession
<1>4. ASSUME NEW c \in Clients, ClientRuns(c) \/ NetworkRuns(c)
      PROVE  SessionInv'
  BY <1>4, ClientSession
<1> QED
  BY <1>1, <1>2, <1>3, <1>4 DEF SessionNext

LEMMA AlwaysSession ==
  ASSUME ClientBuf \in Nat
  PROVE  SessionSpec => [](SimpleInv /\ SessionInv)
<1>1. SimpleInv /\ SessionInv /\ [SessionNext]_sessionVars
         => (SimpleInv /\ SessionInv)'
  BY StepSession
<1> QED
  BY <1>1, InitSession, PTL DEF SessionSpec

LEMMA OwnAnswers ==
  ASSUME ClientBuf \in Nat, SimpleInv, SessionInv
  PROVE  AnswerIsOwn
<1> SUFFICES ASSUME NEW c \in Clients, client[c] = "received"
             PROVE  /\ conn[c].got \in 1..ClientBuf
                    /\ \A k \in 1..conn[c].got : conn[c].echo[k] = <<c, k>>
  BY DEF AnswerIsOwn
<1>1. conn[c].got \in 1..ClientBuf /\ conn[c].got <= Len(conn[c].echo)
  BY DEF SessionInv
<1>2. Prefix(c) /\ Len(conn[c].echo) \in Nat
  BY ConnSizes DEF SimpleInv, TypeInv, TypeOK, Streams
<1> QED
  BY <1>1, <1>2 DEF Prefix

\* A session is a behaviour of the server, so that all the theorems about the
\* server hold of it.
THEOREM SessionImplements == SessionSpec => Spec
<1>1. SessionInit => Init
  BY DEF SessionInit
<1> QED
  BY <1>1, SessionStep, PTL DEF SessionSpec, Spec

\* The server dies of SIGPIPE only if one of its clients ended with a part of
\* its echo, or without.
THEOREM SurvivesWholeReaders ==
  ASSUME ClientBuf \in Nat
  PROVE  SessionSpec => []ServerSurvives
<1>1. SessionInv => ServerSurvives
  BY DEF SessionInv
<1> QED
  BY <1>1, AlwaysSession, PTL

\* What a client takes for the answer is a beginning of its own message.
THEOREM AnswersAreOwn ==
  ASSUME ClientBuf \in Nat
  PROVE  SessionSpec => []AnswerIsOwn
<1>1. SimpleInv /\ SessionInv => AnswerIsOwn
  BY OwnAnswers
<1> QED
  BY <1>1, AlwaysSession, PTL
=============================================================================
