----------------------- MODULE SimpleEchoServerProofs -----------------------
(***************************************************************************)
(* simple_echo_server(), proved for any number of clients of any           *)
(* behaviour.                                                              *)
(***************************************************************************)
EXTENDS SimpleEchoServer, TcpSocketProofs, FiniteSetTheorems

HasClient == pc \in {"recv", "send", "sending", "close"}
Sending == pc \in {"send", "sending"}

\* The variables have their types, and bytes are kept only while they are sent.
TypeInv ==
    /\ TypeOK
    /\ Sending => unsent # <<>>
    /\ ~Sending /\ pc # "killed" => unsent = <<>>

\* The only connection the server has is the one behind client_fd, between the
\* accept() and the close() of it.
OneClient ==
    /\ HasClient => Connected(client_fd)
    /\ \A f \in Fds : Connected(f) => HasClient /\ f = client_fd

\* What the buffer holds for client c.
Waiting(c) == IF Sending /\ fdtab[client_fd] = c THEN unsent ELSE <<>>

\* Every client is owed what the buffer holds for it, and the server closes only
\* a connection whose client left and got everything.
Streams ==
    /\ \A c \in Clients : Prefix(c) /\ InStep(c, Waiting(c))
    /\ pc = "close" => Settled(fdtab[client_fd])

SimpleInv == TypeInv /\ KernelInv /\ OneClient /\ Streams

-----------------------------------------------------------------------------
(* The invariant holds.                                                    *)

LEMMA InitSimple == Init => SimpleInv
<1> SUFFICES ASSUME Init PROVE SimpleInv
  OBVIOUS
<1>1. KernelTypeOK /\ KernelInv /\ KernelInit
  BY KernelInitTyped, KernelInitInv DEF Init
<1>2. TypeInv
  BY <1>1 DEF Init, TypeInv, TypeOK, Sending
<1>3. OneClient
  BY <1>1, ClientsAssumption
     DEF KernelInit, OneClient, HasClient, Connected, Init
<1>4. Streams
  <2>1. pc = "start" /\ \A c \in Clients : Waiting(c) = <<>>
    BY DEF Init, Waiting, Sending
  <2>2. \A c \in Clients : conn[c].taken = 0 /\ conn[c].sent = 0 /\ conn[c].echo = <<>>
    BY <1>1 DEF KernelInit
  <2> QED
    BY <2>1, <2>2 DEF Streams, Prefix, InStep, Owed
<1> QED
  BY <1>1, <1>2, <1>3, <1>4 DEF SimpleInv

LEMMA StepTyped == TypeInv /\ [Next]_vars => TypeInv'
<1> SUFFICES ASSUME TypeInv, [Next]_vars PROVE TypeInv'
  OBVIOUS
<1> USE DEF Step
<1>t. KernelTypeOK /\ unsent \in Seq(Bytes) /\ client_fd \in Fds \cup {-1}
  BY DEF TypeInv, TypeOK
<1>1. CASE UNCHANGED vars
  BY <1>1 DEF vars, process, kernel, TypeInv, TypeOK, Sending, KernelTypeOK
<1>2. CASE Environment
  BY <1>2, <1>t, ClientStepTyped
     DEF Environment, process, TypeInv, TypeOK, Sending
<1>3. CASE Start
  BY <1>3, <1>t, ListenTyped DEF Start, TypeInv, TypeOK, Sending
<1>4. CASE StartFails \/ SendKills
  BY <1>4, <1>t, CloseAllTyped
     DEF StartFails, SendKills, Terminate, TypeInv, TypeOK, Sending
<1>5. CASE AcceptClient
  BY <1>5, <1>t, AcceptTyped DEF AcceptClient, TypeInv, TypeOK, Sending
<1>6. CASE AcceptFails
  BY <1>6, <1>t DEF AcceptFails, kernel, TypeInv, TypeOK, Sending, KernelTypeOK
<1>7. CASE Recv
  <2>1. Connected(client_fd) /\ Available(client_fd) > 0
    BY <1>7 DEF Recv, RecvData
  <2>2. unsent' \in Seq(Bytes) /\ unsent' # <<>>
    BY <1>7, <1>t, <2>1, RecvBytesTyped DEF Recv
  <2> QED
    BY <1>7, <1>t, <2>2, RecvDataTyped DEF Recv, TypeInv, TypeOK, Sending
<1>8. CASE RecvStops
  BY <1>8, <1>t, RecvEndsTyped DEF RecvStops, TypeInv, TypeOK, Sending
<1>9. CASE Send
  <2>1. unsent # <<>>
    BY <1>9 DEF Send, TypeInv, Sending
  <2>2. Head(unsent) \in Bytes /\ Tail(unsent) \in Seq(Bytes)
    BY <1>t, <2>1, FirstOff
  <2>3. unsent' \in Seq(Bytes) /\ KernelTypeOK'
    <3>1. CASE SendByte(client_fd, Head(unsent)) /\ unsent' = Tail(unsent)
      BY <1>t, <2>2, <3>1, SendByteTyped
    <3>2. CASE UNCHANGED kernel /\ unsent' = <<>>
      BY <1>t, <3>2 DEF kernel, KernelTypeOK
    <3> QED
      BY <1>9, <3>1, <3>2 DEF Send, SendStep
  <2> QED
    BY <1>9, <1>t, <2>3 DEF Send, TypeInv, TypeOK, Sending
<1>10. CASE SendError
  BY <1>10, <1>t, SendFailsTyped DEF SendError, TypeInv, TypeOK, Sending
<1>11. CASE CloseClient
  BY <1>11, <1>t, CloseFdTyped DEF CloseClient, TypeInv, TypeOK, Sending
<1> QED
  BY <1>1, <1>2, <1>3, <1>4, <1>5, <1>6, <1>7, <1>8, <1>9, <1>10, <1>11
     DEF Next, Server

\* Steps that move no data and leave the buffer to whom it belongs.
LEMMA QuietStreams ==
  ASSUME SimpleInv, KernelInv',
         NEW c \in Clients, Quiet(c),
         Waiting(c)' = Waiting(c)
  PROVE  Prefix(c)' /\ InStep(c, Waiting(c))'
<1>1. Prefix(c) /\ InStep(c, Waiting(c))
  BY DEF SimpleInv, Streams
<1> QED
  BY <1>1, QuietPrefix DEF InStep, Owed, Quiet

\* A call on the connection of the current client concerns nobody else.
LEMMA OthersInStep ==
  ASSUME SimpleInv, KernelInv', UNCHANGED <<client_fd, fdtab>>,
         NEW c \in Clients, c # fdtab[client_fd], conn'[c] = conn[c]
  PROVE  Prefix(c)' /\ InStep(c, Waiting(c))'
<1>1. Waiting(c) = <<>> /\ Waiting(c)' = <<>>
  BY DEF Waiting
<1> QED
  BY <1>1, UntouchedQuiet, QuietStreams

LEMMA TerminateStreams ==
  ASSUME SimpleInv, NEW label \in {"returned", "killed"}, Terminate(label)
  PROVE  KernelInv' /\ OneClient' /\ Streams'
<1>1. KernelInv' /\ \A c \in Clients : Quiet(c)
  BY CloseAllInv DEF Terminate, SimpleInv, TypeInv, TypeOK
<1>2. OneClient'
  BY ClientsAssumption DEF Terminate, CloseAll, OneClient, HasClient, Connected
<1>3. ASSUME NEW c \in Clients PROVE Prefix(c)' /\ InStep(c, Waiting(c))'
  <2>1. Waiting(c)' = <<>>
    BY DEF Waiting, Sending, Terminate
  <2>2. conn[c] \in Conn
    BY DEF SimpleInv, TypeInv, TypeOK, KernelTypeOK
  <2>3. conn'[c].sv \in {"none", "closed"}
    BY <2>2 DEF Terminate, CloseAll, Conn
  <2>4. InStep(c, <<>>)'
    BY <1>1, <2>3 DEF InStep, Owed, KernelInv
  <2>5. Prefix(c)'
    BY <1>1, QuietPrefix DEF SimpleInv, Streams
  <2> QED
    BY <2>1, <2>4, <2>5 DEF InStep, Owed
<1> QED
  BY <1>1, <1>2, <1>3 DEF Streams, Terminate

LEMMA StepStreams ==
  ASSUME SimpleInv, TypeInv', Server
  PROVE  KernelInv' /\ OneClient' /\ Streams'
<1> USE DEF Step
<1>t. KernelTypeOK /\ KernelInv /\ unsent \in Seq(Bytes)
  BY DEF SimpleInv, TypeInv, TypeOK
<1>c. HasClient => Connected(client_fd) /\ client_fd \in Fds /\ fdtab[client_fd] \in Clients
  BY DEF SimpleInv, OneClient, Connected
<1>1. CASE Start
  <2>1. PICK f \in Fds : Listen(f)
    BY <1>1 DEF Start
  <2>2. KernelInv' /\ \A c \in Clients : Quiet(c)
    BY <1>t, <2>1, ListenInv
  <2>3. OneClient'
    BY <1>1, <1>t, <2>1, ClientsAssumption
       DEF Start, Listen, SimpleInv, OneClient, HasClient, Connected,
           KernelTypeOK
  <2>4. \A c \in Clients : Waiting(c)' = Waiting(c)
    BY <1>1 DEF Start, Waiting, Sending
  <2>5. \A c \in Clients : Prefix(c)' /\ InStep(c, Waiting(c))'
    BY <2>2, <2>4, QuietStreams
  <2> QED
    BY <1>1, <2>2, <2>3, <2>5 DEF Start, Streams
<1>2. CASE StartFails \/ SendKills
  BY <1>2, TerminateStreams DEF StartFails, SendKills
<1>3. CASE AcceptClient
  <2>1. PICK f \in Fds : Accept(f) /\ client_fd' = f
    BY <1>3 DEF AcceptClient
  <2>2. /\ KernelInv' /\ \A c \in Clients : Quiet(c)
        /\ \A g \in Fds \ {f} : fdtab'[g] = fdtab[g]
        /\ Connected(f)'
    BY <1>t, <2>1, AcceptInv
  <2>3. \A g \in Fds : ~Connected(g)
    BY <1>3 DEF AcceptClient, SimpleInv, OneClient, HasClient
  <2>4. OneClient'
    BY <1>3, <2>1, <2>2, <2>3 DEF AcceptClient, OneClient, HasClient, Connected
  <2>5. \A c \in Clients : Waiting(c)' = Waiting(c)
    BY <1>3 DEF AcceptClient, Waiting, Sending
  <2>6. \A c \in Clients : Prefix(c)' /\ InStep(c, Waiting(c))'
    BY <2>2, <2>5, QuietStreams
  <2> QED
    BY <1>3, <2>2, <2>4, <2>6 DEF AcceptClient, Streams
<1>4. CASE AcceptFails
  <2>1. KernelInv' /\ \A c \in Clients : Quiet(c)
    BY <1>4, <1>t DEF AcceptFails, kernel, KernelInv, Quiet, Connected
  <2>2. OneClient'
    BY <1>4 DEF AcceptFails, kernel, SimpleInv, OneClient, HasClient, Connected
  <2>3. \A c \in Clients : Waiting(c)' = Waiting(c)
    BY <1>4 DEF AcceptFails, Waiting, Sending
  <2>4. \A c \in Clients : Prefix(c)' /\ InStep(c, Waiting(c))'
    BY <2>1, <2>3, QuietStreams
  <2> QED
    BY <1>4, <2>1, <2>2, <2>4 DEF AcceptFails, Streams
<1>5. CASE Recv
  <2>1. PICK f \in Fds, c \in Clients :
           f = client_fd /\ c = fdtab[f] /\ RecvData(f)
    BY <1>5, <1>c DEF Recv, HasClient
  <2>2. InStep(c, <<>>) /\ Prefix(c)
    BY <1>5 DEF Recv, Waiting, Sending, SimpleInv, Streams
  <2>3. /\ KernelInv' /\ Prefix(c)' /\ UNCHANGED fdtab
        /\ \A d \in Clients \ {c} : conn'[d] = conn[d]
    BY <1>t, <2>1, <2>2, RecvInStep
  <2>4. PICK r \in Seq(Bytes) : r = RecvBytes(f) /\ InStep(c, r)'
    BY <1>t, <2>1, <2>2, RecvInStep
  <2>5. Waiting(c)' = r
    BY <1>5, <2>1, <2>3, <2>4 DEF Recv, Waiting, Sending
  <2>6. InStep(c, Waiting(c))'
    BY <2>4, <2>5 DEF InStep, Owed
  <2>7. \A d \in Clients \ {c} : Prefix(d)' /\ InStep(d, Waiting(d))'
    BY <1>5, <2>1, <2>3, OthersInStep DEF Recv
  <2>8. OneClient'
    BY <1>5, <2>3 DEF Recv, SimpleInv, OneClient, HasClient, Connected
  <2>9. \A d \in Clients : Prefix(d)' /\ InStep(d, Waiting(d))'
    BY <2>3, <2>6, <2>7
  <2> QED
    BY <1>5, <2>3, <2>8, <2>9 DEF Recv, Streams
<1>6. CASE RecvStops
  <2>1. PICK f \in Fds, c \in Clients :
           f = client_fd /\ c = fdtab[f] /\ RecvEnds(f) /\ Connected(f)
    BY <1>6, <1>c DEF RecvStops, HasClient
  <2>2. InStep(c, <<>>)
    BY <1>6 DEF RecvStops, Waiting, Sending, SimpleInv, Streams
  <2>3. KernelInv' /\ (\A d \in Clients : Quiet(d)) /\ Settled(c)'
    BY <1>t, <2>1, <2>2, RecvEndsInv, RecvEndsSettled
  <2>4. UNCHANGED fdtab /\ \A d \in Clients : Waiting(d)' = Waiting(d)
    BY <1>6 DEF RecvStops, RecvEnds, Waiting, Sending
  <2>5. \A d \in Clients : Prefix(d)' /\ InStep(d, Waiting(d))'
    BY <2>3, <2>4, QuietStreams
  <2>6. OneClient'
    BY <1>6, <2>4 DEF RecvStops, SimpleInv, OneClient, HasClient, Connected
  <2>7. Settled(fdtab[client_fd])'
    BY <1>6, <2>1, <2>3, <2>4 DEF RecvStops, Settled
  <2> QED
    BY <2>3, <2>5, <2>6, <2>7 DEF Streams
<1>7. CASE Send
  <2>1. PICK f \in Fds, c \in Clients :
           f = client_fd /\ c = fdtab[f] /\ Connected(f)
    BY <1>7, <1>c DEF Send, HasClient
  <2>2. unsent # <<>> /\ InStep(c, unsent) /\ Prefix(c)
    BY <1>7, <2>1 DEF Send, Waiting, Sending, SimpleInv, Streams, TypeInv
  <2>3. PICK o \in Seq(Bytes) : o = unsent
    BY <1>t
  <2>4. PICK u : u = unsent'
    OBVIOUS
  <2>5. /\ KernelInv' /\ UNCHANGED fdtab
        /\ \A d \in Clients \ {c} : conn'[d] = conn[d]
        /\ InStep(c, u)' /\ Prefix(c)'
    <3>1. CASE SendByte(f, Head(o)) /\ u = Tail(o)
      BY <1>t, <2>1, <2>2, <2>3, <3>1, SendInStep
    <3>2. CASE SendCutShort(f) /\ UNCHANGED kernel
      BY <1>t, <2>1, <2>2, <3>2
         DEF kernel, SendCutShort, InStep, Prefix, KernelInv, Connected
    <3> QED
      BY <1>7, <2>1, <2>3, <2>4, <3>1, <3>2 DEF Send, SendStep
  <2>6. Waiting(c)' = u
    BY <1>7, <2>1, <2>4, <2>5 DEF Send, Waiting, Sending
  <2>7. InStep(c, Waiting(c))'
    BY <2>5, <2>6 DEF InStep, Owed
  <2>8. \A d \in Clients \ {c} : Prefix(d)' /\ InStep(d, Waiting(d))'
    BY <1>7, <2>1, <2>5, OthersInStep DEF Send
  <2>9. OneClient'
    BY <1>7, <2>5 DEF Send, SimpleInv, OneClient, HasClient, Connected
  <2>10. \A d \in Clients : Prefix(d)' /\ InStep(d, Waiting(d))'
    BY <2>5, <2>7, <2>8
  <2> QED
    BY <1>7, <2>5, <2>9, <2>10 DEF Send, Streams
<1>8. CASE SendError
  <2>1. PICK f \in Fds, c \in Clients :
           f = client_fd /\ c = fdtab[f] /\ Connected(f) /\ SendFails(f)
    BY <1>8, <1>c DEF SendError, HasClient
  <2>2. KernelInv' /\ (\A d \in Clients : Quiet(d)) /\ Settled(c)'
    BY <1>t, <2>1, SendFailsInv, SendFailsSettled
  <2>3. UNCHANGED fdtab
    BY <2>1 DEF SendFails
  <2>4. \A d \in Clients \ {c} : Prefix(d)' /\ InStep(d, Waiting(d))'
    <3>1. \A d \in Clients \ {c} : Waiting(d)' = Waiting(d)
      BY <1>8, <2>1, <2>3 DEF SendError, Waiting, Sending
    <3> QED
      BY <2>2, <3>1, QuietStreams
  <2>5. Prefix(c)' /\ InStep(c, Waiting(c))'
    <3>1. conn'[c].rst # "no"
      BY <2>1, <2>2 DEF SendFails, Quiet
    <3> QED
      BY <2>2, <3>1, QuietPrefix DEF InStep, SimpleInv, Streams
  <2>6. OneClient'
    BY <1>8, <2>3 DEF SendError, SimpleInv, OneClient, HasClient, Connected
  <2>7. Settled(fdtab[client_fd])'
    BY <1>8, <2>1, <2>2, <2>3 DEF SendError, Settled
  <2> QED
    BY <2>2, <2>4, <2>5, <2>6, <2>7 DEF Streams
<1>9. CASE CloseClient
  <2>1. /\ KernelInv' /\ (\A c \in Clients : Quiet(c))
        /\ \A g \in Fds \ {client_fd} : fdtab'[g] = fdtab[g]
    BY <1>9, <1>t, CloseFdInv DEF CloseClient
  <2>2. OneClient'
    <3>1. \A g \in Fds : ~Connected(g)'
      BY <1>9, <1>c, <2>1, ClientsAssumption
         DEF CloseClient, CloseFd, SimpleInv, OneClient, HasClient, Connected
    <3> QED
      BY <1>9, <3>1 DEF CloseClient, OneClient, HasClient
  <2>3. \A c \in Clients : Waiting(c)' = Waiting(c)
    BY <1>9 DEF CloseClient, Waiting, Sending
  <2>4. \A c \in Clients : Prefix(c)' /\ InStep(c, Waiting(c))'
    BY <2>1, <2>3, QuietStreams
  <2> QED
    BY <1>9, <2>1, <2>2, <2>4 DEF CloseClient, Streams
<1> QED
  BY <1>1, <1>2, <1>3, <1>4, <1>5, <1>6, <1>7, <1>8, <1>9 DEF Server

LEMMA StepSimple == SimpleInv /\ [Next]_vars => SimpleInv'
<1> SUFFICES ASSUME SimpleInv, [Next]_vars PROVE SimpleInv'
  OBVIOUS
<1>1. TypeInv'
  BY StepTyped DEF SimpleInv
<1>2. CASE Server
  BY <1>1, <1>2, StepStreams DEF SimpleInv
<1>3. CASE Environment \/ UNCHANGED vars
  <2>1. UNCHANGED <<process, fdtab>>
    BY <1>3 DEF Environment, ClientStep, Connect, ClientSend, ClientRecv,
           ClientClose, ClientAbort, ResetArrives, vars, kernel
  <2>2. KernelInv' /\ \A c \in Clients : Quiet(c)
    <3>1. CASE Environment
      BY <3>1, ClientStepInv DEF Environment, SimpleInv, TypeInv, TypeOK
    <3>2. CASE UNCHANGED vars
      BY <3>2 DEF vars, kernel, SimpleInv, KernelInv, Quiet, Connected
    <3> QED
      BY <1>3, <3>1, <3>2
  <2>3. OneClient'
    BY <2>1 DEF process, SimpleInv, OneClient, HasClient, Connected
  <2>4. \A c \in Clients : Waiting(c)' = Waiting(c)
    BY <2>1 DEF process, Waiting, Sending
  <2>5. \A c \in Clients : Prefix(c)' /\ InStep(c, Waiting(c))'
    BY <2>2, <2>4, QuietStreams
  <2>6. pc' = "close" => Settled(fdtab[client_fd])'
    <3> SUFFICES ASSUME pc' = "close" PROVE Settled(fdtab[client_fd])'
      OBVIOUS
    <3>1. PICK c \in Clients : c = fdtab[client_fd] /\ Settled(c)
      BY <2>1 DEF process, SimpleInv, Streams, OneClient, HasClient, Connected
    <3>2. Settled(c)'
      BY <2>2, <3>1, QuietSettled
    <3> QED
      BY <2>1, <3>1, <3>2 DEF process, Settled
  <2> QED
    BY <1>1, <2>2, <2>3, <2>5, <2>6 DEF SimpleInv, Streams
<1> QED
  BY <1>2, <1>3 DEF Next

LEMMA AlwaysSimple == Spec => []SimpleInv
BY InitSimple, StepSimple, PTL DEF Spec

\* The variables of simple_echo_server() and the state of the kernel keep to
\* their types through every call and every failure.
THEOREM TypeCorrect == Spec => []TypeOK
<1>1. SimpleInv => TypeOK
  BY DEF SimpleInv, TypeInv
<1> QED
  BY <1>1, AlwaysSimple, PTL

\* A client gets its own bytes back, each once and in order, though send() may
\* be cut short and the result is not looked at.
THEOREM EchoIsPrefix == Spec => []EchoPrefix
<1>1. SimpleInv => EchoPrefix
  BY DEF SimpleInv, Streams, Prefix, EchoPrefix
<1> QED
  BY <1>1, AlwaysSimple, PTL

-----------------------------------------------------------------------------
(* One client at a time.                                                   *)

\* The sets of accepted clients that one descriptor can account for.
LEMMA AtMostOne ==
  SimpleInv => Cardinality({c \in Clients : conn[c].sv = "accepted"}) <= 1
<1> SUFFICES ASSUME KernelInv, OneClient
             PROVE  Cardinality({c \in Clients : conn[c].sv = "accepted"}) <= 1
  BY DEF SimpleInv
<1> DEFINE A == {c \in Clients : conn[c].sv = "accepted"}
<1>1. A \subseteq {fdtab[client_fd]}
  <2> SUFFICES ASSUME NEW c \in A PROVE c = fdtab[client_fd]
    OBVIOUS
  <2>1. PICK f \in Fds : fdtab[f] = c
    BY DEF KernelInv
  <2>2. f = client_fd
    BY <2>1 DEF OneClient, Connected
  <2> QED
    BY <2>1, <2>2
<1>2. IsFiniteSet({fdtab[client_fd]}) /\ Cardinality({fdtab[client_fd]}) = 1
  BY FS_Singleton
<1> QED
  BY <1>1, <1>2, FS_Subset

\* Only the close() after the session ends a connection while the server runs.
LEMMA ClosedBy ==
  ASSUME SimpleInv, Next, Running', NEW c \in Clients,
         conn[c].sv = "accepted", conn'[c].sv = "closed"
  PROVE  CloseClient /\ Settled(c)
<1>1. KernelTypeOK /\ KernelInv /\ conn' # conn
  BY DEF SimpleInv, TypeInv, TypeOK
<1>2. ~Environment
  BY <1>1, KeepsOpen DEF Environment
<1>3. ~Start /\ ~AcceptFails
  BY <1>1 DEF Start, Listen, AcceptFails, kernel
<1>4. ~StartFails /\ ~SendKills
  BY DEF StartFails, SendKills, Terminate, Running
<1>5. ~AcceptClient /\ ~Recv /\ ~RecvStops /\ ~SendError
  BY <1>1, KeepsOpen DEF AcceptClient, Recv, RecvStops, SendError
<1>6. ~Send
  BY <1>1, KeepsOpen DEF Send, SendStep, kernel
<1>7. CloseClient
  BY <1>2, <1>3, <1>4, <1>5, <1>6 DEF Next, Server
<1>8. fdtab[client_fd] = c /\ pc = "close"
  BY <1>1, <1>7, CloseFdInv DEF CloseClient, Step
<1> QED
  BY <1>7, <1>8 DEF SimpleInv, Streams

\* Every step keeps to one connection and to the order of the two ends.
LEMMA OneAtATimeStep ==
  ASSUME SimpleInv, SimpleInv', [Next]_vars
  PROVE  /\ Cardinality({c \in Clients : conn'[c].sv = "accepted"}) <= 1
         /\ \A c \in Clients :
               conn[c].sv = "accepted" /\ conn'[c].sv = "closed" /\ Running' => Settled(c)
<1>1. (SimpleInv => Cardinality({c \in Clients : conn[c].sv = "accepted"}) <= 1)'
  BY AtMostOne, PTL
<1>2. CASE Next
  BY <1>1, <1>2, ClosedBy
<1>3. CASE UNCHANGED vars
  BY <1>1, <1>3 DEF vars, kernel
<1> QED
  BY <1>2, <1>3

\* The server has one connection at most, and ends it only after the client
\* did, with every byte of an orderly leaver echoed.
THEOREM ServesOneAtATime == Spec => OneAtATime
<1> DEFINE A == Running' =>
                  /\ Cardinality({c \in Clients : conn'[c].sv = "accepted"}) <= 1
                  /\ \A c \in Clients :
                        conn[c].sv = "accepted" /\ conn'[c].sv = "closed" =>
                           /\ conn[c].cl = "closed"
                           /\ conn[c].rst = "no" =>
                                 Len(conn[c].echo) = conn[c].sent
<1>1. SimpleInv /\ SimpleInv' /\ [Next]_vars => [A]_vars
  BY OneAtATimeStep DEF Settled
<1> QED
  BY <1>1, AlwaysSimple, PTL DEF Spec, OneAtATime

-----------------------------------------------------------------------------
(* The refinement.                                                         *)

LEMMA InitRefines == Init => Service!Init
BY PhaseValues DEF Init, KernelInit, Service!Init

LEMMA StepRefines == SimpleInv /\ [Next]_vars => [Service!Next]_(Service!vars)
<1> SUFFICES ASSUME SimpleInv, [Next]_vars
             PROVE  Service!Next \/ UNCHANGED Service!vars
  OBVIOUS
<1>1. KernelTypeOK /\ KernelInv
  BY DEF SimpleInv, TypeInv, TypeOK
<1>2. CASE UNCHANGED conn
  BY <1>2, NothingSeen DEF Seen
<1>3. CASE UNCHANGED vars \/ Start \/ AcceptFails
  BY <1>2, <1>3 DEF vars, kernel, Start, Listen, AcceptFails
<1>4. CASE Environment
  BY <1>1, <1>4, ClientStepSeen DEF Environment
<1>5. CASE StartFails \/ SendKills
  BY <1>1, <1>5, CloseAllInv, ClosingLeaves DEF StartFails, SendKills, Terminate
<1>6. CASE AcceptClient
  BY <1>1, <1>6, AcceptSeen DEF AcceptClient
<1>7. CASE Recv \/ RecvStops \/ SendError
  BY <1>1, <1>7, CallUnseen DEF Recv, RecvStops, SendError
<1>8. CASE Send
  <2>1. PICK f \in Fds, c \in Clients : f = client_fd /\ c = fdtab[f]
    BY <1>8 DEF Send, SimpleInv, OneClient, HasClient, Connected
  <2>2. PICK o \in Seq(Bytes) : o = unsent
    BY DEF SimpleInv, TypeInv, TypeOK
  <2>3. o # <<>> /\ InStep(c, o) /\ Prefix(c)
    BY <1>8, <2>1, <2>2
       DEF Send, Waiting, Sending, SimpleInv, Streams, TypeInv
  <2>4. CASE SendByte(f, Head(o))
    BY <1>1, <2>1, <2>3, <2>4, SendInStep, EchoSeen
  <2>5. CASE UNCHANGED kernel
    BY <1>2, <2>5 DEF kernel
  <2> QED
    BY <1>8, <2>1, <2>2, <2>4, <2>5 DEF Send, SendStep
<1>9. CASE CloseClient
  BY <1>1, <1>9, CloseFdInv, ClosingLeaves DEF CloseClient
<1> QED
  BY <1>3, <1>4, <1>5, <1>6, <1>7, <1>8, <1>9 DEF Next, Server

\* simple_echo_server() implements the echo service: each of its steps is one
\* of the service or one that no client sees.
THEOREM Refinement == Spec => ImplementsEchoService
BY InitRefines, StepRefines, AlwaysSimple, PTL
   DEF Spec, ImplementsEchoService, Service!Spec
=============================================================================
