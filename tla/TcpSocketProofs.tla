--------------------------- MODULE TcpSocketProofs ---------------------------
(***************************************************************************)
(* Facts about the socket operations that the proofs of every server use.  *)
(***************************************************************************)
EXTENDS EchoServer, SequenceTheorems, TLAPS

\* Taking the first element off a sequence.
LEMMA FirstOff ==
  ASSUME NEW S, NEW s \in Seq(S), s # <<>>
  PROVE  /\ Head(s) \in S
         /\ Head(s) = s[1]
         /\ Tail(s) \in Seq(S)
         /\ Len(s) \in Nat
         /\ Len(s) >= 1
         /\ Len(Tail(s)) = Len(s) - 1
         /\ \A k \in 1..Len(Tail(s)) : Tail(s)[k] = s[k + 1]
         /\ Tail(s) = <<>> <=> Len(s) = 1
<1>1. Tail(s) \in Seq(S) /\ Len(Tail(s)) = Len(s) - 1
  BY HeadTailProperties
<1>2. Tail(s) = <<>> <=> Len(Tail(s)) = 0
  BY <1>1, EmptySeq
<1>3. Len(s) \in Nat /\ Len(s) # 0
  BY EmptySeq, LenProperties
<1> QED
  BY <1>1, <1>2, <1>3, HeadTailProperties

\* The initial state of the kernel is well typed.
LEMMA KernelInitTyped == KernelInit => KernelTypeOK
<1> SUFFICES ASSUME KernelInit PROVE KernelTypeOK
  OBVIOUS
<1>1. \A c \in Clients : conn[c] \in Conn
  BY SizesAssumption DEF KernelInit, Conn, Resets
<1>2. conn \in [Clients -> Conn]
  BY <1>1 DEF KernelInit
<1> QED
  BY <1>2 DEF KernelInit, KernelTypeOK

\* A call or a packet changes one connection.
LEMMA OneConnTyped ==
  ASSUME KernelTypeOK, NEW c \in Clients, NEW r \in Conn,
         conn' = [conn EXCEPT ![c] = r], UNCHANGED fdtab
  PROVE  KernelTypeOK'
BY DEF KernelTypeOK

\* A change at the server's end of a connection keeps its type.
LEMMA ServerEndTyped ==
  ASSUME NEW r \in Conn, NEW v \in {"none", "backlog", "accepted", "closed"}
  PROVE  [r EXCEPT !.sv = v] \in Conn
BY DEF Conn

\* No step of a client or of the network breaks the types.
LEMMA ClientStepTyped ==
  ASSUME KernelTypeOK, NEW c \in Clients, ClientStep(c)
  PROVE  KernelTypeOK'
<1>0. conn[c] \in Conn
  BY DEF KernelTypeOK
<1>1. CASE Connect(c)
  <2>1. [conn[c] EXCEPT !.cl = "open", !.sv = "backlog"] \in Conn
    BY <1>0, <1>1 DEF Connect, Conn
  <2> QED
    BY <1>1, <2>1, OneConnTyped DEF Connect, KernelTypeOK
<1>2. CASE ClientSend(c)
  <2>a. conn[c].sent < MaxBytes
    BY <1>2 DEF ClientSend
  <2>b. conn[c].sent + 1 \in 0..MaxBytes
    BY <1>0, <2>a, SizesAssumption DEF Conn
  <2>1. [conn[c] EXCEPT !.sent = @ + 1] \in Conn
    BY <1>0, <2>b DEF Conn
  <2> QED
    BY <1>2, <2>1, OneConnTyped DEF ClientSend, KernelTypeOK
<1>3. CASE ClientRecv(c)
  <2>1. [conn[c] EXCEPT !.got = @ + 1] \in Conn
    BY <1>0, <1>3 DEF ClientRecv, Conn
  <2> QED
    BY <1>3, <2>1, OneConnTyped DEF ClientRecv, KernelTypeOK
<1>4. CASE ClientClose(c)
  <2>1. [conn[c] EXCEPT !.cl = "closed", !.fin = TRUE] \in Conn
    BY <1>0, <1>4 DEF ClientClose, Conn
  <2> QED
    BY <1>4, <2>1, OneConnTyped DEF ClientClose, KernelTypeOK
<1>5. CASE ClientAbort(c)
  <2>1. [conn[c] EXCEPT !.cl = "closed", !.rst = "ECONNRESET"] \in Conn
    BY <1>0, <1>5 DEF ClientAbort, Conn, Resets
  <2> QED
    BY <1>5, <2>1, OneConnTyped DEF ClientAbort, KernelTypeOK
<1>6. CASE ResetArrives(c)
  <2>1. [conn[c] EXCEPT !.rst = "EPIPE"] \in Conn
    BY <1>0, <1>6 DEF ResetArrives, Conn, Resets
  <2> QED
    BY <1>6, <2>1, OneConnTyped DEF ResetArrives, KernelTypeOK
<1> QED
  BY <1>1, <1>2, <1>3, <1>4, <1>5, <1>6 DEF ClientStep

\* The system calls preserve the types.
LEMMA ListenTyped ==
  ASSUME KernelTypeOK, NEW f \in Fds, Listen(f)
  PROVE  KernelTypeOK'
BY DEF KernelTypeOK, Listen

LEMMA AcceptTyped ==
  ASSUME KernelTypeOK, NEW f \in Fds, Accept(f)
  PROVE  KernelTypeOK'
<1> PICK c \in Pending :
       /\ conn' = [conn EXCEPT ![c].sv = "accepted"]
       /\ fdtab' = [fdtab EXCEPT ![f] = c]
  BY DEF Accept
<1>1. c \in Clients
  BY DEF Pending
<1>2. [conn[c] EXCEPT !.sv = "accepted"] \in Conn
  BY <1>1, ServerEndTyped DEF KernelTypeOK
<1>3. conn' \in [Clients -> Conn]
  BY <1>1, <1>2 DEF KernelTypeOK
<1> QED
  BY <1>1, <1>3 DEF KernelTypeOK

\* What recv() counts lies between 1 and what there is, and what it leaves in
\* the buffer is a sequence of bytes.
LEMMA RecvCountBounds ==
  ASSUME KernelTypeOK, NEW f, Connected(f), Available(f) > 0
  PROVE  /\ RecvCount(f) \in 1..Available(f)
         /\ conn[fdtab[f]].taken + RecvCount(f) \in 1..MaxBytes
         /\ conn[fdtab[f]].taken + RecvCount(f) <= conn[fdtab[f]].sent
<1> DEFINE s == conn[fdtab[f]].sent
           t == conn[fdtab[f]].taken
<1>1. conn[fdtab[f]] \in Conn
  BY DEF KernelTypeOK, Connected
<1>2. s \in 0..MaxBytes /\ t \in 0..MaxBytes
  BY <1>1 DEF Conn
<1>3. Available(f) = s - t /\ s - t > 0
  BY DEF Available
<1>4. RecvCount(f) = IF s - t <= BufSize THEN s - t ELSE BufSize
  BY <1>3 DEF RecvCount
<1> HIDE DEF s, t
<1>5. RecvCount(f) \in 1..(s - t) /\ t + RecvCount(f) \in 1..MaxBytes
      /\ t + RecvCount(f) <= s
  BY <1>2, <1>3, <1>4, SizesAssumption
<1> QED
  BY <1>3, <1>5 DEF s, t

LEMMA RecvBytesTyped ==
  ASSUME KernelTypeOK, NEW f, Connected(f), Available(f) > 0
  PROVE  /\ RecvBytes(f) \in Seq(Bytes)
         /\ Len(RecvBytes(f)) = RecvCount(f)
         /\ RecvBytes(f) # <<>>
         /\ \A k \in 1..RecvCount(f) :
               RecvBytes(f)[k] = <<fdtab[f], conn[fdtab[f]].taken + k>>
<1> DEFINE c == fdtab[f]
           n == RecvCount(f)
<1>1. n \in Nat /\ n >= 1 /\ c \in Clients /\ conn[c] \in Conn
  BY RecvCountBounds, SizesAssumption
     DEF KernelTypeOK, Connected, Available, Conn
<1>2. ASSUME NEW k \in 1..n
      PROVE  <<c, conn[c].taken + k>> \in Bytes
  <2>1. conn[c].taken + k \in 1..MaxBytes
    BY <1>1, RecvCountBounds, SizesAssumption DEF Conn
  <2> QED
    BY <2>1, <1>1 DEF Bytes
<1>3. RecvBytes(f) \in [1..n -> Bytes]
  BY <1>2 DEF RecvBytes
<1>4. RecvBytes(f) \in Seq(Bytes) /\ Len(RecvBytes(f)) = n
  BY <1>1, <1>3
<1> QED
  BY <1>1, <1>4 DEF RecvBytes

LEMMA RecvDataTyped ==
  ASSUME KernelTypeOK, NEW f, RecvData(f)
  PROVE  KernelTypeOK'
<1>1. Connected(f) /\ Available(f) > 0 /\ fdtab[f] \in Clients
  BY DEF RecvData, Connected
<1>2. conn[fdtab[f]].taken + RecvCount(f) \in 0..MaxBytes
  BY <1>1, RecvCountBounds, SizesAssumption
<1> DEFINE r == [conn[fdtab[f]] EXCEPT !.taken = @ + RecvCount(f)]
<1>a. conn[fdtab[f]] \in Conn
  BY <1>1 DEF KernelTypeOK
<1>3. r \in Conn
  BY <1>a, <1>2 DEF Conn
<1>4. conn' = [conn EXCEPT ![fdtab[f]] = r]
  BY <1>1 DEF KernelTypeOK, RecvData
<1> QED
  BY <1>1, <1>3, <1>4, OneConnTyped DEF RecvData

LEMMA RecvEndsTyped ==
  ASSUME KernelTypeOK, NEW f, RecvEnds(f)
  PROVE  KernelTypeOK'
<1>1. CASE UNCHANGED conn
  BY <1>1 DEF RecvEnds, KernelTypeOK
<1>2. CASE conn' # conn
  <2> DEFINE r == [conn[fdtab[f]] EXCEPT !.rst = "reported"]
  <2>1. fdtab[f] \in Clients /\ UNCHANGED fdtab
    BY <1>2 DEF RecvEnds, Connected
  <2>a. conn[fdtab[f]] \in Conn
    BY <2>1 DEF KernelTypeOK
  <2>2. r \in Conn
    BY <2>a DEF Conn, Resets
  <2>3. conn' = [conn EXCEPT ![fdtab[f]] = r]
    BY <1>2, <2>1 DEF RecvEnds, KernelTypeOK
  <2> QED
    BY <2>1, <2>2, <2>3, OneConnTyped
<1> QED
  BY <1>1, <1>2

LEMMA SendByteTyped ==
  ASSUME KernelTypeOK, NEW f, NEW byte \in Bytes, SendByte(f, byte)
  PROVE  KernelTypeOK'
<1>1. fdtab[f] \in Clients
  BY DEF SendByte, Connected
<1>2. conn[fdtab[f]] \in Conn
  BY <1>1 DEF KernelTypeOK
<1>3. Append(conn[fdtab[f]].echo, byte) \in Seq(Bytes)
  BY <1>2 DEF Conn
<1>4. [conn[fdtab[f]] EXCEPT !.echo = Append(@, byte)] \in Conn
  BY <1>2, <1>3 DEF Conn
<1> QED
  BY <1>1, <1>4, OneConnTyped DEF SendByte, KernelTypeOK

LEMMA SendFailsTyped ==
  ASSUME KernelTypeOK, NEW f, SendFails(f)
  PROVE  KernelTypeOK'
<1>1. CASE UNCHANGED conn
  BY <1>1 DEF SendFails, KernelTypeOK
<1>2. CASE conn' # conn
  <2> DEFINE r == [conn[fdtab[f]] EXCEPT !.rst = "reported"]
  <2>1. fdtab[f] \in Clients /\ UNCHANGED fdtab
    BY <1>2 DEF SendFails, Connected
  <2>a. conn[fdtab[f]] \in Conn
    BY <2>1 DEF KernelTypeOK
  <2>2. r \in Conn
    BY <2>a DEF Conn, Resets
  <2>3. conn' = [conn EXCEPT ![fdtab[f]] = r]
    BY <1>2, <2>1 DEF SendFails, KernelTypeOK
  <2> QED
    BY <2>1, <2>2, <2>3, OneConnTyped
<1> QED
  BY <1>1, <1>2

LEMMA CloseFdTyped ==
  ASSUME KernelTypeOK, NEW f, CloseFd(f)
  PROVE  KernelTypeOK'
<1>1. \A c \in Clients : conn[c] \in Conn /\ [conn[c] EXCEPT !.sv = "closed"] \in Conn
  BY ServerEndTyped DEF KernelTypeOK
<1>2. conn' \in [Clients -> Conn]
  BY <1>1 DEF CloseFd
<1> QED
  BY <1>2 DEF CloseFd, KernelTypeOK

LEMMA CloseAllTyped ==
  ASSUME KernelTypeOK, CloseAll
  PROVE  KernelTypeOK'
<1>1. \A c \in Clients : conn[c] \in Conn /\ [conn[c] EXCEPT !.sv = "closed"] \in Conn
  BY ServerEndTyped DEF KernelTypeOK
<1>2. conn' \in [Clients -> Conn]
  BY <1>1 DEF CloseAll
<1> QED
  BY <1>2 DEF CloseAll, KernelTypeOK

LEMMA ShutdownListenerTyped ==
  ASSUME KernelTypeOK, ShutdownListener
  PROVE  KernelTypeOK'
<1>1. \A c \in Clients : conn[c] \in Conn /\ [conn[c] EXCEPT !.sv = "closed"] \in Conn
  BY ServerEndTyped DEF KernelTypeOK
<1>2. conn' \in [Clients -> Conn]
  BY <1>1 DEF ShutdownListener
<1> QED
  BY <1>2 DEF ShutdownListener, KernelTypeOK

-----------------------------------------------------------------------------
(* What the kernel alone guarantees, whatever the server does.             *)

\* Every connection has at most one descriptor, and has one exactly while the
\* server has accepted and not closed it; nothing was read from one nobody
\* accepted, a client that has not connected has none, and only a client that
\* left resets its connection.
KernelInv ==
    /\ \A f, g \in Fds : Connected(f) /\ fdtab[f] = fdtab[g] => f = g
    /\ \A f \in Fds : Connected(f) => conn[fdtab[f]].sv = "accepted"
    /\ \A c \in Clients : conn[c].sv = "accepted" => \E f \in Fds : fdtab[f] = c
    /\ \A c \in Clients :
          /\ conn[c].sv \in {"none", "backlog"} =>
                conn[c].taken = 0 /\ conn[c].echo = <<>>
          /\ conn[c].cl = "idle" => conn[c].sv = "none"
          /\ conn[c].fin \/ conn[c].rst # "no" => conn[c].cl = "closed"
          /\ conn[c].taken <= conn[c].sent

\* A step that moves no data between the server and client c.
Quiet(c) ==
    /\ conn'[c].echo = conn[c].echo
    /\ conn'[c].taken = conn[c].taken
    /\ conn'[c].rst = "no" => conn[c].rst = "no"
    /\ conn[c].cl = "closed" =>
          conn'[c].cl = "closed" /\ conn'[c].sent = conn[c].sent
    /\ conn[c].sv = "closed" => conn'[c].sv = "closed"

\* A step that does no more to the connection of c than to end it.
OnlyCloses(c) ==
    /\ conn'[c].cl = conn[c].cl /\ conn'[c].fin = conn[c].fin
    /\ conn'[c].sent = conn[c].sent /\ conn'[c].taken = conn[c].taken
    /\ conn'[c].echo = conn[c].echo /\ conn'[c].rst = conn[c].rst
    /\ \/ conn'[c].sv = conn[c].sv
       \/ conn[c].sv \in {"backlog", "accepted"} /\ conn'[c].sv = "closed"

LEMMA KernelInitInv == KernelInit => KernelInv
BY ClientsAssumption DEF KernelInit, KernelInv, Connected

LEMMA ClientStepInv ==
  ASSUME KernelTypeOK, KernelInv, NEW c \in Clients, ClientStep(c)
  PROVE  KernelInv' /\ \A d \in Clients : Quiet(d)
<1>0. conn \in [Clients -> Conn] /\ conn[c] \in Conn
  BY DEF KernelTypeOK
<1>1. \A d \in Clients \ {c} : conn'[d] = conn[d]
  BY <1>0 DEF ClientStep, Connect, ClientSend, ClientRecv, ClientClose,
             ClientAbort, ResetArrives
<1>2. UNCHANGED fdtab
  BY DEF ClientStep, Connect, ClientSend, ClientRecv, ClientClose,
         ClientAbort, ResetArrives
<1>3. /\ conn'[c].echo = conn[c].echo
      /\ conn'[c].taken = conn[c].taken
      /\ conn'[c].sent >= conn[c].sent
      /\ conn[c].cl = "closed" =>
            conn'[c].cl = "closed" /\ conn'[c].sent = conn[c].sent
      /\ conn'[c].rst = "no" => conn[c].rst = "no"
      /\ conn'[c].sv # conn[c].sv => conn[c].sv = "none" /\ conn'[c].sv = "backlog"
      /\ conn'[c].cl = "idle" => conn[c].cl = "idle" /\ conn'[c].sv = conn[c].sv
      /\ conn'[c].fin \/ conn'[c].rst # "no" => conn'[c].cl = "closed"
  <2>1. CASE Connect(c)
    <3>1. conn'[c] = [conn[c] EXCEPT !.cl = "open", !.sv = "backlog"]
      BY <1>0, <2>1 DEF Connect
    <3>2. conn[c].cl = "idle" /\ conn[c].sent \in Nat
      BY <1>0, <2>1, SizesAssumption DEF Connect, Conn
    <3>3. /\ conn'[c].cl = "open" /\ conn'[c].sv = "backlog"
          /\ conn'[c].echo = conn[c].echo /\ conn'[c].taken = conn[c].taken
          /\ conn'[c].sent = conn[c].sent
          /\ conn'[c].fin = conn[c].fin /\ conn'[c].rst = conn[c].rst
      BY <1>0, <3>1 DEF Conn
    <3>4. conn[c].sv = "none" /\ ~(conn[c].fin \/ conn[c].rst # "no")
      BY <3>2 DEF KernelInv
    <3> QED
      BY <3>2, <3>3, <3>4
  <2>2. CASE ClientSend(c)
    <3>1. conn[c].sent \in Int /\ conn[c].cl = "open"
      BY <1>0, <2>2, SizesAssumption DEF Conn, ClientSend
    <3>2. conn' = [conn EXCEPT ![c] = [conn[c] EXCEPT !.sent = conn[c].sent + 1]]
      BY <2>2 DEF ClientSend
    <3>3. conn'[c] = [conn[c] EXCEPT !.sent = conn[c].sent + 1]
      BY <1>0, <3>2
    <3>4. conn'[c].sent = conn[c].sent + 1
      BY <1>0, <3>3 DEF Conn
    <3>5. /\ conn'[c].echo = conn[c].echo /\ conn'[c].taken = conn[c].taken
          /\ conn'[c].cl = conn[c].cl /\ conn'[c].sv = conn[c].sv
          /\ conn'[c].fin = conn[c].fin /\ conn'[c].rst = conn[c].rst
      BY <1>0, <3>3 DEF Conn
    <3> QED
      BY <3>1, <3>4, <3>5 DEF KernelInv
  <2>3. CASE ClientRecv(c)
    BY <2>3, <1>0, SizesAssumption DEF ClientRecv, Conn, KernelInv
  <2>4. CASE ClientClose(c)
    BY <2>4, <1>0, SizesAssumption DEF ClientClose, MayClose, Conn, KernelInv
  <2>5. CASE ClientAbort(c)
    BY <2>5, <1>0, SizesAssumption DEF ClientAbort, MayClose, Conn, KernelInv
  <2>6. CASE ResetArrives(c)
    BY <2>6, <1>0, SizesAssumption DEF ResetArrives, Conn, KernelInv
  <2> QED
    BY <2>1, <2>2, <2>3, <2>4, <2>5, <2>6 DEF ClientStep
<1>4. \A d \in Clients : Quiet(d)
  BY <1>1, <1>3 DEF Quiet, KernelInv
<1>5. KernelTypeOK'
  BY ClientStepTyped
<1>6. conn'[c].taken <= conn'[c].sent
  BY <1>0, <1>3, <1>5, SizesAssumption DEF KernelInv, KernelTypeOK, Conn
<1> QED
  BY <1>1, <1>2, <1>3, <1>4, <1>6 DEF KernelInv, Connected

LEMMA ListenInv ==
  ASSUME KernelTypeOK, KernelInv, NEW f \in Fds, Listen(f)
  PROVE  KernelInv' /\ \A d \in Clients : Quiet(d)
<1>1. conn' = conn /\ \A g \in Fds : Connected(g)' <=> Connected(g)
  BY ClientsAssumption DEF Listen, LowestFree, Connected, KernelTypeOK
<1>2. \A g \in Fds : Connected(g) => fdtab'[g] = fdtab[g]
  BY ClientsAssumption DEF Listen, LowestFree, Connected, KernelTypeOK
<1>3. \A g, h \in Fds : Connected(g)' /\ fdtab'[g] = fdtab'[h] => g = h
  BY <1>1, <1>2, ClientsAssumption
     DEF KernelInv, KernelTypeOK, Connected, Listen, LowestFree
<1>4. \A g \in Fds : Connected(g)' => conn'[fdtab'[g]].sv = "accepted"
  BY <1>1, <1>2 DEF KernelInv
<1>5. ASSUME NEW d \in Clients, conn'[d].sv = "accepted"
      PROVE  \E g \in Fds : fdtab'[g] = d
  BY <1>1, <1>2, <1>5 DEF KernelInv, Connected
<1> QED
  BY <1>1, <1>3, <1>4, <1>5 DEF KernelInv, Quiet

\* accept() gives the connection a descriptor and nothing else.
LEMMA AcceptInv ==
  ASSUME KernelTypeOK, KernelInv, NEW f \in Fds, Accept(f)
  PROVE  /\ KernelInv'
         /\ \A d \in Clients : Quiet(d)
         /\ \A g \in Fds \ {f} : fdtab'[g] = fdtab[g]
         /\ Connected(f)'
         /\ conn'[fdtab'[f]].taken = 0 /\ conn'[fdtab'[f]].echo = <<>>
<1>0. conn \in [Clients -> Conn] /\ fdtab[f] = "free"
  BY DEF KernelTypeOK, Accept, LowestFree
<1> PICK c \in Pending :
       /\ conn' = [conn EXCEPT ![c].sv = "accepted"]
       /\ fdtab' = [fdtab EXCEPT ![f] = c]
  BY DEF Accept
<1>1. c \in Clients /\ conn[c].sv = "backlog" /\ conn[c] \in Conn
  BY <1>0 DEF Pending
<1>2. fdtab'[f] = c /\ \A g \in Fds \ {f} : fdtab'[g] = fdtab[g]
  BY DEF KernelTypeOK
<1>3. \A d \in Clients \ {c} : conn'[d] = conn[d]
  BY <1>0
<1>4. conn'[c] = [conn[c] EXCEPT !.sv = "accepted"]
  BY <1>0, <1>1
<1>5. /\ conn'[c].sv = "accepted" /\ conn'[c].cl = conn[c].cl
      /\ conn'[c].sent = conn[c].sent /\ conn'[c].taken = conn[c].taken
      /\ conn'[c].echo = conn[c].echo /\ conn'[c].fin = conn[c].fin
      /\ conn'[c].rst = conn[c].rst
  BY <1>1, <1>4 DEF Conn
<1>6. \A g \in Fds : Connected(g) => fdtab[g] # c /\ g # f
  BY <1>0, <1>1, ClientsAssumption DEF KernelInv, Connected
<1>7. Connected(f)' /\ \A g \in Fds \ {f} : Connected(g)' = Connected(g)
  BY <1>1, <1>2 DEF Connected
<1>8. \A d \in Clients : Quiet(d)
  BY <1>1, <1>3, <1>5 DEF Quiet
<1>9. KernelInv'
  <2>1. \A g, h \in Fds : Connected(g)' /\ fdtab'[g] = fdtab'[h] => g = h
    BY <1>1, <1>2, <1>6, <1>7 DEF KernelInv, Connected
  <2>2. \A g \in Fds : Connected(g)' => conn'[fdtab'[g]].sv = "accepted"
    BY <1>1, <1>2, <1>3, <1>5, <1>6, <1>7 DEF KernelInv, Connected
  <2>3. ASSUME NEW d \in Clients
        PROVE  /\ conn'[d].sv \in {"none", "backlog"} =>
                     conn'[d].taken = 0 /\ conn'[d].echo = <<>>
               /\ conn'[d].cl = "idle" => conn'[d].sv = "none"
               /\ conn'[d].fin \/ conn'[d].rst # "no" => conn'[d].cl = "closed"
               /\ conn'[d].taken <= conn'[d].sent
    BY <1>1, <1>3, <1>5 DEF KernelInv
  <2>4. ASSUME NEW d \in Clients, conn'[d].sv = "accepted"
        PROVE  \E g \in Fds : fdtab'[g] = d
    <3>1. CASE d = c
      BY <1>2, <3>1
    <3>2. CASE d # c
      <4>1. PICK g \in Fds : fdtab[g] = d
        BY <1>3, <2>4, <3>2 DEF KernelInv
      <4>2. g # f
        BY <1>0, <4>1, ClientsAssumption
      <4> QED
        BY <1>2, <4>1, <4>2
    <3> QED
      BY <3>1, <3>2
  <2> QED
    BY <2>1, <2>2, <2>3, <2>4 DEF KernelInv
<1> QED
  BY <1>1, <1>2, <1>5, <1>7, <1>8, <1>9 DEF KernelInv

\* What a call on one connection may do to it without breaking the invariant.
LEMMA OneConnInv ==
  ASSUME KernelTypeOK, KernelInv, NEW c \in Clients,
         UNCHANGED fdtab,
         conn[c].sv = "accepted",
         conn'[c].sv = conn[c].sv,
         conn'[c].cl = conn[c].cl,
         conn'[c].fin = conn[c].fin,
         conn'[c].rst # "no" => conn[c].rst # "no",
         conn'[c].taken <= conn'[c].sent,
         \A d \in Clients \ {c} : conn'[d] = conn[d]
  PROVE  KernelInv'
<1>1. \A g \in Fds : Connected(g)' = Connected(g)
  BY DEF Connected
<1>2. \A g \in Fds : Connected(g)' => conn'[fdtab'[g]].sv = "accepted"
  BY <1>1 DEF KernelInv, Connected
<1>3. ASSUME NEW d \in Clients
      PROVE  /\ conn'[d].sv \in {"none", "backlog"} =>
                   conn'[d].taken = 0 /\ conn'[d].echo = <<>>
             /\ conn'[d].cl = "idle" => conn'[d].sv = "none"
             /\ conn'[d].fin \/ conn'[d].rst # "no" => conn'[d].cl = "closed"
             /\ conn'[d].taken <= conn'[d].sent
  BY DEF KernelInv
<1> QED
  BY <1>1, <1>2, <1>3 DEF KernelInv

LEMMA RecvDataInv ==
  ASSUME KernelTypeOK, KernelInv, NEW f, RecvData(f)
  PROVE  /\ KernelInv'
         /\ \A d \in Clients \ {fdtab[f]} : conn'[d] = conn[d]
         /\ conn'[fdtab[f]] = [conn[fdtab[f]] EXCEPT
                                  !.taken = conn[fdtab[f]].taken + RecvCount(f)]
<1> DEFINE c == fdtab[f]
           n == conn[c].taken + RecvCount(f)
<1>0. Connected(f) /\ Available(f) > 0 /\ f \in Fds
  BY DEF RecvData, Connected
<1>1. /\ conn \in [Clients -> Conn] /\ c \in Clients
      /\ conn[c] \in Conn /\ conn[c].sv = "accepted"
  BY <1>0 DEF KernelTypeOK, KernelInv, Connected
<1>2. n <= conn[c].sent
  BY <1>0, RecvCountBounds
<1>3. conn' = [conn EXCEPT ![c].taken = n] /\ UNCHANGED fdtab
  BY DEF RecvData
<1> HIDE DEF c, n
<1>4. /\ \A d \in Clients \ {c} : conn'[d] = conn[d]
      /\ conn'[c] = [conn[c] EXCEPT !.taken = n]
  BY <1>1, <1>3
<1>5. /\ conn'[c].taken = n /\ conn'[c].sent = conn[c].sent
      /\ conn'[c].sv = conn[c].sv /\ conn'[c].cl = conn[c].cl
      /\ conn'[c].fin = conn[c].fin /\ conn'[c].rst = conn[c].rst
  BY <1>1, <1>4 DEF Conn
<1>6. KernelInv'
  BY <1>1, <1>2, <1>3, <1>4, <1>5, OneConnInv
<1> QED
  BY <1>4, <1>6 DEF c, n

\* A call that reports a reset changes nothing else.
LEMMA ReportedInv ==
  ASSUME KernelTypeOK, KernelInv, NEW f, Connected(f),
         conn[fdtab[f]].rst = "ECONNRESET",
         conn' = [conn EXCEPT ![fdtab[f]].rst = "reported"],
         UNCHANGED fdtab
  PROVE  KernelInv' /\ \A d \in Clients : Quiet(d)
<1> DEFINE c == fdtab[f]
<1>1. /\ c \in Clients /\ conn \in [Clients -> Conn] /\ conn[c] \in Conn
      /\ conn[c].sv = "accepted"
  BY DEF KernelTypeOK, KernelInv, Connected
<1>2. conn' = [conn EXCEPT ![c].rst = "reported"] /\ conn[c].rst = "ECONNRESET"
  OBVIOUS
<1> HIDE DEF c
<1>3. /\ \A d \in Clients \ {c} : conn'[d] = conn[d]
      /\ conn'[c] = [conn[c] EXCEPT !.rst = "reported"]
  BY <1>1, <1>2
<1>4. /\ conn'[c].taken = conn[c].taken /\ conn'[c].sent = conn[c].sent
      /\ conn'[c].sv = conn[c].sv /\ conn'[c].cl = conn[c].cl
      /\ conn'[c].fin = conn[c].fin /\ conn'[c].rst = "reported"
      /\ conn'[c].echo = conn[c].echo
  BY <1>1, <1>3 DEF Conn
<1>5. KernelInv'
  BY <1>1, <1>2, <1>3, <1>4, OneConnInv DEF KernelInv
<1>6. \A d \in Clients : Quiet(d)
  BY <1>2, <1>3, <1>4 DEF Quiet
<1> QED
  BY <1>5, <1>6

LEMMA RecvEndsInv ==
  ASSUME KernelTypeOK, KernelInv, NEW f, RecvEnds(f)
  PROVE  KernelInv' /\ \A d \in Clients : Quiet(d)
<1>1. CASE UNCHANGED conn
  BY <1>1 DEF RecvEnds, KernelInv, Quiet, Connected
<1>2. CASE conn' # conn
  BY <1>2, ReportedInv DEF RecvEnds
<1> QED
  BY <1>1, <1>2

LEMMA SendFailsInv ==
  ASSUME KernelTypeOK, KernelInv, NEW f, SendFails(f)
  PROVE  KernelInv' /\ \A d \in Clients : Quiet(d)
<1>1. CASE UNCHANGED conn
  BY <1>1 DEF SendFails, KernelInv, Quiet, Connected
<1>2. CASE conn' # conn
  BY <1>2, ReportedInv DEF SendFails
<1> QED
  BY <1>1, <1>2

LEMMA SendByteInv ==
  ASSUME KernelTypeOK, KernelInv, NEW f, NEW byte, SendByte(f, byte)
  PROVE  /\ KernelInv'
         /\ \A d \in Clients \ {fdtab[f]} : conn'[d] = conn[d]
         /\ conn'[fdtab[f]] = [conn[fdtab[f]] EXCEPT
                                  !.echo = Append(conn[fdtab[f]].echo, byte)]
<1> DEFINE c == fdtab[f]
           e == Append(conn[c].echo, byte)
<1>1. /\ conn \in [Clients -> Conn] /\ c \in Clients
      /\ conn[c] \in Conn /\ conn[c].sv = "accepted"
  BY DEF SendByte, KernelTypeOK, KernelInv, Connected
<1>2. conn' = [conn EXCEPT ![c].echo = e] /\ UNCHANGED fdtab
  BY DEF SendByte
<1> HIDE DEF c, e
<1>3. /\ \A d \in Clients \ {c} : conn'[d] = conn[d]
      /\ conn'[c] = [conn[c] EXCEPT !.echo = e]
  BY <1>1, <1>2
<1>4. /\ conn'[c].taken = conn[c].taken /\ conn'[c].sent = conn[c].sent
      /\ conn'[c].sv = conn[c].sv /\ conn'[c].cl = conn[c].cl
      /\ conn'[c].fin = conn[c].fin /\ conn'[c].rst = conn[c].rst
  BY <1>1, <1>3 DEF Conn
<1>5. KernelInv'
  BY <1>1, <1>2, <1>3, <1>4, OneConnInv DEF KernelInv
<1> QED
  BY <1>3, <1>5 DEF c, e

\* close() ends the connection behind its descriptor and no other one.
LEMMA CloseFdInv ==
  ASSUME KernelTypeOK, KernelInv, NEW f, CloseFd(f)
  PROVE  /\ KernelInv'
         /\ \A d \in Clients : Quiet(d) /\ OnlyCloses(d)
         /\ \A g \in Fds \ {f} : fdtab'[g] = fdtab[g]
         /\ \A d \in Clients : conn[d].sv = "accepted" /\ conn'[d].sv = "closed"
                               => Connected(f) /\ fdtab[f] = d
<1>0. conn \in [Clients -> Conn]
  BY DEF KernelTypeOK
<1>1. \A g \in Fds : fdtab'[g] = IF g = f THEN "free" ELSE fdtab[g]
  BY DEF CloseFd
<1>2. \A g \in Fds : Connected(g)' <=> g # f /\ Connected(g)
  BY <1>1, ClientsAssumption DEF Connected
<1>3. ASSUME NEW d \in Clients
      PROVE  /\ conn'[d].cl = conn[d].cl /\ conn'[d].sent = conn[d].sent
             /\ conn'[d].taken = conn[d].taken /\ conn'[d].echo = conn[d].echo
             /\ conn'[d].fin = conn[d].fin /\ conn'[d].rst = conn[d].rst
             /\ \/ conn'[d].sv = conn[d].sv
                \/ /\ conn'[d].sv = "closed"
                   /\ \/ conn[d].sv = "backlog"
                      \/ Connected(f) /\ fdtab[f] = d
  <2>1. conn[d] \in Conn
    BY <1>0
  <2>2. \/ conn'[d] = conn[d]
        \/ /\ conn'[d] = [conn[d] EXCEPT !.sv = "closed"]
           /\ \/ conn[d].sv = "backlog"
              \/ Connected(f) /\ fdtab[f] = d
    BY DEF CloseFd, Connected
  <2> QED
    BY <2>1, <2>2 DEF Conn
<1>4. \A g \in Fds : Connected(g)' => conn'[fdtab'[g]].sv = "accepted"
  <2> SUFFICES ASSUME NEW g \in Fds, Connected(g)'
               PROVE  conn'[fdtab[g]].sv = "accepted"
    BY <1>1, <1>2
  <2>1. g # f /\ Connected(g) /\ fdtab[g] \in Clients
    BY <1>2 DEF Connected
  <2>2. conn[fdtab[g]].sv = "accepted"
    BY <2>1 DEF KernelInv
  <2>3. ~(Connected(f) /\ fdtab[f] = fdtab[g])
    BY <2>1 DEF KernelInv, Connected
  <2> QED
    BY <1>3, <2>1, <2>2, <2>3
<1>5. \A g, h \in Fds : Connected(g)' /\ fdtab'[g] = fdtab'[h] => g = h
  BY <1>1, <1>2, ClientsAssumption DEF KernelInv, Connected
<1>6. KernelInv'
  <2>1. ASSUME NEW d \in Clients
        PROVE  /\ conn'[d].sv \in {"none", "backlog"} =>
                     conn'[d].taken = 0 /\ conn'[d].echo = <<>>
               /\ conn'[d].cl = "idle" => conn'[d].sv = "none"
               /\ conn'[d].fin \/ conn'[d].rst # "no" => conn'[d].cl = "closed"
               /\ conn'[d].taken <= conn'[d].sent
    BY <1>3 DEF KernelInv, Connected
  <2>2. ASSUME NEW d \in Clients, conn'[d].sv = "accepted"
        PROVE  \E g \in Fds : fdtab'[g] = d
    <3>1. conn[d].sv = "accepted"
      BY <1>3, <2>2
    <3>2. PICK g \in Fds : fdtab[g] = d
      BY <3>1 DEF KernelInv
    <3>3. g # f
      <4> SUFFICES ASSUME g = f PROVE FALSE
        OBVIOUS
      <4>1. conn'[d] = [conn[d] EXCEPT !.sv = "closed"]
        BY <3>2 DEF CloseFd
      <4>2. conn[d] \in Conn
        BY <1>0
      <4> QED
        BY <2>2, <4>1, <4>2 DEF Conn
    <3> QED
      BY <1>1, <3>2, <3>3
  <2> QED
    BY <1>4, <1>5, <2>1, <2>2 DEF KernelInv
<1>7. ASSUME NEW d \in Clients PROVE OnlyCloses(d)
  BY <1>3 DEF OnlyCloses, KernelInv, Connected
<1> QED
  BY <1>1, <1>3, <1>6, <1>7 DEF Quiet

LEMMA CloseAllInv ==
  ASSUME KernelTypeOK, KernelInv, CloseAll
  PROVE  KernelInv' /\ \A d \in Clients : Quiet(d) /\ OnlyCloses(d)
<1>1. \A g \in Fds : ~Connected(g)'
  BY ClientsAssumption DEF CloseAll, Connected
<1>2. ASSUME NEW d \in Clients PROVE OnlyCloses(d)
  <2>1. conn[d] \in Conn
    BY DEF KernelTypeOK
  <2>2. \/ conn'[d] = conn[d]
        \/ /\ conn[d].sv \in {"backlog", "accepted"}
           /\ conn'[d] = [conn[d] EXCEPT !.sv = "closed"]
    BY DEF CloseAll
  <2>3. CASE conn'[d] = conn[d]
    BY <2>3 DEF OnlyCloses
  <2>4. CASE /\ conn[d].sv \in {"backlog", "accepted"}
             /\ conn'[d] = [conn[d] EXCEPT !.sv = "closed"]
    BY <2>1, <2>4 DEF Conn, OnlyCloses
  <2> QED
    BY <2>2, <2>3, <2>4
<1>3. ASSUME NEW d \in Clients PROVE conn'[d].sv # "accepted"
  <2>1. conn[d] \in Conn
    BY DEF KernelTypeOK
  <2> QED
    BY <2>1 DEF CloseAll, Conn
<1> QED
  BY <1>1, <1>2, <1>3 DEF KernelInv, Quiet, OnlyCloses

\* shutdown() of the listening socket drops the connections nobody accepted
\* and touches no other one.
LEMMA ShutdownListenerInv ==
  ASSUME KernelTypeOK, KernelInv, ShutdownListener
  PROVE  /\ KernelInv'
         /\ \A d \in Clients : Quiet(d) /\ OnlyCloses(d)
         /\ \A d \in Clients : conn[d].sv = "accepted" => conn'[d].sv = "accepted"
         /\ \A g \in Fds : Connected(g)' <=> Connected(g)
         /\ \A g \in Fds : Connected(g) => fdtab'[g] = fdtab[g]
<1>1. \A g \in Fds : /\ fdtab'[g] \in {fdtab[g], "shut"}
                     /\ fdtab'[g] # fdtab[g] => fdtab[g] = "listener"
  BY DEF ShutdownListener
<1>2. \A g \in Fds : /\ Connected(g)' <=> Connected(g)
                     /\ Connected(g) => fdtab'[g] = fdtab[g]
  BY <1>1, ClientsAssumption DEF Connected
<1>3. ASSUME NEW d \in Clients
      PROVE  /\ conn'[d].cl = conn[d].cl /\ conn'[d].sent = conn[d].sent
             /\ conn'[d].taken = conn[d].taken /\ conn'[d].echo = conn[d].echo
             /\ conn'[d].fin = conn[d].fin /\ conn'[d].rst = conn[d].rst
             /\ \/ conn'[d].sv = conn[d].sv /\ conn[d].sv # "backlog"
                \/ conn'[d].sv = "closed" /\ conn[d].sv = "backlog"
  <2>1. conn[d] \in Conn
    BY DEF KernelTypeOK
  <2>2. \/ conn'[d] = conn[d] /\ conn[d].sv # "backlog"
        \/ /\ conn'[d] = [conn[d] EXCEPT !.sv = "closed"]
           /\ conn[d].sv = "backlog"
    BY DEF ShutdownListener
  <2> QED
    BY <2>1, <2>2 DEF Conn
<1>4. \A g, h \in Fds : Connected(g)' /\ fdtab'[g] = fdtab'[h] => g = h
  BY <1>1, <1>2, ClientsAssumption DEF KernelInv, Connected
<1>5. \A g \in Fds : Connected(g)' => conn'[fdtab'[g]].sv = "accepted"
  BY <1>2, <1>3 DEF KernelInv, Connected
<1>6. ASSUME NEW d \in Clients, conn'[d].sv = "accepted"
      PROVE  \E g \in Fds : fdtab'[g] = d
  BY <1>2, <1>3, <1>6 DEF KernelInv, Connected
<1>7. ASSUME NEW d \in Clients
      PROVE  /\ conn'[d].sv \in {"none", "backlog"} =>
                   conn'[d].taken = 0 /\ conn'[d].echo = <<>>
             /\ conn'[d].cl = "idle" => conn'[d].sv = "none"
             /\ conn'[d].fin \/ conn'[d].rst # "no" => conn'[d].cl = "closed"
             /\ conn'[d].taken <= conn'[d].sent
  BY <1>3 DEF KernelInv
<1>8. KernelInv'
  BY <1>4, <1>5, <1>6, <1>7 DEF KernelInv
<1>9. \A d \in Clients : Quiet(d) /\ OnlyCloses(d)
  BY <1>3 DEF Quiet, OnlyCloses
<1> QED
  BY <1>2, <1>3, <1>8, <1>9

\* No packet and no call but close() ends a connection.
LEMMA KeepsOpen ==
  ASSUME KernelTypeOK, KernelInv, NEW f, NEW byte, NEW c \in Clients,
         \/ ClientStep(c)
         \/ f \in Fds /\ Accept(f)
         \/ RecvData(f)
         \/ RecvEnds(f)
         \/ SendByte(f, byte)
         \/ SendFails(f)
  PROVE  \A d \in Clients : conn[d].sv = "accepted" => conn'[d].sv = "accepted"
<1> SUFFICES ASSUME NEW d \in Clients, conn[d].sv = "accepted"
             PROVE  conn'[d].sv = "accepted"
  OBVIOUS
<1>0. conn \in [Clients -> Conn] /\ conn[d] \in Conn
  BY DEF KernelTypeOK
<1>1. CASE ClientStep(c)
  <2>1. CASE d # c
    <3>1. PICK r : conn' = [conn EXCEPT ![c] = r]
      <4>1. CASE Connect(c) \/ ClientSend(c) \/ ClientRecv(c)
        BY <4>1 DEF Connect, ClientSend, ClientRecv
      <4>2. CASE ClientClose(c) \/ ClientAbort(c) \/ ResetArrives(c)
        BY <4>2 DEF ClientClose, ClientAbort, ResetArrives
      <4> QED
        BY <1>1, <4>1, <4>2 DEF ClientStep
    <3> QED
      BY <1>0, <2>1, <3>1
  <2>2. CASE d = c
    <3>1. CASE Connect(c)
      BY <2>2, <3>1 DEF Connect, KernelInv
    <3>2. CASE ClientSend(c)
      BY <1>0, <2>2, <3>2 DEF ClientSend, Conn
    <3>3. CASE ClientRecv(c)
      BY <1>0, <2>2, <3>3 DEF ClientRecv, Conn
    <3>4. CASE ClientClose(c)
      BY <1>0, <2>2, <3>4 DEF ClientClose, Conn
    <3>5. CASE ClientAbort(c)
      BY <1>0, <2>2, <3>5 DEF ClientAbort, Conn
    <3>6. CASE ResetArrives(c)
      BY <1>0, <2>2, <3>6 DEF ResetArrives, Conn
    <3> QED
      BY <1>1, <3>1, <3>2, <3>3, <3>4, <3>5, <3>6 DEF ClientStep
  <2> QED
    BY <2>1, <2>2
<1>2. CASE f \in Fds /\ Accept(f)
  BY <1>0, <1>2 DEF Accept, Conn
<1>3. CASE RecvData(f)
  BY <1>0, <1>3 DEF RecvData, Conn
<1>4. CASE RecvEnds(f)
  <2>1. \/ conn' = conn
        \/ conn' = [conn EXCEPT ![fdtab[f]].rst = "reported"]
    BY <1>4 DEF RecvEnds
  <2>2. conn'[d] = conn[d] \/ conn'[d] = [conn[d] EXCEPT !.rst = "reported"]
    BY <1>0, <2>1
  <2>3. CASE conn'[d] = [conn[d] EXCEPT !.rst = "reported"]
    BY <1>0, <2>3 DEF Conn
  <2> QED
    BY <2>2, <2>3
<1>5. CASE SendByte(f, byte)
  BY <1>0, <1>5 DEF SendByte, Conn
<1>6. CASE SendFails(f)
  <2>1. \/ conn' = conn
        \/ conn' = [conn EXCEPT ![fdtab[f]].rst = "reported"]
    BY <1>6 DEF SendFails
  <2>2. conn'[d] = conn[d] \/ conn'[d] = [conn[d] EXCEPT !.rst = "reported"]
    BY <1>0, <2>1
  <2>3. CASE conn'[d] = [conn[d] EXCEPT !.rst = "reported"]
    BY <1>0, <2>3 DEF Conn
  <2> QED
    BY <2>2, <2>3
<1> QED
  BY <1>1, <1>2, <1>3, <1>4, <1>5, <1>6

-----------------------------------------------------------------------------
(* The byte streams: what a server has read of a client and not sent back. *)

\* s is what client c has still to get of what the server has read.
Owed(c, s) ==
    /\ Len(conn[c].echo) + Len(s) = conn[c].taken
    /\ \A k \in 1..Len(s) : s[k] = <<c, Len(conn[c].echo) + k>>

\* What c got back is a prefix of what it sent.
Prefix(c) ==
    /\ Len(conn[c].echo) <= conn[c].taken
    /\ conn[c].taken <= conn[c].sent
    /\ \A k \in 1..Len(conn[c].echo) : conn[c].echo[k] = <<c, k>>

\* Unless its client reset it, a connection that is not closed is owed s.
InStep(c, s) ==
    conn[c].sv # "closed" /\ conn[c].rst = "no" => Owed(c, s)

\* The client left, and if it left in good order it got everything back.
Settled(c) ==
    /\ conn[c].cl = "closed"
    /\ conn[c].rst = "no" => Len(conn[c].echo) = conn[c].sent

LEMMA ConnSizes ==
  ASSUME KernelTypeOK, NEW c \in Clients
  PROVE  /\ conn[c] \in Conn
         /\ conn[c].sent \in Nat /\ conn[c].taken \in Nat
         /\ conn[c].echo \in Seq(Bytes) /\ Len(conn[c].echo) \in Nat
<1>1. conn[c] \in Conn
  BY DEF KernelTypeOK
<1>2. conn[c].echo \in Seq(Bytes)
  BY <1>1 DEF Conn
<1> QED
  BY <1>1, <1>2, LenProperties, SizesAssumption DEF Conn

\* Steps that move no data.
LEMMA QuietOwed ==
  ASSUME NEW c \in Clients, NEW s, Quiet(c), Owed(c, s)
  PROVE  Owed(c, s)'
BY DEF Quiet, Owed

LEMMA QuietPrefix ==
  ASSUME KernelInv', NEW c \in Clients, Quiet(c), Prefix(c)
  PROVE  Prefix(c)'
BY DEF Quiet, Prefix, KernelInv

LEMMA QuietInStep ==
  ASSUME NEW c \in Clients, NEW s, Quiet(c), InStep(c, s)
  PROVE  InStep(c, s)'
BY DEF Quiet, InStep, Owed

LEMMA QuietSettled ==
  ASSUME NEW c \in Clients, Quiet(c), Settled(c)
  PROVE  Settled(c)'
BY DEF Quiet, Settled

LEMMA UntouchedQuiet ==
  ASSUME NEW c \in Clients, conn'[c] = conn[c]
  PROVE  Quiet(c)
BY DEF Quiet

\* recv() takes what it puts into an empty buffer.
LEMMA RecvInStep ==
  ASSUME KernelTypeOK, KernelInv, NEW f, NEW c, fdtab[f] = c, RecvData(f),
         InStep(c, <<>>), Prefix(c)
  PROVE  /\ KernelInv' /\ UNCHANGED fdtab
         /\ \A d \in Clients \ {c} : conn'[d] = conn[d]
         /\ Prefix(c)'
         /\ \E r \in Seq(Bytes) : r = RecvBytes(f) /\ r # <<>> /\ InStep(c, r)'
<1>1. c \in Clients /\ Connected(f) /\ Available(f) > 0
  BY DEF RecvData, Connected
<1>2. /\ conn[c] \in Conn /\ conn[c].sv = "accepted"
      /\ conn[c].sent \in Nat /\ conn[c].taken \in Nat /\ Len(conn[c].echo) \in Nat
  BY <1>1, ConnSizes DEF KernelInv, Connected
<1>3. PICK n \in Nat, r \in Seq(Bytes) :
         /\ n = RecvCount(f) /\ r = RecvBytes(f) /\ Len(r) = n /\ r # <<>>
         /\ \A k \in 1..n : r[k] = <<c, conn[c].taken + k>>
  <2>1. RecvCount(f) \in Nat
    BY <1>1, <1>2, RecvCountBounds DEF Available
  <2> QED
    BY <1>1, <2>1, RecvBytesTyped
<1>4. /\ KernelInv'
      /\ \A d \in Clients \ {c} : conn'[d] = conn[d]
      /\ conn'[c] = [conn[c] EXCEPT !.taken = conn[c].taken + n]
  BY <1>3, RecvDataInv
<1>5. /\ conn'[c].echo = conn[c].echo /\ conn'[c].sent = conn[c].sent
      /\ conn'[c].rst = conn[c].rst /\ conn'[c].taken = conn[c].taken + n
  BY <1>2, <1>4 DEF Conn
<1>6. conn[c].rst = "no" => Owed(c, r)'
  <2>1. conn[c].rst = "no" => Len(conn[c].echo) = conn[c].taken
    BY <1>2, EmptySeq DEF InStep, Owed
  <2> QED
    BY <1>2, <1>3, <1>5, <2>1 DEF Owed
<1>7. Prefix(c)'
  <2>1. conn'[c].taken <= conn'[c].sent
    BY <1>1, <1>4 DEF KernelInv
  <2> QED
    BY <1>2, <1>3, <1>5, <2>1 DEF Prefix
<1>8. InStep(c, r)'
  BY <1>5, <1>6 DEF InStep
<1> QED
  BY <1>3, <1>4, <1>7, <1>8 DEF RecvData

\* send() gives the client the next byte it is owed.
LEMMA SendInStep ==
  ASSUME KernelTypeOK, KernelInv, NEW f, NEW c, fdtab[f] = c,
         NEW o \in Seq(Bytes), o # <<>>, SendByte(f, Head(o)),
         InStep(c, o), Prefix(c)
  PROVE  /\ KernelTypeOK' /\ KernelInv' /\ UNCHANGED fdtab
         /\ \A d \in Clients \ {c} : conn'[d] = conn[d]
         /\ InStep(c, Tail(o))' /\ Prefix(c)'
         /\ Tail(o) \in Seq(Bytes)
         /\ Head(o) = <<c, Len(conn[c].echo) + 1>>
         /\ Len(conn[c].echo) < conn[c].sent
<1>1. PICK b \in Bytes, u \in Seq(Bytes) :
         /\ b = Head(o) /\ u = Tail(o) /\ b = o[1]
         /\ Len(o) \in Nat /\ Len(o) >= 1 /\ Len(u) = Len(o) - 1
         /\ \A k \in 1..Len(u) : u[k] = o[k + 1]
  <2>1. /\ Head(o) \in Bytes /\ Head(o) = o[1] /\ Tail(o) \in Seq(Bytes)
        /\ Len(o) \in Nat /\ Len(o) >= 1 /\ Len(Tail(o)) = Len(o) - 1
        /\ \A k \in 1..Len(Tail(o)) : Tail(o)[k] = o[k + 1]
    BY FirstOff
  <2> QED
    BY <2>1, Zenon
<1>2. /\ SendByte(f, b) /\ c \in Clients /\ Connected(f) /\ conn[c].rst = "no"
  BY <1>1 DEF SendByte, Connected
<1>3. /\ conn[c] \in Conn /\ conn[c].sv = "accepted" /\ conn[c].echo \in Seq(Bytes)
      /\ conn[c].sent \in Nat /\ conn[c].taken \in Nat /\ Len(conn[c].echo) \in Nat
  BY <1>2, ConnSizes DEF KernelInv, Connected
<1>4. /\ KernelInv'
      /\ \A d \in Clients \ {c} : conn'[d] = conn[d]
      /\ conn'[c] = [conn[c] EXCEPT !.echo = Append(conn[c].echo, b)]
  BY <1>2, SendByteInv
<1>5. /\ conn'[c].echo = Append(conn[c].echo, b) /\ conn'[c].sent = conn[c].sent
      /\ conn'[c].taken = conn[c].taken /\ conn'[c].rst = "no"
  BY <1>2, <1>3, <1>4 DEF Conn
<1>6. /\ Len(conn'[c].echo) = Len(conn[c].echo) + 1
      /\ \A k \in 1..Len(conn[c].echo) : conn'[c].echo[k] = conn[c].echo[k]
      /\ conn'[c].echo[Len(conn[c].echo) + 1] = b
  BY <1>3, <1>5, AppendProperties
<1>7. Owed(c, o)
  BY <1>2, <1>3 DEF InStep
<1>8. b = <<c, Len(conn[c].echo) + 1>> /\ Len(conn[c].echo) < conn[c].taken
  BY <1>1, <1>3, <1>7 DEF Owed
<1>9. Owed(c, u)'
  BY <1>1, <1>3, <1>5, <1>6, <1>7 DEF Owed
<1>10. Prefix(c)'
  <2>1. Len(conn'[c].echo) <= conn[c].taken
    BY <1>3, <1>6, <1>8
  <2>2. \A k \in 1..Len(conn'[c].echo) : conn'[c].echo[k] = <<c, k>>
    <3> TAKE k \in 1..Len(conn'[c].echo)
    <3>1. k \in 1..Len(conn[c].echo) \/ k = Len(conn[c].echo) + 1
      BY <1>3, <1>6
    <3>2. CASE k \in 1..Len(conn[c].echo)
      BY <3>2, <1>6 DEF Prefix
    <3>3. CASE k = Len(conn[c].echo) + 1
      BY <3>3, <1>6, <1>8
    <3> QED
      BY <3>1, <3>2, <3>3
  <2> QED
    BY <1>5, <2>1, <2>2 DEF Prefix
<1>11. KernelTypeOK' /\ UNCHANGED fdtab
  BY <1>2, SendByteTyped DEF SendByte
<1>12. Len(conn[c].echo) < conn[c].sent
  BY <1>3, <1>8 DEF Prefix
<1> QED
  BY <1>1, <1>4, <1>8, <1>9, <1>10, <1>11, <1>12 DEF InStep

\* recv() <= 0 comes only after the client left and, if it left in good
\* order, after the last of its bytes.
LEMMA RecvEndsSettled ==
  ASSUME KernelTypeOK, KernelInv, NEW f, NEW c, fdtab[f] = c, Connected(f),
         RecvEnds(f), InStep(c, <<>>)
  PROVE  Settled(c)'
<1>1. /\ c \in Clients /\ conn[c].sv = "accepted"
      /\ conn[c].sent \in Nat /\ conn[c].taken \in Nat /\ Len(conn[c].echo) \in Nat
  BY ConnSizes DEF KernelInv, Connected
<1>2. KernelInv' /\ Quiet(c)
  BY <1>1, RecvEndsInv
<1>3. conn[c].taken = conn[c].sent
  BY <1>1 DEF RecvEnds, Available
<1>4. conn[c].cl = "closed"
  <2>1. conn[c].fin \/ conn[c].rst # "no"
    BY DEF RecvEnds
  <2> QED
    BY <1>1, <2>1 DEF KernelInv
<1>5. conn[c].rst = "no" => Len(conn[c].echo) = conn[c].taken
  BY <1>1, EmptySeq DEF InStep, Owed
<1> QED
  BY <1>1, <1>2, <1>3, <1>4, <1>5 DEF Settled, Quiet

\* send() fails only on a connection the client reset.
LEMMA SendFailsSettled ==
  ASSUME KernelTypeOK, KernelInv, NEW f, NEW c, fdtab[f] = c, Connected(f),
         SendFails(f)
  PROVE  Settled(c)'
<1>1. c \in Clients /\ conn[c].rst = "ECONNRESET"
  BY DEF Connected, SendFails
<1>2. Quiet(c) /\ conn[c].cl = "closed"
  BY <1>1, SendFailsInv DEF KernelInv
<1> QED
  BY <1>1, <1>2 DEF Settled, Quiet

-----------------------------------------------------------------------------
(* What the abstract echo service sees of the calls.                       *)

\* What the abstract service sees of a connection.
Seen(c) == <<conn[c].sv, conn[c].sent, conn[c].echo>>

LEMMA PhaseValues ==
  /\ Phase("none") = "idle"
  /\ Phase("backlog") = "waiting"
  /\ Phase("accepted") = "serving"
  /\ Phase("closed") = "gone"
BY DEF Phase

LEMMA NothingSeen ==
  ASSUME \A c \in Clients : Seen(c)' = Seen(c)
  PROVE  UNCHANGED Service!vars
BY DEF Seen, Service!vars

LEMMA ClosingLeaves ==
  ASSUME \A c \in Clients : OnlyCloses(c)
  PROVE  Service!Next
<1> DEFINE S == {c \in Clients : conn'[c].sv # conn[c].sv}
<1>1. \A c \in S : Phase(conn[c].sv) \in {"waiting", "serving"}
  BY PhaseValues DEF OnlyCloses
<1>2. \A c \in Clients :
         Phase(conn'[c].sv) = IF c \in S THEN "gone" ELSE Phase(conn[c].sv)
  BY PhaseValues DEF OnlyCloses
<1>3. \A c \in Clients : conn'[c].sent = conn[c].sent /\ conn'[c].echo = conn[c].echo
  BY DEF OnlyCloses
<1>4. S \in SUBSET Clients
  OBVIOUS
<1> HIDE DEF S
<1>5. Service!Leave(S)
  BY <1>1, <1>2, <1>3, <1>4 DEF Service!Leave
<1> QED
  BY <1>4, <1>5 DEF Service!Next

LEMMA ClientStepSeen ==
  ASSUME KernelTypeOK, KernelInv, NEW c \in Clients, ClientStep(c)
  PROVE  Service!Next \/ UNCHANGED Service!vars
<1>0. conn \in [Clients -> Conn] /\ conn[c] \in Conn
  BY DEF KernelTypeOK
<1>1. CASE Connect(c)
  <2>1. conn[c].sv = "none"
    BY <1>1 DEF Connect, KernelInv
  <2>2. conn' = [conn EXCEPT ![c] = [conn[c] EXCEPT !.cl = "open", !.sv = "backlog"]]
    BY <1>0, <1>1 DEF Connect
  <2>3. /\ conn'[c].sv = "backlog" /\ conn'[c].sent = conn[c].sent
        /\ conn'[c].echo = conn[c].echo
        /\ \A d \in Clients \ {c} : conn'[d] = conn[d]
    BY <1>0, <2>2 DEF Conn
  <2>4. Service!Arrive(c)
    BY <2>1, <2>3, PhaseValues DEF Service!Arrive
  <2> QED
    BY <2>4 DEF Service!Next
<1>2. CASE ClientSend(c)
  <2> DEFINE n == conn[c].sent + 1
  <2>1. /\ conn[c].sv \in {"backlog", "accepted"} /\ conn[c].sent < MaxBytes
        /\ conn' = [conn EXCEPT ![c].sent = n]
    BY <1>2 DEF ClientSend
  <2> HIDE DEF n
  <2>2. /\ conn'[c].sv = conn[c].sv /\ conn'[c].sent = n
        /\ conn'[c].echo = conn[c].echo
        /\ \A d \in Clients \ {c} : conn'[d] = conn[d]
    BY <1>0, <2>1 DEF Conn
  <2>a. \A d \in Clients : /\ conn'[d].sv = conn[d].sv /\ conn'[d].echo = conn[d].echo
                          /\ conn'[d].sent = IF d = c THEN conn[c].sent + 1
                                                     ELSE conn[d].sent
    BY <2>2 DEF n
  <2>b. Phase(conn[c].sv) \in {"waiting", "serving"}
    BY <2>1, PhaseValues
  <2>c. [d \in Clients |-> conn'[d].sent] =
           [[d \in Clients |-> conn[d].sent] EXCEPT ![c] = conn[c].sent + 1]
    BY <2>a
  <2>d. /\ [d \in Clients |-> Phase(conn'[d].sv)] = [d \in Clients |-> Phase(conn[d].sv)]
        /\ [d \in Clients |-> conn'[d].echo] = [d \in Clients |-> conn[d].echo]
    BY <2>a
  <2>3. Service!Send(c)
    BY <2>1, <2>b, <2>c, <2>d DEF Service!Send
  <2> QED
    BY <2>3 DEF Service!Next
<1>3. CASE ~Connect(c) /\ ~ClientSend(c)
  <2>1. \A d \in Clients \ {c} : conn'[d] = conn[d]
    BY <1>0, <1>3
       DEF ClientStep, ClientRecv, ClientClose, ClientAbort, ResetArrives
  <2>2. Seen(c)' = Seen(c)
    <3>1. CASE ClientRecv(c)
      BY <1>0, <3>1 DEF ClientRecv, Conn, Seen
    <3>2. CASE ClientClose(c)
      BY <1>0, <3>2 DEF ClientClose, Conn, Seen
    <3>3. CASE ClientAbort(c)
      BY <1>0, <3>3 DEF ClientAbort, Conn, Seen
    <3>4. CASE ResetArrives(c)
      BY <1>0, <3>4 DEF ResetArrives, Conn, Seen
    <3> QED
      BY <1>3, <3>1, <3>2, <3>3, <3>4 DEF ClientStep
  <2> QED
    BY <2>1, <2>2, NothingSeen DEF Seen
<1> QED
  BY <1>1, <1>2, <1>3

LEMMA AcceptSeen ==
  ASSUME KernelTypeOK, NEW f \in Fds, Accept(f)
  PROVE  Service!Next
<1> PICK c \in Pending : conn' = [conn EXCEPT ![c].sv = "accepted"]
  BY DEF Accept
<1>1. c \in Clients /\ conn[c] \in Conn /\ conn[c].sv = "backlog"
  BY DEF Pending, KernelTypeOK
<1>2. /\ conn'[c].sv = "accepted" /\ conn'[c].sent = conn[c].sent
      /\ conn'[c].echo = conn[c].echo
      /\ \A d \in Clients \ {c} : conn'[d] = conn[d]
  BY <1>1 DEF KernelTypeOK, Conn
<1>3. \A d \in Clients :
         /\ Phase(conn'[d].sv) = IF d = c THEN "serving" ELSE Phase(conn[d].sv)
         /\ conn'[d].sent = conn[d].sent /\ conn'[d].echo = conn[d].echo
  BY <1>1, <1>2, PhaseValues
<1>4. Phase(conn[c].sv) = "waiting"
  BY <1>1, PhaseValues
<1>5. Service!Serve(c)
  BY <1>1, <1>3, <1>4 DEF Service!Serve
<1> QED
  BY <1>1, <1>5 DEF Service!Next

\* Calls that move no byte to a client and open or close no connection.
LEMMA CallUnseen ==
  ASSUME KernelTypeOK, NEW f, RecvData(f) \/ RecvEnds(f) \/ SendFails(f)
  PROVE  UNCHANGED Service!vars
<1> SUFFICES ASSUME NEW c \in Clients PROVE Seen(c)' = Seen(c)
  BY NothingSeen
<1>1. conn \in [Clients -> Conn] /\ conn[c] \in Conn
  BY DEF KernelTypeOK
<1>2. CASE RecvData(f)
  BY <1>1, <1>2 DEF RecvData, Conn, Seen
<1>3. CASE RecvEnds(f) \/ SendFails(f)
  <2>1. \/ conn' = conn
        \/ conn' = [conn EXCEPT ![fdtab[f]].rst = "reported"]
    BY <1>3 DEF RecvEnds, SendFails
  <2>2. conn'[c] = conn[c] \/ conn'[c] = [conn[c] EXCEPT !.rst = "reported"]
    BY <1>1, <2>1
  <2>3. CASE conn'[c] = [conn[c] EXCEPT !.rst = "reported"]
    BY <1>1, <2>3 DEF Conn, Seen
  <2> QED
    BY <2>2, <2>3 DEF Seen
<1> QED
  BY <1>2, <1>3

\* A byte sent that is the next one of its client.
LEMMA EchoSeen ==
  ASSUME KernelTypeOK, KernelInv, NEW f, NEW c, fdtab[f] = c,
         SendByte(f, <<c, Len(conn[c].echo) + 1>>),
         Len(conn[c].echo) < conn[c].sent
  PROVE  Service!Next
<1>1. c \in Clients /\ conn[c] \in Conn /\ conn[c].sv = "accepted"
  BY DEF SendByte, Connected, KernelTypeOK, KernelInv
<1> DEFINE e == Append(conn[c].echo, <<c, Len(conn[c].echo) + 1>>)
<1>2. /\ \A d \in Clients \ {c} : conn'[d] = conn[d]
      /\ conn'[c] = [conn[c] EXCEPT !.echo = e]
  BY SendByteInv
<1> HIDE DEF e
<1>3. /\ \A d \in Clients : conn'[d].sv = conn[d].sv /\ conn'[d].sent = conn[d].sent
      /\ \A d \in Clients : conn'[d].echo = IF d = c THEN e ELSE conn[d].echo
  BY <1>1, <1>2 DEF Conn
<1>4. [d \in Clients |-> conn'[d].echo] = [[d \in Clients |-> conn[d].echo] EXCEPT ![c] = e]
  BY <1>3
<1>5. /\ [d \in Clients |-> Phase(conn'[d].sv)] = [d \in Clients |-> Phase(conn[d].sv)]
      /\ [d \in Clients |-> conn'[d].sent] = [d \in Clients |-> conn[d].sent]
  BY <1>3
<1>6. Phase(conn[c].sv) = "serving"
  BY <1>1, PhaseValues
<1>7. Service!Echo(c)
  BY <1>1, <1>4, <1>5, <1>6 DEF Service!Echo, e
<1> QED
  BY <1>1, <1>7 DEF Service!Next
=============================================================================
