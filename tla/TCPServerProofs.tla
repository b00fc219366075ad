---------------------------- MODULE TCPServerProofs ----------------------------
(***************************************************************************)
(* The C++ TCPServer, proved for any number of clients and any finite set  *)
(* of threads, with a stop() at any moment and calls that fail: who owns   *)
(* which Socket, what the vector of threads and its mutex guarantee to the *)
(* destructor, and that the clients see an echo service.                   *)
(***************************************************************************)
EXTENDS TCPServer, TcpSocketProofs, FiniteSetTheorems

\* A thread that has a Socket.
Working == {"convert", "recv", "send", "sending", "close"}

ClientOf(t) == fdtab[thr[t].client_fd]

\* A thread has bytes to send only while it sends.
BufferInUse ==
    \A t \in Threads :
       thr[t].unsent # <<>> <=> thr[t].st \in {"send", "sending"}

\* The vector holds every thread ever started, once.
VectorOfThreads ==
    /\ \A i, j \in 1..Len(threads) : threads[i] = threads[j] => i = j
    /\ \A t \in Threads :
          thr[t].st # "none" <=> \E i \in 1..Len(threads) : threads[i] = t

\* Who holds thread_mutex.
MutexHolder ==
    /\ pc = "emplace" => mutex = "main"
    /\ \A p \in Stoppers : stop[p] = "join" => mutex = p

\* How far the destructor is: run() is over, and the threads before the
\* iterator are joined.
Joining ==
    /\ stop["main"] # "idle" => pc \in {"destroying", "ended", "killed"}
    /\ stop["main"] = "join" =>
          \A i \in 1..Len(threads) :
             i < index["main"] => thr[threads[i]].st = "joined"
    /\ stop["main"] = "done" =>
          \A i \in 1..Len(threads) : thr[threads[i]].st = "joined"
    /\ pc = "ended" => stop["main"] = "done"

\* A thread has in its buffer all it still owes its client, and closes only
\* when the client left and got everything.
ThreadInStep(t) ==
    /\ InStep(ClientOf(t), thr[t].unsent)
    /\ thr[t].st = "close" => Settled(ClientOf(t))

\* A connection no thread serves yet is untouched.
Streams ==
    /\ Alive => /\ Accepted => InStep(fdtab[client_fd], <<>>)
                /\ \A t \in Serving : ThreadInStep(t)
    /\ \A c \in Clients : Prefix(c)

ThreadsInv == VectorOfThreads /\ MutexHolder /\ Joining
SocketsInv == FdOwnership /\ Streams

ServerInv == TypeOK /\ BufferInUse /\ KernelInv /\ ThreadsInv /\ SocketsInv

\* While a stop() goes through the vector, run() adds no thread to it and no
\* other stop() joins.
VectorHasOneUser ==
    \A p \in Stoppers : stop[p] = "join" =>
       /\ pc # "emplace"
       /\ \A q \in Stoppers : stop[q] = "join" => q = p

-----------------------------------------------------------------------------
(* The threads.                                                            *)

\* What a step of a thread does to the server besides its call.
ThreadMoves(t, r) ==
    /\ r \in ThreadState
    /\ thr' = [thr EXCEPT ![t] = r]
    /\ thr[t].st \in Working
    /\ r.client_fd = thr[t].client_fd
    /\ UNCHANGED <<pc, frame, running, mutex, threads, stops>>

LEMMA Parts ==
  ASSUME ServerInv
  PROVE  /\ KernelTypeOK /\ KernelInv /\ TypeOK /\ BufferInUse
         /\ VectorOfThreads /\ MutexHolder /\ Joining
         /\ FdOwnership /\ Streams
         /\ thr \in [Threads -> ThreadState]
         /\ \A t \in Threads : thr[t] \in ThreadState
BY DEF ServerInv, TypeOK, ThreadsInv, SocketsInv

LEMMA ServingThread ==
  ASSUME ServerInv, Alive, NEW t \in Threads, thr[t].st \in Working
  PROVE  /\ t \in Serving /\ thr[t].client_fd \in Fds
         /\ Connected(thr[t].client_fd) /\ ClientOf(t) \in Clients
         /\ ThreadInStep(t) /\ Prefix(ClientOf(t))
<1>1. t \in Serving
  BY DEF Serving, Working
<1>2. Connected(thr[t].client_fd) /\ ThreadInStep(t)
  BY <1>1, Parts DEF FdOwnership, Streams
<1> QED
  BY <1>1, <1>2, Parts DEF Connected, ClientOf, Streams

LEMMA ConvertMoves ==
  ASSUME ServerInv, NEW t \in Threads, Convert(t)
  PROVE  /\ \E r : ThreadMoves(t, r) /\ r.st = "recv" /\ r.unsent = thr[t].unsent
         /\ KernelTypeOK' /\ UNCHANGED kernel
<1> DEFINE r == [thr[t] EXCEPT !.st = "recv", !.ip = client_ip]
<1>1. /\ thr[t] \in ThreadState /\ thr[t].st = "convert"
      /\ client_ip \in Clients \cup {"garbage"} /\ thr[t].unsent = <<>>
  BY Parts DEF Convert, InThread, BufferInUse, TypeOK
<1>2. /\ r \in ThreadState /\ r.client_fd = thr[t].client_fd
      /\ r.st = "recv" /\ r.unsent = thr[t].unsent
  BY <1>1 DEF ThreadState
<1>3. thr' = [thr EXCEPT ![t] = r]
  BY Parts DEF Convert
<1>4. ThreadMoves(t, r)
  BY <1>1, <1>2, <1>3 DEF ThreadMoves, Convert, InThread, Working
<1>5. KernelTypeOK' /\ UNCHANGED kernel
  BY Parts DEF Convert, kernel, KernelTypeOK
<1> QED
  BY <1>2, <1>4, <1>5

\* What Goto does.
LEMMA GotoMoves ==
  ASSUME ServerInv, NEW t \in Threads,
         NEW from, NEW to, NEW s \in Seq(Bytes),
         from \in Working, InThread(t, from), Goto(t, to, s),
         to \in {"recv", "send", "sending", "close", "exited"}
  PROVE  \E r : ThreadMoves(t, r) /\ r.st = to /\ r.unsent = s
<1> DEFINE r == [thr[t] EXCEPT !.st = to, !.unsent = s]
<1>1. /\ thr[t] \in ThreadState /\ thr[t].st \in Working
  BY Parts DEF InThread
<1>2. /\ r \in ThreadState /\ r.client_fd = thr[t].client_fd
      /\ r.st = to /\ r.unsent = s
  BY <1>1 DEF ThreadState
<1>3. thr' = [thr EXCEPT ![t] = r]
  BY Parts DEF Goto
<1>4. ThreadMoves(t, r)
  BY <1>1, <1>2, <1>3 DEF ThreadMoves, InThread
<1> QED
  BY <1>2, <1>4

\* A call of a thread on its connection: the thread goes on, with what the
\* connection is now owed in its buffer, and nobody else notices.
OneCall(t) ==
    /\ KernelTypeOK' /\ KernelInv' /\ UNCHANGED fdtab
    /\ \A d \in Clients \ {ClientOf(t)} : conn'[d] = conn[d]
    /\ conn'[ClientOf(t)].sv = conn[ClientOf(t)].sv
    /\ Prefix(ClientOf(t))'
    /\ \E r : /\ ThreadMoves(t, r) /\ r.st \in Working
              /\ r.unsent # <<>> <=> r.st \in {"send", "sending"}
    /\ ThreadInStep(t)'

\* Only the streams are left to show of such a call.
LEMMA CallMade ==
  ASSUME ServerInv, NEW t \in Threads, NEW c \in Clients, c = ClientOf(t),
         conn[c].sv = "accepted",
         NEW r, ThreadMoves(t, r), r.st \in Working,
         KernelTypeOK', KernelInv', UNCHANGED fdtab,
         \A d \in Clients \ {c} : conn'[d] = conn[d],
         Prefix(c)',
         NEW s, r.unsent = s, InStep(c, s)',
         s # <<>> <=> r.st \in {"send", "sending"},
         r.st = "close" => Settled(c)',
         \E f \in Fds : fdtab[f] = c
  PROVE  OneCall(t)
<1>1. /\ thr'[t].client_fd = thr[t].client_fd /\ thr'[t].st = r.st
      /\ thr'[t].unsent = s
  BY Parts DEF ThreadMoves
<1>2. c = ClientOf(t)'
  BY <1>1 DEF ClientOf
<1>3. ThreadInStep(t)'
  BY <1>1, <1>2 DEF ThreadInStep, InStep, Owed, Settled
<1>4. conn'[c].sv = "accepted"
  BY DEF KernelInv, Connected
<1>5. Prefix(ClientOf(t))'
  BY <1>2 DEF Prefix
<1> QED
  BY <1>2, <1>3, <1>4, <1>5 DEF OneCall, Prefix

LEMMA RecvCall ==
  ASSUME ServerInv, Alive, NEW t \in Threads, Recv(t)
  PROVE  OneCall(t)
<1>1. thr[t].st = "recv" /\ thr[t].st \in Working /\ InThread(t, "recv")
  BY DEF Recv, InThread, Working
<1>2. PICK f \in Fds, c \in Clients : f = thr[t].client_fd /\ c = ClientOf(t)
  BY <1>1, ServingThread
<1>3. /\ KernelTypeOK /\ KernelInv /\ fdtab[f] = c /\ Prefix(c)
      /\ InStep(c, <<>>) /\ conn[c].sv = "accepted"
  BY <1>1, <1>2, Parts, ServingThread
     DEF ThreadInStep, BufferInUse, ClientOf, KernelInv
<1>4. RecvData(f) /\ Goto(t, "send", RecvBytes(f))
  BY <1>2 DEF Recv
<1>5. /\ KernelInv' /\ UNCHANGED fdtab /\ Prefix(c)' /\ KernelTypeOK'
      /\ \A d \in Clients \ {c} : conn'[d] = conn[d]
  BY <1>3, <1>4, RecvInStep, RecvDataTyped
<1>6. PICK s \in Seq(Bytes) : s = RecvBytes(f) /\ s # <<>> /\ InStep(c, s)'
  BY <1>3, <1>4, RecvInStep
<1>7. PICK r : ThreadMoves(t, r) /\ r.st = "send" /\ r.unsent = s
  BY <1>1, <1>4, <1>6, GotoMoves DEF Working
<1> QED
  BY <1>2, <1>3, <1>5, <1>6, <1>7, CallMade DEF Working

LEMMA RecvStopsCall ==
  ASSUME ServerInv, Alive, NEW t \in Threads, RecvStops(t)
  PROVE  OneCall(t)
<1>1. thr[t].st = "recv" /\ thr[t].st \in Working /\ InThread(t, "recv")
  BY DEF RecvStops, InThread, Working
<1>2. PICK f \in Fds, c \in Clients : f = thr[t].client_fd /\ c = ClientOf(t)
  BY <1>1, ServingThread
<1>3. /\ KernelTypeOK /\ KernelInv /\ fdtab[f] = c /\ Prefix(c)
      /\ InStep(c, <<>>) /\ conn[c].sv = "accepted" /\ Connected(f)
  BY <1>1, <1>2, Parts, ServingThread
     DEF ThreadInStep, BufferInUse, ClientOf, KernelInv
<1>4. RecvEnds(f) /\ Goto(t, "close", <<>>)
  BY <1>2 DEF RecvStops
<1>5. /\ KernelInv' /\ Quiet(c) /\ UNCHANGED fdtab /\ KernelTypeOK'
  BY <1>3, <1>4, RecvEndsInv, RecvEndsTyped DEF RecvEnds
<1>6. \A d \in Clients \ {c} : conn'[d] = conn[d]
  BY <1>3, <1>4 DEF RecvEnds, KernelTypeOK
<1>7. Settled(c)' /\ Prefix(c)' /\ InStep(c, <<>>)'
  BY <1>3, <1>4, <1>5, RecvEndsSettled, QuietPrefix, QuietInStep
<1>8. PICK s \in Seq(Bytes) :
         s = <<>> /\ InStep(c, s)' /\ Goto(t, "close", s)
  <2>1. <<>> \in Seq(Bytes) /\ \A s : s = <<>> => InStep(c, s)'
    BY <1>7 DEF InStep, Owed
  <2> QED
    BY <1>4, <2>1 DEF Goto
<1>9. PICK r : ThreadMoves(t, r) /\ r.st = "close" /\ r.unsent = s
  <2>1. Goto(t, "close", s)
    BY <1>8
  <2> QED
    BY <1>1, <2>1, GotoMoves DEF Working
<1> QED
  BY <1>2, <1>3, <1>5, <1>6, <1>7, <1>8, <1>9, CallMade DEF Working

LEMMA SendThrowsCall ==
  ASSUME ServerInv, Alive, NEW t \in Threads, SendThrows(t)
  PROVE  OneCall(t)
<1>1. thr[t].st = "send" /\ thr[t].st \in Working /\ InThread(t, "send")
  BY DEF SendThrows, InThread, Working
<1>2. PICK f \in Fds, c \in Clients : f = thr[t].client_fd /\ c = ClientOf(t)
  BY <1>1, ServingThread
<1>3. /\ KernelTypeOK /\ KernelInv /\ fdtab[f] = c /\ Prefix(c)
      /\ conn[c].sv = "accepted" /\ Connected(f)
  BY <1>1, <1>2, Parts, ServingThread DEF ClientOf, KernelInv
<1>4. SendFails(f) /\ Goto(t, "close", <<>>)
  BY <1>2 DEF SendThrows
<1>5. /\ KernelInv' /\ Quiet(c) /\ UNCHANGED fdtab /\ KernelTypeOK'
  BY <1>3, <1>4, SendFailsInv, SendFailsTyped DEF SendFails
<1>6. \A d \in Clients \ {c} : conn'[d] = conn[d]
  BY <1>3, <1>4 DEF SendFails, KernelTypeOK
<1>7. Settled(c)' /\ Prefix(c)' /\ conn'[c].rst # "no"
  BY <1>3, <1>4, <1>5, SendFailsSettled, QuietPrefix DEF SendFails, Quiet
<1>8. PICK s \in Seq(Bytes) :
         s = <<>> /\ InStep(c, s)' /\ Goto(t, "close", s)
  <2>1. <<>> \in Seq(Bytes) /\ \A s : InStep(c, s)'
    BY <1>7 DEF InStep
  <2> QED
    BY <1>4, <2>1 DEF Goto
<1>9. PICK r : ThreadMoves(t, r) /\ r.st = "close" /\ r.unsent = s
  <2>1. Goto(t, "close", s)
    BY <1>8
  <2> QED
    BY <1>1, <2>1, GotoMoves DEF Working
<1> QED
  BY <1>2, <1>3, <1>5, <1>6, <1>7, <1>8, <1>9, CallMade DEF Working

\* send() gives the client the next byte it is owed, or is cut short.
LEMMA SendCall ==
  ASSUME ServerInv, Alive, NEW t \in Threads, Send(t)
  PROVE  /\ OneCall(t)
         /\ \/ UNCHANGED kernel
            \/ \E f \in Fds, c \in Clients :
                  /\ fdtab[f] = c
                  /\ SendByte(f, <<c, Len(conn[c].echo) + 1>>)
                  /\ Len(conn[c].echo) < conn[c].sent
<1>1. PICK from \in {"send", "sending"} : thr[t].st = from /\ InThread(t, from)
  BY DEF Send, InThread
<1>2. PICK f \in Fds, c \in Clients : f = thr[t].client_fd /\ c = ClientOf(t)
  BY <1>1, ServingThread DEF Working
<1>3. /\ KernelTypeOK /\ KernelInv /\ fdtab[f] = c /\ Prefix(c)
      /\ conn[c].sv = "accepted" /\ Connected(f)
  BY <1>1, <1>2, Parts, ServingThread DEF ClientOf, KernelInv, Working
<1>4. PICK o \in Seq(Bytes) : o = thr[t].unsent /\ o # <<>> /\ InStep(c, o)
  BY <1>1, <1>2, Parts, ServingThread
     DEF ThreadState, BufferInUse, ThreadInStep, Working
<1>5. PICK b, u : b = Head(o) /\ u = Tail(o) /\ u \in Seq(Bytes)
  BY <1>4, FirstOff
<1>6. PICK rest \in {<<>>, Tail(thr[t].unsent)} :
         /\ SendStep(thr[t].client_fd, thr[t].unsent, rest, thr[t].st = "sending")
         /\ Goto(t, IF rest = <<>> THEN "recv" ELSE "sending", rest)
  BY DEF Send
<1>a. rest \in Seq(Bytes)
  <2>1. <<>> \in Seq(Bytes)
    OBVIOUS
  <2> QED
    BY <1>4, <1>5, <2>1
<1>7. PICK to \in {"recv", "sending"} :
         /\ to = "recv" <=> rest = <<>>
         /\ Goto(t, to, rest)
  BY <1>6 DEF Goto
<1>8. PICK r : ThreadMoves(t, r) /\ r.st = to /\ r.unsent = rest
  <2>1. Goto(t, to, rest)
    BY <1>7
  <2> QED
    BY <1>1, <1>a, <2>1, GotoMoves DEF Working
<1>9. \/ SendByte(f, b) /\ rest = u
      \/ SendCutShort(f) /\ UNCHANGED kernel /\ rest = <<>>
  BY <1>2, <1>4, <1>5, <1>6 DEF SendStep
<1>10. CASE SendByte(f, b) /\ rest = u
  <2>1. /\ KernelTypeOK' /\ KernelInv' /\ UNCHANGED fdtab
        /\ \A d \in Clients \ {c} : conn'[d] = conn[d]
        /\ InStep(c, u)' /\ Prefix(c)'
        /\ b = <<c, Len(conn[c].echo) + 1>>
        /\ Len(conn[c].echo) < conn[c].sent
    BY <1>3, <1>4, <1>5, <1>10, SendInStep
  <2>2. OneCall(t)
    BY <1>2, <1>3, <1>7, <1>8, <1>10, <2>1, CallMade DEF Working
  <2> QED
    BY <1>3, <1>10, <2>1, <2>2
<1>11. CASE SendCutShort(f) /\ UNCHANGED kernel /\ rest = <<>>
  <2>1. conn' = conn /\ fdtab' = fdtab /\ conn[c].rst # "no"
    BY <1>3, <1>11 DEF kernel, SendCutShort
  <2>2. KernelTypeOK' /\ KernelInv' /\ Prefix(c)' /\ InStep(c, <<>>)'
    BY <1>3, <2>1 DEF KernelTypeOK, KernelInv, Connected, Prefix, InStep
  <2>3. OneCall(t)
    BY <1>2, <1>3, <1>7, <1>8, <1>11, <2>1, <2>2, CallMade DEF Working
  <2> QED
    BY <1>11, <2>3
<1> QED
  BY <1>9, <1>10, <1>11

\* The destructor of a thread's Socket.
LEMMA CloseClientMoves ==
  ASSUME ServerInv, NEW t \in Threads, CloseClient(t)
  PROVE  /\ \E r : ThreadMoves(t, r) /\ r.st = "exited" /\ r.unsent = <<>>
         /\ thr[t].st = "close" /\ CloseFd(thr[t].client_fd)
         /\ KernelTypeOK'
<1>1. /\ thr[t].st = "close" /\ InThread(t, "close") /\ CloseFd(thr[t].client_fd)
      /\ Goto(t, "exited", <<>>)
  BY DEF CloseClient, InThread
<1>2. PICK s \in Seq(Bytes) : s = <<>> /\ Goto(t, "exited", s)
  <2>1. <<>> \in Seq(Bytes)
    OBVIOUS
  <2> QED
    BY <1>1, <2>1 DEF Goto
<1>3. \E r : ThreadMoves(t, r) /\ r.st = "exited" /\ r.unsent = s
  <2>1. Goto(t, "exited", s)
    BY <1>2
  <2> QED
    BY <1>1, <2>1, GotoMoves DEF Working
<1>4. KernelTypeOK'
  BY <1>1, Parts, CloseFdTyped
<1> QED
  BY <1>1, <1>2, <1>3, <1>4

\* Unless it kills the process, a thread moves itself and nothing else.
LEMMA ThreadEffect ==
  ASSUME ServerInv, NEW t \in Threads, Thread(t), ~SendKills(t)
  PROVE  /\ KernelTypeOK'
         /\ \E r : /\ ThreadMoves(t, r) /\ r.st \in Working \cup {"exited"}
                   /\ r.unsent # <<>> <=> r.st \in {"send", "sending"}
<1>0. Alive
  BY DEF Thread
<1>1. CASE Convert(t)
  BY <1>1, ConvertMoves, Parts DEF Working, BufferInUse, Convert, InThread
<1>2. CASE Recv(t)
  BY <1>0, <1>2, RecvCall DEF OneCall
<1>3. CASE RecvStops(t)
  BY <1>0, <1>3, RecvStopsCall DEF OneCall
<1>4. CASE Send(t)
  BY <1>0, <1>4, SendCall DEF OneCall
<1>5. CASE SendThrows(t)
  BY <1>0, <1>5, SendThrowsCall DEF OneCall
<1>6. CASE CloseClient(t)
  BY <1>6, CloseClientMoves DEF Working
<1> QED
  BY <1>1, <1>2, <1>3, <1>4, <1>5, <1>6 DEF Thread

-----------------------------------------------------------------------------
(* Types.                                                                  *)

LEMMA VectorSize ==
  ASSUME ServerInv
  PROVE  Len(threads) \in Nat /\ Len(threads) <= Cardinality(Threads)
<1>1. threads \in Seq(Threads) /\ Len(threads) \in Nat
  BY Parts DEF TypeOK
<1>2. threads \in Injection(1..Len(threads), Threads)
  <2>1. threads \in [1..Len(threads) -> Threads]
    BY <1>1
  <2>2. \A j, k \in 1..Len(threads) : threads[j] = threads[k] => j = k
    BY Parts DEF VectorOfThreads
  <2> QED
    BY <2>1, <2>2 DEF Injection, IsInjective
<1>3. Cardinality(1..Len(threads)) <= Cardinality(Threads)
  BY <1>2, FS_Injection, ServerAssumption
<1>4. Cardinality(1..Len(threads)) = Len(threads)
  <2>1. ASSUME NEW n \in Nat PROVE Cardinality(1..n) = n
    <3>1. Cardinality(1..n) = IF 1 > n THEN 0 ELSE n - 1 + 1
      BY FS_Interval
    <3> QED
      BY <3>1
  <2> QED
    BY <1>1, <2>1
<1> QED
  BY <1>1, <1>3, <1>4

LEMMA InitTyped == Init => TypeOK /\ BufferInUse
<1> SUFFICES ASSUME Init PROVE TypeOK /\ BufferInUse
  OBVIOUS
<1>1. KernelTypeOK
  BY KernelInitTyped DEF Init
<1>2. thr \in [Threads -> ThreadState] /\ BufferInUse
  <2> PICK f \in Fds :
         thr = [t \in Threads |-> [st |-> "none", client_fd |-> f,
                                   ip |-> "garbage", unsent |-> <<>>]]
    BY DEF Init
  <2>1. [st |-> "none", client_fd |-> f, ip |-> "garbage", unsent |-> <<>>]
           \in ThreadState
    BY DEF ThreadState
  <2> QED
    BY <2>1 DEF BufferInUse
<1>3. index \in [Stoppers -> 1..(Cardinality(Threads) + 1)]
  <2>1. Cardinality(Threads) \in Nat
    BY ServerAssumption, FS_CardinalityType
  <2> QED
    BY <2>1 DEF Init
<1>4. /\ stop \in [Stoppers -> {"idle", "flag", "shutdown", "lock", "join", "done"}]
      /\ threads \in Seq(Threads) /\ client_fd \in Fds
  BY DEF Init
<1> QED
  BY <1>1, <1>2, <1>3, <1>4 DEF Init, TypeOK

LEMMA RunTyped ==
  ASSUME ServerInv, Run
  PROVE  TypeOK' /\ BufferInUse'
<1>t. TypeOK /\ BufferInUse /\ KernelTypeOK
  BY Parts
<1>1. CASE Start
  BY <1>t, <1>1, ListenTyped
     DEF Start, RunStep, frame, stops, TypeOK, BufferInUse
<1>2. CASE StartFails
  BY <1>t, <1>2
     DEF StartFails, RunStep, frame, stops, kernel, TypeOK, KernelTypeOK,
         BufferInUse
<1>3. CASE SetRunning
  BY <1>t, <1>3
     DEF SetRunning, RunStep, frame, stops, kernel, TypeOK, KernelTypeOK,
         BufferInUse
<1>4. CASE LoopTest
  BY <1>t, <1>4
     DEF LoopTest, RunStep, stops, kernel, TypeOK, KernelTypeOK, BufferInUse
<1>5. CASE AcceptClient
  BY <1>t, <1>5, AcceptTyped
     DEF AcceptClient, RunStep, stops, TypeOK, BufferInUse
<1>6. CASE AcceptThrows
  BY <1>t, <1>6
     DEF AcceptThrows, RunStep, frame, stops, kernel, TypeOK, KernelTypeOK,
         BufferInUse
<1>7. CASE NameClient
  <2>1. fdtab[client_fd] \in Clients
    BY <1>7, Parts
       DEF NameClient, RunStep, FdOwnership, Alive, Accepted, Connected
  <2> QED
    BY <1>t, <1>7, <2>1
       DEF NameClient, RunStep, stops, kernel, TypeOK, KernelTypeOK, BufferInUse
<1>8. CASE LockVector
  BY <1>t, <1>8
     DEF LockVector, RunStep, frame, stops, kernel, TypeOK, KernelTypeOK,
         BufferInUse, Stoppers
<1>9. CASE Emplace
  <2>1. PICK t \in Threads :
           /\ thr[t].st = "none"
           /\ thr' = [thr EXCEPT ![t] = [@ EXCEPT !.st = "convert", !.client_fd = client_fd]]
           /\ threads' = Append(threads, t)
    BY <1>9 DEF Emplace, StartThread
  <2>2. /\ thr' = [thr EXCEPT ![t] = [thr[t] EXCEPT !.st = "convert",
                                                   !.client_fd = client_fd]]
        /\ thr[t] \in ThreadState /\ client_fd \in Fds
    BY <2>1, Parts DEF TypeOK
  <2>3. [thr[t] EXCEPT !.st = "convert", !.client_fd = client_fd] \in ThreadState
    BY <2>2 DEF ThreadState
  <2>4. thr' \in [Threads -> ThreadState] /\ threads' \in Seq(Threads)
    BY <1>t, <2>1, <2>2, <2>3 DEF TypeOK
  <2>5. BufferInUse'
    BY <1>t, <2>1, <2>2, Parts DEF BufferInUse, ThreadState
  <2> QED
    BY <1>t, <1>9, <2>4, <2>5
       DEF Emplace, RunStep, frame, stops, kernel, TypeOK, KernelTypeOK
<1>10. CASE EmplaceThrows
  BY <1>t, <1>10, CloseFdTyped
     DEF EmplaceThrows, RunStep, stops, TypeOK, BufferInUse
<1> QED
  BY <1>1, <1>2, <1>3, <1>4, <1>5, <1>6, <1>7, <1>8, <1>9, <1>10 DEF Run

LEMMA StopTyped ==
  ASSUME ServerInv, NEW p \in Stoppers, StopStep(p)
  PROVE  TypeOK' /\ BufferInUse'
<1>t. TypeOK /\ BufferInUse /\ KernelTypeOK
  BY Parts
<1>c. Cardinality(Threads) \in Nat
  BY ServerAssumption, FS_CardinalityType
<1>1. CASE StopFlag(p)
  BY <1>t, <1>1
     DEF StopFlag, InStop, frame, kernel, TypeOK, KernelTypeOK, BufferInUse
<1>2. CASE StopShutdown(p)
  BY <1>t, <1>2, ShutdownListenerTyped
     DEF StopShutdown, InStop, frame, TypeOK, BufferInUse
<1>3. CASE StopLock(p)
  BY <1>t, <1>c, <1>3
     DEF StopLock, InStop, frame, kernel, TypeOK, KernelTypeOK, BufferInUse
<1>4. CASE StopJoin(p)
  <2>1. PICK i \in 1..Len(threads) :
           /\ i = index[p] /\ thr[threads[i]].st \in {"exited", "joined"}
           /\ thr' = [thr EXCEPT ![threads[i]].st = "joined"]
           /\ index' = [index EXCEPT ![p] = i + 1]
    <3>1. index[p] \in 1..(Cardinality(Threads) + 1) /\ index[p] <= Len(threads)
      BY <1>t, <1>4 DEF StopJoin, TypeOK
    <3>2. index[p] \in 1..Len(threads)
      BY <1>c, <3>1, VectorSize
    <3> QED
      BY <1>4, <3>2 DEF StopJoin
  <2>2. index' \in [Stoppers -> 1..(Cardinality(Threads) + 1)]
    BY <1>t, <1>c, <2>1, VectorSize DEF TypeOK
  <2>3. threads[i] \in Threads /\ thr[threads[i]] \in ThreadState
    BY <1>t, <2>1, Parts DEF TypeOK
  <2>4. [thr[threads[i]] EXCEPT !.st = "joined"] \in ThreadState
    BY <2>3 DEF ThreadState
  <2>5. thr' \in [Threads -> ThreadState]
    BY <1>t, <2>1, <2>3, <2>4 DEF TypeOK
  <2>6. BufferInUse'
    BY <1>t, <2>1, <2>3, Parts DEF BufferInUse, ThreadState
  <2> QED
    BY <1>t, <1>4, <2>2, <2>5, <2>6
       DEF StopJoin, InStop, frame, kernel, TypeOK, KernelTypeOK
<1>5. CASE StopUnlock(p)
  BY <1>t, <1>5
     DEF StopUnlock, InStop, frame, kernel, TypeOK, KernelTypeOK, BufferInUse
<1> QED
  BY <1>1, <1>2, <1>3, <1>4, <1>5 DEF StopStep

LEMMA TerminateTyped ==
  ASSUME ServerInv, NEW label \in {"ended", "killed"}, Terminate(label)
  PROVE  TypeOK' /\ BufferInUse'
BY Parts, CloseAllTyped DEF Terminate, frame, stops, TypeOK, BufferInUse

LEMMA ThreadTyped ==
  ASSUME ServerInv, NEW t \in Threads, Thread(t)
  PROVE  TypeOK' /\ BufferInUse'
<1>1. CASE SendKills(t)
  BY <1>1, TerminateTyped DEF SendKills
<1>2. CASE ~SendKills(t)
  <2>1. KernelTypeOK'
    BY <1>2, ThreadEffect
  <2>2. PICK r : /\ ThreadMoves(t, r)
                 /\ r.unsent # <<>> <=> r.st \in {"send", "sending"}
    BY <1>2, ThreadEffect
  <2>3. thr' \in [Threads -> ThreadState] /\ BufferInUse'
    BY <2>2, Parts DEF ThreadMoves, BufferInUse
  <2> QED
    BY <2>1, <2>2, <2>3, Parts DEF ThreadMoves, frame, stops, TypeOK
<1> QED
  BY <1>1, <1>2

LEMMA StepTyped ==
  ASSUME ServerInv, [Next]_vars
  PROVE  TypeOK' /\ BufferInUse'
<1>t. TypeOK /\ BufferInUse /\ KernelTypeOK
  BY Parts
<1>1. CASE Run
  BY <1>1, RunTyped
<1>2. CASE CallStop \/ Destroy
  BY <1>t, <1>2
     DEF CallStop, Destroy, Destroying, InStop, frame, kernel, TypeOK,
         KernelTypeOK,
         BufferInUse, Stoppers
<1>3. CASE Stopping
  BY <1>3, StopTyped DEF Stopping
<1>4. CASE End
  BY <1>4, TerminateTyped DEF End
<1>5. CASE \E t \in Threads : Thread(t)
  BY <1>5, ThreadTyped
<1>6. CASE Environment
  BY <1>t, <1>6, ClientStepTyped
     DEF Environment, process, TypeOK, BufferInUse
<1>7. CASE UNCHANGED vars
  BY <1>t, <1>7 DEF vars, process, kernel, TypeOK, KernelTypeOK, BufferInUse
<1> QED
  BY <1>1, <1>2, <1>3, <1>4, <1>5, <1>6, <1>7 DEF Next

-----------------------------------------------------------------------------
(* The vector of threads, its mutex and the joins.                         *)

LEMMA InitThreads == Init => ThreadsInv
<1> SUFFICES ASSUME Init PROVE ThreadsInv
  OBVIOUS
<1>1. threads = <<>> /\ Len(threads) = 0 /\ \A t \in Threads : thr[t].st = "none"
  BY DEF Init
<1>2. pc = "start" /\ \A p \in Stoppers : stop[p] = "idle"
  BY DEF Init
<1> QED
  BY <1>1, <1>2
     DEF ThreadsInv, VectorOfThreads, MutexHolder, Joining, Stoppers

\* A step that neither starts nor joins a thread keeps the vector as it is.
LEMMA SameVector ==
  ASSUME ServerInv, UNCHANGED threads,
         \A t \in Threads : thr'[t].st = "none" <=> thr[t].st = "none"
  PROVE  VectorOfThreads'
BY Parts DEF VectorOfThreads

\* A joined thread stays joined.
LEMMA JoinsKept ==
  ASSUME ServerInv, UNCHANGED <<threads, stop, index>>,
         pc' = "ended" => stop["main"] = "done",
         stop["main"] # "idle" => pc' \in {"destroying", "ended", "killed"},
         \A t \in Threads : thr[t].st = "joined" => thr'[t].st = "joined"
  PROVE  Joining'
BY Parts DEF Joining, TypeOK

LEMMA RunThreads ==
  ASSUME ServerInv, Run
  PROVE  ThreadsInv'
<1>t. TypeOK /\ VectorOfThreads /\ MutexHolder /\ Joining
  BY Parts
<1>1. /\ pc \notin {"destroying", "ended", "killed"} /\ pc' # "ended"
      /\ UNCHANGED <<stop, index>>
  BY DEF Run, Start, StartFails, SetRunning, LoopTest, AcceptClient,
     AcceptThrows, NameClient, LockVector, Emplace, EmplaceThrows, RunStep,
     stops
<1>2. stop["main"] = "idle"
  BY <1>t, <1>1 DEF Joining
<1>3. Joining'
  BY <1>1, <1>2 DEF Joining
<1>4. MutexHolder'
  <2>1. CASE LockVector
    BY <1>t, <1>2, <2>1
       DEF LockVector, RunStep, stops, MutexHolder, Stoppers
  <2>2. CASE Emplace \/ EmplaceThrows
    BY <1>t, <1>2, <2>2
       DEF Emplace, EmplaceThrows, RunStep, stops, MutexHolder, Stoppers
  <2>3. CASE ~LockVector /\ ~Emplace /\ ~EmplaceThrows
    BY <1>t, <2>3
       DEF Run, Start, StartFails, SetRunning, LoopTest, AcceptClient,
           AcceptThrows, NameClient, RunStep, stops, frame, MutexHolder
  <2> QED
    BY <2>1, <2>2, <2>3
<1>5. VectorOfThreads'
  <2>1. CASE Emplace
    <3>1. PICK t \in Threads :
             /\ thr[t].st = "none"
             /\ thr' = [thr EXCEPT ![t] = [@ EXCEPT !.st = "convert", !.client_fd = client_fd]]
             /\ threads' = Append(threads, t)
      BY <2>1 DEF Emplace, StartThread
    <3>2. PICK n \in Nat : n = Len(threads)
      BY <1>t DEF TypeOK
    <3>3. /\ Len(threads') = n + 1 /\ threads'[n + 1] = t
          /\ \A i \in 1..n : threads'[i] = threads[i]
      BY <1>t, <3>1, <3>2 DEF TypeOK
    <3>4. \A i \in 1..n : threads[i] # t /\ threads[i] \in Threads
      BY <1>t, <3>1, <3>2 DEF VectorOfThreads, TypeOK
    <3>5. /\ thr'[t].st = "convert"
          /\ \A u \in Threads \ {t} : thr'[u] = thr[u]
      <4>1. thr[t] \in ThreadState
        BY Parts
      <4> QED
        BY <3>1, <4>1, Parts DEF ThreadState
    <3>6. \A i, j \in 1..(n + 1) : threads'[i] = threads'[j] => i = j
      BY <1>t, <3>2, <3>3, <3>4 DEF VectorOfThreads
    <3>7. ASSUME NEW u \in Threads
          PROVE  thr'[u].st # "none" <=> \E i \in 1..(n + 1) : threads'[i] = u
      <4>1. CASE u = t
        BY <3>2, <3>3, <3>5, <4>1
      <4>2. CASE u # t
        <5>1. thr'[u].st # "none" <=> \E i \in 1..n : threads[i] = u
          BY <1>t, <3>2, <3>5, <4>2 DEF VectorOfThreads
        <5>2. (\E i \in 1..n : threads[i] = u) <=>
                 \E i \in 1..(n + 1) : threads'[i] = u
          <6>1. \A i \in 1..(n + 1) : i \in 1..n \/ i = n + 1
            BY <3>2
          <6>2. \A i \in 1..n : i \in 1..(n + 1)
            BY <3>2
          <6> QED
            BY <3>3, <4>2, <6>1, <6>2
        <5> QED
          BY <5>1, <5>2
      <4> QED
        BY <4>1, <4>2
    <3> QED
      BY <3>3, <3>6, <3>7 DEF VectorOfThreads
  <2>2. CASE ~Emplace
    <3>1. UNCHANGED <<threads, thr>>
      BY <2>2 DEF Run, Start, StartFails, SetRunning, LoopTest, AcceptClient,
         AcceptThrows, NameClient, LockVector, EmplaceThrows
    <3> QED
      BY <3>1, SameVector
  <2> QED
    BY <2>1, <2>2
<1> QED
  BY <1>3, <1>4, <1>5 DEF ThreadsInv

LEMMA StopThreads ==
  ASSUME ServerInv, NEW p \in Stoppers, StopStep(p), Alive
  PROVE  ThreadsInv'
<1>t. /\ TypeOK /\ VectorOfThreads /\ MutexHolder /\ Joining
      /\ stop \in [Stoppers -> {"idle", "flag", "shutdown", "lock", "join", "done"}]
      /\ Len(threads) \in Nat
  BY Parts DEF TypeOK
<1>u. /\ UNCHANGED <<pc, threads>>
      /\ \A q \in Stoppers \ {p} : stop'[q] = stop[q]
      /\ stop[p] # "idle" /\ "main" \in Stoppers
      /\ \/ stop'[p] \in {"shutdown", "lock"}
         \/ StopLock(p)
         \/ StopJoin(p)
         \/ StopUnlock(p)
  BY <1>t DEF StopStep, StopFlag, StopShutdown, StopLock, StopJoin, StopUnlock,
              InStop, Stoppers
<1>1. CASE stop'[p] \in {"shutdown", "lock"}
  <2>1. StopFlag(p) \/ StopShutdown(p)
    BY <1>t, <1>1 DEF StopStep, StopLock, StopJoin, StopUnlock, InStop
  <2>2. UNCHANGED <<thr, mutex, index>>
    BY <2>1 DEF StopFlag, StopShutdown
  <2>3. VectorOfThreads'
    BY <1>u, <2>2, SameVector
  <2>4. \A q \in Stoppers : stop'[q] = "join" => stop[q] = "join"
    BY <1>u, <1>1
  <2>5. MutexHolder'
    BY <1>t, <1>u, <2>2, <2>4 DEF MutexHolder
  <2>6. Joining'
    <3>1. CASE p = "main"
      BY <1>t, <1>u, <1>1, <2>2, <3>1 DEF Joining, Alive
    <3>2. CASE p # "main"
      BY <1>t, <1>u, <2>2, <3>2 DEF Joining
    <3> QED
      BY <3>1, <3>2
  <2> QED
    BY <2>3, <2>5, <2>6 DEF ThreadsInv
<1>2. CASE StopLock(p)
  <2>1. /\ stop[p] = "lock" /\ stop'[p] = "join" /\ mutex = "free" /\ mutex' = p
        /\ index'[p] = 1 /\ UNCHANGED thr
        /\ \A q \in Stoppers \ {p} : index'[q] = index[q]
    BY <1>t, <1>2 DEF StopLock, InStop, TypeOK
  <2>2. VectorOfThreads'
    BY <1>u, <2>1, SameVector
  <2>3. MutexHolder'
    BY <1>t, <1>u, <2>1 DEF MutexHolder, Stoppers
  <2>4. Joining'
    BY <1>t, <1>u, <2>1 DEF Joining
  <2> QED
    BY <2>2, <2>3, <2>4 DEF ThreadsInv
<1>3. CASE StopJoin(p)
  <2>1. /\ stop'[p] = "join" /\ stop[p] = "join" /\ UNCHANGED mutex
        /\ index[p] \in 1..(Cardinality(Threads) + 1) /\ index[p] <= Len(threads)
        /\ thr[threads[index[p]]].st \in {"exited", "joined"}
        /\ thr' = [thr EXCEPT ![threads[index[p]]].st = "joined"]
        /\ index'[p] = index[p] + 1
        /\ \A q \in Stoppers \ {p} : index'[q] = index[q]
    BY <1>t, <1>3 DEF StopJoin, InStop, TypeOK
  <2>2. index[p] \in 1..Len(threads)
    <3>1. Cardinality(Threads) \in Nat
      BY ServerAssumption, FS_CardinalityType
    <3> QED
      BY <1>t, <2>1, <3>1
  <2>3. PICK t \in Threads : t = threads[index[p]]
    BY <1>t, <2>2 DEF TypeOK
  <2>4. /\ thr'[t].st = "joined" /\ thr[t].st # "none"
        /\ \A u \in Threads \ {t} : thr'[u] = thr[u]
    <3>1. thr[t] \in ThreadState
      BY Parts
    <3> QED
      BY <2>1, <2>3, <3>1, Parts DEF ThreadState
  <2>5. VectorOfThreads'
    BY <1>u, <2>4, SameVector
  <2>6. MutexHolder'
    BY <1>t, <1>u, <2>1 DEF MutexHolder
  <2>7. \A i \in 1..Len(threads) : threads[i] \in Threads
    BY <1>t DEF TypeOK
  <2>8. CASE p = "main"
    <3>1. ASSUME NEW i \in 1..Len(threads), i < index'[p]
          PROVE  thr'[threads[i]].st = "joined"
      <4>1. CASE i = index[p]
        BY <2>3, <2>4, <4>1
      <4>2. CASE i # index[p]
        <5>1. i < index[p]
          BY <1>t, <2>1, <2>2, <3>1, <4>2
        <5>2. thr[threads[i]].st = "joined"
          BY <1>t, <2>1, <2>8, <5>1 DEF Joining
        <5> QED
          BY <2>4, <2>7, <5>2
      <4> QED
        BY <4>1, <4>2
    <3>2. Joining'
      BY <1>t, <1>u, <2>1, <2>8, <3>1 DEF Joining
    <3> QED
      BY <2>5, <2>6, <3>2 DEF ThreadsInv
  <2>9. CASE p # "main"
    <3>1. \A i \in 1..Len(threads) :
             thr[threads[i]].st = "joined" => thr'[threads[i]].st = "joined"
      BY <2>4, <2>7
    <3>2. stop'["main"] = stop["main"] /\ index'["main"] = index["main"]
      BY <1>u, <2>1, <2>9
    <3>3. Joining'
      BY <1>t, <1>u, <3>1, <3>2 DEF Joining
    <3> QED
      BY <2>5, <2>6, <3>3 DEF ThreadsInv
  <2> QED
    BY <2>8, <2>9
<1>4. CASE StopUnlock(p)
  <2>1. /\ stop[p] = "join" /\ stop'[p] = "done" /\ mutex' = "free"
        /\ index[p] > Len(threads) /\ UNCHANGED <<thr, index>>
        /\ index[p] \in 1..(Cardinality(Threads) + 1)
    BY <1>t, <1>4 DEF StopUnlock, InStop, TypeOK
  <2>2. VectorOfThreads'
    BY <1>u, <2>1, SameVector
  <2>3. MutexHolder'
    BY <1>t, <1>u, <2>1 DEF MutexHolder, Joining, Stoppers
  <2>4. \A i \in 1..Len(threads) : i < index[p]
    <3>1. Cardinality(Threads) \in Nat
      BY ServerAssumption, FS_CardinalityType
    <3> QED
      BY <1>t, <2>1, <3>1
  <2>5. Joining'
    BY <1>t, <1>u, <2>1, <2>4 DEF Joining
  <2> QED
    BY <2>2, <2>3, <2>5 DEF ThreadsInv
<1> QED
  BY <1>u, <1>1, <1>2, <1>3, <1>4

LEMMA TerminateThreads ==
  ASSUME ServerInv, NEW label \in {"ended", "killed"}, Terminate(label),
         label = "ended" => stop["main"] = "done"
  PROVE  ThreadsInv'
<1>1. VectorOfThreads'
  BY SameVector DEF Terminate
<1>2. MutexHolder' /\ Joining'
  BY Parts DEF Terminate, stops, MutexHolder, Joining
<1> QED
  BY <1>1, <1>2 DEF ThreadsInv

LEMMA ThreadThreads ==
  ASSUME ServerInv, NEW t \in Threads, Thread(t)
  PROVE  ThreadsInv'
<1>1. CASE SendKills(t)
  BY <1>1, TerminateThreads DEF SendKills
<1>2. CASE ~SendKills(t)
  <2>1. PICK r : ThreadMoves(t, r) /\ r.st \in Working \cup {"exited"}
    BY <1>2, ThreadEffect
  <2>2. /\ thr'[t].st \in Working \cup {"exited"} /\ thr[t].st \in Working
        /\ \A u \in Threads \ {t} : thr'[u] = thr[u]
        /\ UNCHANGED <<pc, mutex, threads, stop, index>>
    BY <2>1, Parts DEF ThreadMoves, stops
  <2>3. VectorOfThreads'
    BY <2>2, SameVector DEF Working
  <2>4. MutexHolder'
    BY <2>2, Parts DEF MutexHolder
  <2>5. Joining'
    <3>1. \A u \in Threads : thr[u].st = "joined" => thr'[u].st = "joined"
      BY <2>2 DEF Working
    <3> QED
      BY <2>2, <3>1, JoinsKept, Parts DEF Joining
  <2> QED
    BY <2>3, <2>4, <2>5 DEF ThreadsInv
<1> QED
  BY <1>1, <1>2

LEMMA StepThreads ==
  ASSUME ServerInv, [Next]_vars
  PROVE  ThreadsInv'
<1>t. VectorOfThreads /\ MutexHolder /\ Joining /\ TypeOK
  BY Parts
<1>1. CASE Run
  BY <1>1, RunThreads
<1>2. CASE CallStop \/ Destroy
  <2>1. /\ UNCHANGED <<threads, thr, mutex, index>>
        /\ \/ stop' = [stop EXCEPT !["other"] = "flag"] /\ pc' = pc
           \/ /\ stop' = [stop EXCEPT !["main"] = "flag"]
              /\ pc = "dtor" /\ pc' = "destroying"
    BY <1>2 DEF CallStop, Destroy, Destroying, InStop
  <2>2. VectorOfThreads'
    BY <2>1, SameVector
  <2>3. \A p \in Stoppers : stop'[p] = "join" => stop[p] = "join"
    BY <1>t, <2>1 DEF TypeOK
  <2>4. MutexHolder'
    BY <1>t, <2>1, <2>3 DEF MutexHolder
  <2>5. Joining'
    BY <1>t, <2>1 DEF Joining, TypeOK, Stoppers
  <2> QED
    BY <2>2, <2>4, <2>5 DEF ThreadsInv
<1>3. CASE Stopping
  BY <1>3, StopThreads DEF Stopping
<1>4. CASE End
  BY <1>4, TerminateThreads DEF End
<1>5. CASE \E t \in Threads : Thread(t)
  BY <1>5, ThreadThreads
<1>6. CASE Environment \/ UNCHANGED vars
  <2>1. UNCHANGED <<pc, mutex, threads, thr, stop, index>>
    BY <1>6 DEF Environment, vars, process
  <2>2. VectorOfThreads'
    BY <2>1, SameVector
  <2>3. MutexHolder' /\ Joining'
    BY <1>t, <2>1 DEF MutexHolder, Joining
  <2> QED
    BY <2>2, <2>3 DEF ThreadsInv
<1> QED
  BY <1>1, <1>2, <1>3, <1>4, <1>5, <1>6 DEF Next

-----------------------------------------------------------------------------
(* The Sockets and the bytes behind them.                                  *)

LEMMA BystanderInStep ==
  ASSUME NEW t, ThreadInStep(t), ClientOf(t) \in Clients, Quiet(ClientOf(t)),
         ClientOf(t)' = ClientOf(t),
         thr'[t].st = "close" <=> thr[t].st = "close",
         thr'[t].unsent = thr[t].unsent
  PROVE  ThreadInStep(t)'
BY DEF ThreadInStep, InStep, Settled, Quiet, Owed

\* Steps that move no data and no Socket, whatever else they do.
LEMMA QuietSockets ==
  ASSUME ServerInv, KernelInv',
         \A c \in Clients : Quiet(c),
         Alive' => Alive,
         Serving' = Serving,
         \A t \in Serving : /\ thr'[t].client_fd = thr[t].client_fd
                            /\ thr'[t].unsent = thr[t].unsent
                            /\ thr'[t].st = "close" <=> thr[t].st = "close",
         Accepted' <=> Accepted,
         Accepted => client_fd' = client_fd,
         \A g \in Fds : Connected(g)' <=> Connected(g),
         \A g \in Fds : Connected(g) => fdtab'[g] = fdtab[g]
  PROVE  SocketsInv'
<1>0. FdOwnership /\ Streams /\ \A t \in Serving : t \in Threads
  BY Parts DEF Serving
<1>1. \A c \in Clients : Prefix(c)'
  BY <1>0, QuietPrefix DEF Streams
<1>2. CASE ~Alive'
  BY <1>1, <1>2 DEF SocketsInv, FdOwnership, Streams
<1>3. CASE Alive'
  <2>0. Alive
    BY <1>3
  <2>1. \A t \in Serving : Connected(thr[t].client_fd) /\ thr[t].client_fd \in Fds
    BY <1>0, <2>0 DEF FdOwnership, Connected
  <2>2. Accepted => Connected(client_fd) /\ client_fd \in Fds
    BY <1>0, <2>0 DEF FdOwnership, Connected
  <2>3. \A t \in Serving : ClientOf(t)' = ClientOf(t) /\ ClientOf(t) \in Clients
    BY <2>1 DEF ClientOf, Connected
  <2>4. FdOwnership'
    <3>1. \A t \in Serving' : Connected(thr[t].client_fd)'
      BY <2>1 DEF Connected
    <3>2. Accepted' => Connected(client_fd)'
      BY <2>2 DEF Connected
    <3>3. /\ \A t, u \in Serving' :
                thr'[t].client_fd = thr'[u].client_fd => t = u
          /\ Accepted' => \A t \in Serving' : thr'[t].client_fd # client_fd'
      BY <1>0, <2>0 DEF FdOwnership
    <3>4. \A f \in Fds : Connected(f)' =>
             \/ Accepted' /\ client_fd' = f
             \/ \E t \in Serving' : thr'[t].client_fd = f
      BY <1>0, <2>0 DEF FdOwnership
    <3> QED
      BY <3>1, <3>2, <3>3, <3>4 DEF FdOwnership
  <2>5. ASSUME NEW t \in Serving PROVE ThreadInStep(t)'
    BY <1>0, <2>0, <2>3, <2>5, BystanderInStep DEF Streams
  <2>6. Accepted' => InStep(fdtab[client_fd], <<>>)'
    <3>1. Accepted => /\ fdtab'[client_fd'] = fdtab[client_fd]
                      /\ fdtab[client_fd] \in Clients
                      /\ InStep(fdtab[client_fd], <<>>)
      BY <1>0, <2>0, <2>2 DEF Connected, Streams
    <3> QED
      BY <3>1 DEF InStep, Owed, Quiet
  <2> QED
    BY <1>1, <2>4, <2>5, <2>6 DEF SocketsInv, Streams
<1> QED
  BY <1>2, <1>3

\* The same with a kernel that does nothing at all.
LEMMA IdleSockets ==
  ASSUME ServerInv, UNCHANGED kernel,
         Alive' => Alive,
         Serving' = Serving,
         \A t \in Serving : /\ thr'[t].client_fd = thr[t].client_fd
                            /\ thr'[t].unsent = thr[t].unsent
                            /\ thr'[t].st = "close" <=> thr[t].st = "close",
         Accepted' <=> Accepted,
         Accepted => client_fd' = client_fd
  PROVE  KernelInv' /\ SocketsInv'
<1>1. KernelInv' /\ \A c \in Clients : Quiet(c)
  BY Parts DEF kernel, KernelInv, Quiet, Connected
<1>2. \A g \in Fds : (Connected(g)' <=> Connected(g)) /\ fdtab'[g] = fdtab[g]
  BY DEF kernel, Connected
<1> QED
  BY <1>1, <1>2, QuietSockets

LEMMA TerminateSockets ==
  ASSUME ServerInv, NEW label \in {"ended", "killed"}, Terminate(label)
  PROVE  KernelInv' /\ SocketsInv'
<1>1. KernelInv' /\ \A c \in Clients : Quiet(c)
  BY Parts, CloseAllInv DEF Terminate
<1>2. \A c \in Clients : Prefix(c)'
  BY <1>1, Parts, QuietPrefix DEF Streams
<1>3. ~Alive'
  BY DEF Terminate, Alive
<1> QED
  BY <1>1, <1>2, <1>3 DEF SocketsInv, FdOwnership, Streams

LEMMA InitSockets == Init => KernelInv /\ SocketsInv
<1> SUFFICES ASSUME Init PROVE KernelInv /\ SocketsInv
  OBVIOUS
<1>1. KernelInit /\ KernelInv /\ pc = "start"
  BY KernelInitInv DEF Init
<1>2. \A c \in Clients : Prefix(c)
  BY <1>1 DEF KernelInit, Prefix
<1>3. Serving = {} /\ ~Accepted /\ \A f \in Fds : ~Connected(f)
  BY <1>1, ClientsAssumption DEF Init, KernelInit, Serving, Accepted, Connected
<1> QED
  BY <1>1, <1>2, <1>3 DEF SocketsInv, FdOwnership, Streams

\* run() gets a Socket from accept().
LEMMA AcceptSockets ==
  ASSUME ServerInv, AcceptClient
  PROVE  KernelInv' /\ SocketsInv'
<1>0. KernelTypeOK /\ KernelInv /\ FdOwnership /\ Streams /\ Alive /\ ~Accepted
  BY Parts DEF AcceptClient, RunStep, Alive, Accepted
<1>1. PICK f \in Fds : Accept(f) /\ client_fd' = f
  BY DEF AcceptClient
<1>2. /\ KernelInv'
      /\ \A d \in Clients : Quiet(d)
      /\ \A g \in Fds \ {f} : fdtab'[g] = fdtab[g]
      /\ Connected(f)'
      /\ conn'[fdtab'[f]].taken = 0 /\ conn'[fdtab'[f]].echo = <<>>
  BY <1>0, <1>1, AcceptInv
<1>3. /\ Serving' = Serving /\ UNCHANGED thr /\ Alive' /\ Accepted'
      /\ ~Connected(f)
  BY <1>1, ClientsAssumption
     DEF AcceptClient, RunStep, Serving, Alive, Accepted, Accept, LowestFree,
         Connected
<1>4. \A t \in Serving : /\ t \in Threads /\ Connected(thr[t].client_fd)
                         /\ thr[t].client_fd \in Fds \ {f}
  BY <1>0, <1>3 DEF FdOwnership, Connected, Serving
<1>5. \A g \in Fds \ {f} : Connected(g)' <=> Connected(g)
  BY <1>2 DEF Connected
<1>6. FdOwnership'
  <2>1. \A t \in Serving' : Connected(thr[t].client_fd)'
    BY <1>2, <1>3, <1>4 DEF Connected
  <2>2. Connected(client_fd)'
    BY <1>1, <1>2 DEF Connected
  <2>3. /\ \A t, u \in Serving' : thr'[t].client_fd = thr'[u].client_fd => t = u
        /\ \A t \in Serving' : thr'[t].client_fd # client_fd'
    BY <1>0, <1>1, <1>3, <1>4 DEF FdOwnership
  <2>4. \A g \in Fds : Connected(g)' =>
           client_fd' = g \/ \E t \in Serving' : thr'[t].client_fd = g
    BY <1>0, <1>1, <1>3, <1>5 DEF FdOwnership
  <2> QED
    BY <1>3, <2>1, <2>2, <2>3, <2>4 DEF FdOwnership
<1>7. ASSUME NEW t \in Serving' PROVE ThreadInStep(t)'
  <2>1. ClientOf(t)' = ClientOf(t) /\ ClientOf(t) \in Clients
    BY <1>2, <1>3, <1>4, <1>7 DEF ClientOf, Connected
  <2> QED
    BY <1>0, <1>2, <1>3, <1>7, <2>1, BystanderInStep DEF Streams
<1>8. InStep(fdtab[client_fd], <<>>)' /\ \A c \in Clients : Prefix(c)'
  BY <1>0, <1>1, <1>2, QuietPrefix DEF Streams, InStep, Owed
<1> QED
  BY <1>2, <1>3, <1>6, <1>7, <1>8 DEF SocketsInv, Streams

\* The Socket moves into the new thread.
LEMMA EmplaceSockets ==
  ASSUME ServerInv, Emplace
  PROVE  KernelInv' /\ SocketsInv'
<1>0. KernelInv /\ FdOwnership /\ Streams /\ Alive /\ Accepted /\ BufferInUse
  BY Parts DEF Emplace, RunStep, Alive, Accepted
<1>1. PICK t \in Threads :
         /\ thr[t].st = "none"
         /\ thr' = [thr EXCEPT ![t] = [@ EXCEPT !.st = "convert", !.client_fd = client_fd]]
  BY DEF Emplace, StartThread
<1>2. /\ thr'[t].st = "convert" /\ thr'[t].client_fd = client_fd
      /\ thr'[t].unsent = <<>>
      /\ \A u \in Threads \ {t} : thr'[u] = thr[u]
  <2>1. thr[t] \in ThreadState /\ thr[t].unsent = <<>>
    BY <1>0, <1>1, Parts DEF BufferInUse
  <2> QED
    BY <1>1, <2>1, Parts DEF ThreadState
<1>3. /\ Serving' = Serving \cup {t} /\ t \notin Serving
      /\ ~Accepted' /\ Alive' /\ UNCHANGED <<conn, fdtab, client_fd>>
  BY <1>1, <1>2 DEF Emplace, RunStep, Serving, Accepted, Alive, kernel, frame
<1>4. /\ KernelInv' /\ \A g \in Fds : Connected(g)' <=> Connected(g)
      /\ \A c \in Clients : Quiet(c)
  BY <1>0, <1>3 DEF KernelInv, Connected, Quiet
<1>5. \A u \in Serving : u \in Threads \ {t}
  BY <1>3 DEF Serving
<1>6. FdOwnership'
  <2>1. \A u \in Serving' : Connected(thr[u].client_fd)'
    BY <1>0, <1>2, <1>3, <1>5 DEF FdOwnership, Connected
  <2>2. \A u, v \in Serving' : thr'[u].client_fd = thr'[v].client_fd => u = v
    BY <1>0, <1>2, <1>3, <1>5 DEF FdOwnership
  <2>3. \A g \in Fds : Connected(g)' => \E u \in Serving' : thr'[u].client_fd = g
    BY <1>0, <1>2, <1>3, <1>4, <1>5 DEF FdOwnership
  <2> QED
    BY <1>3, <2>1, <2>2, <2>3 DEF FdOwnership
<1>7. ASSUME NEW u \in Serving' PROVE ThreadInStep(u)'
  <2>1. CASE u = t
    <3>1. InStep(fdtab[client_fd], <<>>)
      BY <1>0 DEF Streams
    <3>2. ClientOf(t)' = fdtab[client_fd]
      BY <1>2, <1>3 DEF ClientOf
    <3> QED
      BY <1>2, <1>3, <2>1, <3>1, <3>2 DEF ThreadInStep, InStep, Owed
  <2>2. CASE u # t
    <3>1. u \in Serving /\ thr'[u] = thr[u]
      BY <1>2, <1>3, <1>5, <1>7, <2>2
    <3>2. ClientOf(u)' = ClientOf(u) /\ ClientOf(u) \in Clients
      BY <1>0, <1>3, <3>1 DEF ClientOf, FdOwnership, Connected
    <3> QED
      BY <1>0, <1>4, <3>1, <3>2, BystanderInStep DEF Streams
  <2> QED
    BY <2>1, <2>2
<1>8. \A c \in Clients : Prefix(c)'
  BY <1>0, <1>4, QuietPrefix DEF Streams
<1> QED
  BY <1>3, <1>4, <1>6, <1>7, <1>8 DEF SocketsInv, Streams

\* A destructor closes its own Socket, that of run() or that of a thread.
LEMMA ClosedSockets ==
  ASSUME ServerInv, Alive, Alive', NEW f \in Fds, CloseFd(f),
         Accepted' => Accepted /\ client_fd' = client_fd /\ client_fd # f,
         Accepted => Accepted' \/ client_fd = f,
         Serving' = {t \in Serving : thr[t].client_fd # f},
         \A t \in Serving' : thr'[t] = thr[t]
  PROVE  KernelInv' /\ SocketsInv'
<1>0. KernelTypeOK /\ KernelInv /\ FdOwnership /\ Streams
  BY Parts
<1>1. /\ KernelInv'
      /\ \A d \in Clients : Quiet(d)
      /\ \A g \in Fds \ {f} : fdtab'[g] = fdtab[g]
      /\ fdtab'[f] = "free"
  BY <1>0, CloseFdInv DEF CloseFd
<1>2. /\ ~Connected(f)'
      /\ \A g \in Fds \ {f} : Connected(g)' <=> Connected(g)
  BY <1>1, ClientsAssumption DEF Connected
<1>3. \A t \in Serving' : /\ t \in Serving /\ Connected(thr[t].client_fd)
                          /\ thr[t].client_fd \in Fds \ {f}
  BY <1>0 DEF FdOwnership, Connected
<1>4. Accepted' => /\ Accepted /\ client_fd' = client_fd
                   /\ client_fd \in Fds \ {f} /\ Connected(client_fd)
  BY <1>0 DEF FdOwnership, Connected
<1>5. FdOwnership'
  <2>1. \A t \in Serving' : Connected(thr[t].client_fd)'
    BY <1>1, <1>3 DEF Connected
  <2>2. Accepted' => Connected(client_fd)'
    BY <1>1, <1>4 DEF Connected
  <2>3. /\ \A t, u \in Serving' : thr'[t].client_fd = thr'[u].client_fd => t = u
        /\ Accepted' => \A t \in Serving' : thr'[t].client_fd # client_fd'
    BY <1>0, <1>3, <1>4 DEF FdOwnership
  <2>4. \A g \in Fds : Connected(g)' =>
           \/ Accepted' /\ client_fd' = g
           \/ \E t \in Serving' : thr'[t].client_fd = g
    BY <1>0, <1>2 DEF FdOwnership
  <2> QED
    BY <2>1, <2>2, <2>3, <2>4 DEF FdOwnership
<1>6. ASSUME NEW t \in Serving' PROVE ThreadInStep(t)'
  <2>1. ClientOf(t)' = ClientOf(t) /\ ClientOf(t) \in Clients
    BY <1>1, <1>3, <1>6 DEF ClientOf, Connected
  <2> QED
    BY <1>0, <1>1, <1>3, <1>6, <2>1, BystanderInStep DEF Streams
<1>7. Accepted' => InStep(fdtab[client_fd], <<>>)'
  <2>1. Accepted' => /\ fdtab'[client_fd'] = fdtab[client_fd]
                     /\ fdtab[client_fd] \in Clients
                     /\ InStep(fdtab[client_fd], <<>>)
    BY <1>0, <1>1, <1>4 DEF Connected, Streams
  <2> QED
    BY <1>1, <2>1 DEF InStep, Owed, Quiet
<1>8. \A c \in Clients : Prefix(c)'
  BY <1>0, <1>1, QuietPrefix DEF Streams
<1> QED
  BY <1>1, <1>5, <1>6, <1>7, <1>8 DEF SocketsInv, Streams

\* A thread's call on its own connection.
LEMMA CallSockets ==
  ASSUME ServerInv, Alive, NEW t \in Threads, thr[t].st \in Working, OneCall(t)
  PROVE  KernelInv' /\ SocketsInv'
<1>0. KernelInv /\ FdOwnership /\ Streams
  BY Parts
<1>1. PICK r : ThreadMoves(t, r) /\ r.st \in Working
  BY DEF OneCall
<1>2. /\ \A u \in Threads \ {t} : thr'[u] = thr[u]
      /\ thr'[t].st \in Working /\ thr'[t].client_fd = thr[t].client_fd
      /\ UNCHANGED <<pc, client_fd, fdtab>>
  BY <1>1, Parts DEF ThreadMoves, OneCall, frame
<1>3. Serving' = Serving /\ t \in Serving /\ Alive' /\ Accepted' = Accepted
  BY <1>2 DEF Serving, Working, Alive, Accepted
<1>4. \A u \in Serving : /\ u \in Threads /\ Connected(thr[u].client_fd)
                         /\ thr'[u].client_fd = thr[u].client_fd
                         /\ ClientOf(u)' = ClientOf(u)
  BY <1>0, <1>2 DEF FdOwnership, Serving, ClientOf
<1>5. FdOwnership'
  <2>1. \A g : Connected(g)' <=> Connected(g)
    BY <1>2 DEF Connected
  <2>2. \A u \in Serving' : Connected(thr[u].client_fd)'
    BY <1>2, <1>3, <1>4 DEF Connected
  <2>3. Accepted' => Connected(client_fd)'
    BY <1>0, <1>2, <1>3 DEF Connected, FdOwnership
  <2> QED
    BY <1>0, <1>2, <1>3, <1>4, <2>1, <2>2, <2>3 DEF FdOwnership
<1>6. ASSUME NEW u \in Serving PROVE ThreadInStep(u)'
  <2>1. CASE u = t
    BY <2>1 DEF OneCall
  <2>2. CASE u # t
    <3>1. ClientOf(u) # ClientOf(t) /\ ClientOf(u) \in Clients
      BY <1>0, <1>3, <1>4, <1>6, <2>2
         DEF FdOwnership, KernelInv, Connected, ClientOf
    <3>2. Quiet(ClientOf(u))
      BY <3>1 DEF OneCall, Quiet
    <3> QED
      BY <1>0, <1>2, <1>4, <1>6, <2>2, <3>1, <3>2, BystanderInStep DEF Streams
  <2> QED
    BY <2>1, <2>2
<1>7. ASSUME NEW c \in Clients PROVE Prefix(c)'
  <2>1. CASE c = ClientOf(t)
    BY <1>3, <1>4, <2>1 DEF OneCall, Prefix
  <2>2. CASE c # ClientOf(t)
    BY <1>0, <2>2 DEF OneCall, Streams, Prefix
  <2> QED
    BY <2>1, <2>2
<1>8. Accepted' => InStep(fdtab[client_fd], <<>>)'
  <2>1. Accepted => /\ fdtab[client_fd] \in Clients
                    /\ fdtab[client_fd] # ClientOf(t)
                    /\ InStep(fdtab[client_fd], <<>>)
    BY <1>0, <1>3 DEF FdOwnership, KernelInv, Connected, ClientOf, Streams
  <2> QED
    BY <1>2, <1>3, <2>1 DEF OneCall, InStep, Owed
<1> QED
  BY <1>3, <1>5, <1>6, <1>7, <1>8 DEF OneCall, SocketsInv, Streams

LEMMA RunSockets ==
  ASSUME ServerInv, Run
  PROVE  KernelInv' /\ SocketsInv'
<1>1. CASE Start
  <2>1. PICK f \in Fds : Listen(f)
    BY <1>1 DEF Start
  <2>2. KernelInv' /\ \A c \in Clients : Quiet(c)
    BY <2>1, Parts, ListenInv
  <2>3. \A g \in Fds : /\ Connected(g)' <=> Connected(g)
                       /\ Connected(g) => fdtab'[g] = fdtab[g]
    BY <2>1, Parts, ClientsAssumption
       DEF Listen, LowestFree, Connected, KernelTypeOK
  <2>4. /\ Serving' = Serving /\ UNCHANGED <<thr, client_fd>>
        /\ Alive /\ ~Accepted /\ ~Accepted'
    BY <1>1 DEF Start, RunStep, frame, Serving, Alive, Accepted
  <2> QED
    BY <2>2, <2>3, <2>4, QuietSockets
<1>2. CASE StartFails \/ SetRunning \/ LoopTest \/ AcceptThrows
  <2>1. /\ UNCHANGED <<kernel, thr, client_fd>>
        /\ Alive /\ ~Accepted /\ ~Accepted'
    BY <1>2 DEF StartFails, SetRunning, LoopTest, AcceptThrows, RunStep, frame,
                Alive, Accepted
  <2>2. Serving' = Serving
    BY <2>1 DEF Serving
  <2> QED
    BY <2>1, <2>2, IdleSockets
<1>3. CASE NameClient \/ LockVector
  <2>1. /\ UNCHANGED <<kernel, thr, client_fd>>
        /\ Alive /\ Accepted /\ Accepted'
    BY <1>3 DEF NameClient, LockVector, RunStep, frame, Alive, Accepted
  <2>2. Serving' = Serving
    BY <2>1 DEF Serving
  <2> QED
    BY <2>1, <2>2, IdleSockets
<1>4. CASE EmplaceThrows
  <2>1. /\ CloseFd(client_fd) /\ UNCHANGED thr
        /\ Alive /\ Alive' /\ Accepted /\ ~Accepted'
    BY <1>4 DEF EmplaceThrows, RunStep, Alive, Accepted
  <2>2. client_fd \in Fds /\ \A t \in Serving : thr[t].client_fd # client_fd
    BY <2>1, Parts DEF FdOwnership, Connected
  <2>3. Serving' = Serving
    BY <2>1 DEF Serving
  <2> QED
    BY <2>1, <2>2, <2>3, ClosedSockets
<1> QED
  BY <1>1, <1>2, <1>3, <1>4, AcceptSockets, EmplaceSockets DEF Run

LEMMA StopSockets ==
  ASSUME ServerInv, NEW p \in Stoppers, StopStep(p)
  PROVE  KernelInv' /\ SocketsInv'
<1>0. UNCHANGED <<pc, client_fd>> /\ TypeOK
  BY Parts DEF StopStep, StopFlag, StopShutdown, StopLock, StopJoin, StopUnlock,
               InStop, frame
<1>1. Serving' = Serving /\ \A t \in Serving : thr'[t] = thr[t]
  <2>1. CASE StopJoin(p)
    <3> DEFINE u == threads[index[p]]
    <3>1. /\ thr[u].st \in {"exited", "joined"}
          /\ thr' = [thr EXCEPT ![u].st = "joined"]
      BY <2>1 DEF StopJoin
    <3> HIDE DEF u
    <3>2. u \in Threads => thr[u] \in ThreadState /\ thr'[u].st = "joined"
      BY <3>1, Parts DEF ThreadState
    <3>3. \A t \in Threads \ {u} : thr'[t] = thr[t]
      BY <3>1, Parts
    <3>4. u \notin Serving /\ Serving' = Serving
      BY <3>1, <3>2, <3>3 DEF Serving
    <3> QED
      BY <3>3, <3>4 DEF Serving
  <2>2. CASE ~StopJoin(p)
    <3>1. UNCHANGED thr
      BY <2>2 DEF StopStep, StopFlag, StopShutdown, StopLock, StopUnlock
    <3> QED
      BY <3>1 DEF Serving
  <2> QED
    BY <2>1, <2>2
<1>2. (Accepted' <=> Accepted) /\ (Alive' <=> Alive)
  BY <1>0 DEF Accepted, Alive
<1>3. CASE StopShutdown(p)
  <2>1. /\ KernelInv' /\ \A c \in Clients : Quiet(c)
        /\ \A g \in Fds : /\ Connected(g)' <=> Connected(g)
                          /\ Connected(g) => fdtab'[g] = fdtab[g]
    BY <1>3, Parts, ShutdownListenerInv DEF StopShutdown
  <2> QED
    BY <1>0, <1>1, <1>2, <2>1, QuietSockets
<1>4. CASE ~StopShutdown(p)
  <2>1. UNCHANGED kernel
    BY <1>4 DEF StopStep, StopFlag, StopLock, StopJoin, StopUnlock
  <2> QED
    BY <1>0, <1>1, <1>2, <2>1, IdleSockets
<1> QED
  BY <1>3, <1>4

LEMMA ThreadSockets ==
  ASSUME ServerInv, NEW t \in Threads, Thread(t)
  PROVE  KernelInv' /\ SocketsInv'
<1>0. Alive
  BY DEF Thread
<1>1. CASE Convert(t)
  <2>1. UNCHANGED kernel
    BY <1>1, ConvertMoves
  <2>2. PICK r : ThreadMoves(t, r) /\ r.st = "recv" /\ r.unsent = thr[t].unsent
    BY <1>1, ConvertMoves
  <2>3. /\ \A u \in Threads \ {t} : thr'[u] = thr[u]
        /\ thr'[t].client_fd = thr[t].client_fd /\ thr'[t].unsent = thr[t].unsent
        /\ thr'[t].st = "recv" /\ thr[t].st = "convert"
        /\ UNCHANGED <<pc, client_fd>>
    BY <1>1, <2>2, Parts DEF ThreadMoves, Convert, InThread, frame
  <2>4. Serving' = Serving /\ \A u \in Serving : u \in Threads
    BY <2>3 DEF Serving
  <2>5. (Accepted' <=> Accepted) /\ (Alive' <=> Alive)
    BY <2>3 DEF Accepted, Alive
  <2>6. \A u \in Serving : /\ thr'[u].client_fd = thr[u].client_fd
                           /\ thr'[u].unsent = thr[u].unsent
                           /\ thr'[u].st = "close" <=> thr[u].st = "close"
    BY <2>3, <2>4
  <2> QED
    BY <2>1, <2>3, <2>4, <2>5, <2>6, IdleSockets
<1>2. CASE Recv(t) \/ RecvStops(t) \/ Send(t) \/ SendThrows(t)
  <2>1. OneCall(t)
    BY <1>0, <1>2, RecvCall, RecvStopsCall, SendCall, SendThrowsCall
  <2>2. thr[t].st \in Working
    BY <1>2 DEF Recv, RecvStops, Send, SendThrows, InThread, Working
  <2> QED
    BY <1>0, <2>1, <2>2, CallSockets
<1>3. CASE SendKills(t)
  BY <1>3, TerminateSockets DEF SendKills
<1>4. CASE CloseClient(t)
  <2>1. PICK r : ThreadMoves(t, r) /\ r.st = "exited"
    BY <1>4, CloseClientMoves
  <2>2. /\ thr[t].st = "close" /\ thr'[t].st = "exited"
        /\ \A u \in Threads \ {t} : thr'[u] = thr[u]
        /\ UNCHANGED <<pc, client_fd>>
    BY <1>4, <2>1, CloseClientMoves, Parts DEF ThreadMoves, frame
  <2>3. Serving' = Serving \ {t} /\ t \in Serving
    BY <2>2 DEF Serving
  <2>4. PICK f \in Fds : f = thr[t].client_fd /\ CloseFd(f)
    BY <1>4, CloseClientMoves, Parts DEF ThreadState
  <2>5. /\ \A u \in Serving : thr[u].client_fd = f => u = t
        /\ Accepted => client_fd # f
    BY <1>0, <2>3, <2>4, Parts DEF FdOwnership
  <2>6. Serving' = {u \in Serving : thr[u].client_fd # f}
    BY <2>3, <2>4, <2>5
  <2>7. (Accepted' <=> Accepted) /\ Alive'
    BY <1>0, <2>2 DEF Accepted, Alive
  <2>8. \A u \in Serving' : thr'[u] = thr[u]
    BY <2>2, <2>3 DEF Serving
  <2> QED
    BY <1>0, <2>2, <2>4, <2>5, <2>6, <2>7, <2>8, ClosedSockets
<1> QED
  BY <1>1, <1>2, <1>3, <1>4 DEF Thread

LEMMA StepSockets ==
  ASSUME ServerInv, [Next]_vars
  PROVE  KernelInv' /\ SocketsInv'
<1>1. CASE Run
  BY <1>1, RunSockets
<1>2. CASE CallStop \/ Destroy \/ UNCHANGED vars
  <2>1. UNCHANGED <<kernel, thr, client_fd>>
    BY <1>2 DEF CallStop, Destroy, Destroying, InStop, frame, vars, process
  <2>2. (Accepted' <=> Accepted) /\ (Alive' => Alive)
    BY <1>2 DEF CallStop, Destroy, Destroying, vars, process, Accepted, Alive
  <2>3. Serving' = Serving
    BY <2>1 DEF Serving
  <2> QED
    BY <2>1, <2>2, <2>3, IdleSockets
<1>3. CASE Stopping
  BY <1>3, StopSockets DEF Stopping
<1>4. CASE End
  BY <1>4, TerminateSockets DEF End
<1>5. CASE \E t \in Threads : Thread(t)
  BY <1>5, ThreadSockets
<1>6. CASE Environment
  <2>1. KernelInv' /\ \A c \in Clients : Quiet(c)
    BY <1>6, Parts, ClientStepInv DEF Environment
  <2>2. UNCHANGED <<fdtab, pc, client_fd, thr>>
    BY <1>6
       DEF Environment, process, ClientStep, Connect, ClientSend, ClientRecv,
                ClientClose, ClientAbort, ResetArrives
  <2>3. \A g : Connected(g)' <=> Connected(g)
    BY <2>2 DEF Connected
  <2>4. /\ Serving' = Serving /\ (Accepted' <=> Accepted) /\ (Alive' <=> Alive)
    BY <2>2 DEF Serving, Accepted, Alive
  <2> QED
    BY <2>1, <2>2, <2>3, <2>4, QuietSockets
<1> QED
  BY <1>1, <1>2, <1>3, <1>4, <1>5, <1>6 DEF Next

-----------------------------------------------------------------------------
(* The theorems.                                                           *)

LEMMA AlwaysServerInv == Spec => []ServerInv
<1>1. Init => ServerInv
  BY InitTyped, InitThreads, InitSockets DEF ServerInv
<1>2. ServerInv /\ [Next]_vars => ServerInv'
  BY StepTyped, StepThreads, StepSockets DEF ServerInv
<1> QED
  BY <1>1, <1>2, PTL DEF Spec

\* Every field keeps its type: in particular client_ip is the address of an
\* accepted client, and the iterator of a stop() never leaves the vector.
THEOREM TypeCorrect == Spec => []TypeOK
<1>1. ServerInv => TypeOK
  BY DEF ServerInv
<1> QED
  BY <1>1, AlwaysServerInv, PTL

\* Each open connection is owned by exactly one Socket while the process lives:
\* no move, exception or destructor closes twice or leaks.
THEOREM OneSocketPerConnection == Spec => []FdOwnership
<1>1. ServerInv => FdOwnership
  BY DEF ServerInv, SocketsInv
<1> QED
  BY <1>1, AlwaysServerInv, PTL

\* When the destructor is done every thread ever started has been joined, also
\* those run() started after another stop() had gone through the vector.
THEOREM AllThreadsJoined == Spec => []NoThreadOutlives
<1>1. ServerInv => NoThreadOutlives
  <2> SUFFICES ASSUME ServerInv, pc = "ended", NEW t \in Threads, thr[t].st # "none"
               PROVE  thr[t].st = "joined"
    BY DEF NoThreadOutlives
  <2> QED
    BY Parts DEF VectorOfThreads, Joining
<1> QED
  BY <1>1, AlwaysServerInv, PTL

\* thread_mutex does its work: run() never grows the vector under the iterator
\* of a stop(), and two stop() calls never join the same thread.
THEOREM VectorIsGuarded == Spec => []VectorHasOneUser
<1>1. ServerInv => VectorHasOneUser
  <2> SUFFICES ASSUME ServerInv, NEW p \in Stoppers, stop[p] = "join"
               PROVE  /\ pc # "emplace"
                      /\ \A q \in Stoppers : stop[q] = "join" => q = p
    BY DEF VectorHasOneUser
  <2>1. pc # "emplace"
    BY Parts DEF MutexHolder, Joining, Stoppers
  <2> QED
    BY <2>1, Parts DEF MutexHolder
<1> QED
  BY <1>1, AlwaysServerInv, PTL

\* A client gets its own bytes back, each once and in order, also when a send()
\* is cut short or the server is stopped.
THEOREM EchoIsPrefix == Spec => []EchoPrefix
<1>1. ServerInv => EchoPrefix
  BY DEF ServerInv, SocketsInv, Streams, Prefix, EchoPrefix
<1> QED
  BY <1>1, AlwaysServerInv, PTL

JustifiedClose ==
    \A c \in Clients :
       conn[c].sv = "accepted" /\ conn'[c].sv = "closed" /\ Alive' =>
          \/ pc = "emplace" /\ pc' = "dtor" /\ fdtab[client_fd] = c
          \/ /\ conn[c].cl = "closed"
             /\ conn[c].rst = "no" => Len(conn[c].echo) = conn[c].sent

\* A connection ends in only two ways while the process lives.
LEMMA ClosedBy ==
  ASSUME ServerInv, Next, Alive', NEW c \in Clients,
         conn[c].sv = "accepted", conn'[c].sv = "closed"
  PROVE  EmplaceThrows \/ \E t \in Threads : CloseClient(t) /\ Alive
<1>1. KernelTypeOK /\ KernelInv /\ conn' # conn
  BY Parts
<1>2. ~Environment
  BY <1>1, KeepsOpen DEF Environment
<1>3. Run => EmplaceThrows
  <2>1. ~Start /\ ~StartFails /\ ~SetRunning /\ ~LoopTest /\ ~AcceptThrows
        /\ ~NameClient /\ ~LockVector /\ ~Emplace
    BY <1>1 DEF Start, Listen, StartFails, SetRunning, LoopTest, AcceptThrows,
                NameClient, LockVector, Emplace, kernel
  <2>2. ~AcceptClient
    BY <1>1, KeepsOpen DEF AcceptClient
  <2> QED
    BY <2>1, <2>2 DEF Run
<1>4. ~CallStop /\ ~Destroy
  BY <1>1 DEF CallStop, Destroy, Destroying, kernel
<1>5. ~Stopping
  <2> SUFFICES ASSUME NEW p \in Stoppers, StopStep(p) PROVE FALSE
    BY DEF Stopping
  <2>1. ~StopShutdown(p)
    BY <1>1, ShutdownListenerInv DEF StopShutdown
  <2> QED
    BY <1>1, <2>1 DEF StopStep, StopFlag, StopLock, StopJoin, StopUnlock, kernel
<1>6. ~End
  BY DEF End, Terminate, Alive
<1>7. ASSUME NEW t \in Threads, Thread(t) PROVE CloseClient(t) /\ Alive
  <2>1. ~SendKills(t)
    BY DEF SendKills, Terminate, Alive
  <2>2. ~Convert(t)
    BY <1>1 DEF Convert, kernel
  <2>3. ~Recv(t) /\ ~RecvStops(t) /\ ~SendThrows(t)
    BY <1>1, KeepsOpen DEF Recv, RecvStops, SendThrows
  <2>4. ~Send(t)
    BY <1>1, <1>7, KeepsOpen, SendCall DEF Thread, kernel
  <2> QED
    BY <1>7, <2>1, <2>2, <2>3, <2>4 DEF Thread
<1> QED
  BY <1>2, <1>3, <1>4, <1>5, <1>6, <1>7 DEF Next

\* While the process lives it ends a connection only for want of a thread, or
\* after the client left and, if it left in good order, got everything back;
\* stop() and the destructor end none.
THEOREM ClosesAreJustified == Spec => CloseIsJustified
<1>1. ServerInv /\ [Next]_vars => [JustifiedClose]_vars
  <2> SUFFICES ASSUME ServerInv, Next PROVE JustifiedClose
    OBVIOUS
  <2> SUFFICES ASSUME NEW c \in Clients, Alive',
                      conn[c].sv = "accepted", conn'[c].sv = "closed"
               PROVE  \/ pc = "emplace" /\ pc' = "dtor" /\ fdtab[client_fd] = c
                      \/ /\ conn[c].cl = "closed"
                         /\ conn[c].rst = "no" => Len(conn[c].echo) = conn[c].sent
    BY DEF JustifiedClose
  <2>1. CASE EmplaceThrows
    BY <2>1, Parts, CloseFdInv DEF EmplaceThrows, RunStep
  <2>2. ASSUME NEW t \in Threads, CloseClient(t), Alive
        PROVE  /\ conn[c].cl = "closed"
               /\ conn[c].rst = "no" => Len(conn[c].echo) = conn[c].sent
    <3>1. thr[t].st = "close" /\ CloseFd(thr[t].client_fd)
      BY <2>2, CloseClientMoves
    <3>2. ThreadInStep(t)
      BY <2>2, <3>1, ServingThread DEF Working
    <3>3. ClientOf(t) = c
      BY <3>1, Parts, CloseFdInv DEF ClientOf
    <3> QED
      BY <3>1, <3>2, <3>3 DEF ThreadInStep, Settled
  <2> QED
    BY <2>1, <2>2, ClosedBy
<1> QED
  BY <1>1, AlwaysServerInv, PTL DEF Spec, CloseIsJustified, JustifiedClose

LEMMA StepRefines == ServerInv /\ [Next]_vars => [Service!Next]_(Service!vars)
<1> SUFFICES ASSUME ServerInv, [Next]_vars
             PROVE  Service!Next \/ UNCHANGED Service!vars
  OBVIOUS
<1>1. KernelTypeOK /\ KernelInv
  BY Parts
<1>2. CASE UNCHANGED conn
  BY <1>2, NothingSeen DEF Seen
<1>3. CASE UNCHANGED vars
  BY <1>2, <1>3 DEF vars, kernel
<1>4. CASE Run
  <2>1. CASE AcceptClient
    BY <1>1, <2>1, AcceptSeen DEF AcceptClient
  <2>2. CASE EmplaceThrows
    BY <1>1, <2>2, CloseFdInv, ClosingLeaves DEF EmplaceThrows
  <2>3. CASE ~AcceptClient /\ ~EmplaceThrows
    BY <1>2, <1>4, <2>3
       DEF Run, Start, Listen, StartFails, SetRunning, LoopTest, AcceptThrows,
           NameClient, LockVector, Emplace, kernel
  <2> QED
    BY <2>1, <2>2, <2>3
<1>5. CASE CallStop \/ Destroy
  BY <1>2, <1>5 DEF CallStop, Destroy, Destroying, kernel
<1>6. CASE Stopping
  <2>1. PICK p \in Stoppers : StopStep(p)
    BY <1>6 DEF Stopping
  <2>2. CASE StopShutdown(p)
    BY <1>1, <2>2, ShutdownListenerInv, ClosingLeaves DEF StopShutdown
  <2>3. CASE ~StopShutdown(p)
    BY <1>2, <2>1, <2>3
       DEF StopStep, StopFlag, StopLock, StopJoin, StopUnlock, kernel
  <2> QED
    BY <2>2, <2>3
<1>7. CASE End
  BY <1>1, <1>7, CloseAllInv, ClosingLeaves DEF End, Terminate
<1>8. ASSUME NEW t \in Threads, Thread(t)
      PROVE  Service!Next \/ UNCHANGED Service!vars
  <2>0. Alive
    BY <1>8 DEF Thread
  <2>1. CASE Convert(t)
    BY <1>2, <2>1 DEF Convert, kernel
  <2>2. CASE Recv(t) \/ RecvStops(t) \/ SendThrows(t)
    BY <1>1, <2>2, CallUnseen DEF Recv, RecvStops, SendThrows
  <2>3. CASE Send(t)
    <3>1. CASE UNCHANGED kernel
      BY <1>2, <3>1 DEF kernel
    <3>2. CASE \E f \in Fds, c \in Clients :
                  /\ fdtab[f] = c
                  /\ SendByte(f, <<c, Len(conn[c].echo) + 1>>)
                  /\ Len(conn[c].echo) < conn[c].sent
      BY <1>1, <3>2, EchoSeen
    <3> QED
      BY <2>0, <2>3, <3>1, <3>2, SendCall
  <2>4. CASE SendKills(t)
    BY <1>1, <2>4, CloseAllInv, ClosingLeaves DEF SendKills, Terminate
  <2>5. CASE CloseClient(t)
    BY <1>1, <2>5, CloseFdInv, ClosingLeaves DEF CloseClient
  <2> QED
    BY <1>8, <2>1, <2>2, <2>3, <2>4, <2>5 DEF Thread
<1>9. CASE Environment
  BY <1>1, <1>9, ClientStepSeen DEF Environment
<1> QED
  BY <1>3, <1>4, <1>5, <1>6, <1>7, <1>8, <1>9 DEF Next

\* The TCPServer implements the echo service: every step of run(), of stop(),
\* of a thread, of a client or of the network is a step of the service or one
\* that nobody outside sees.
THEOREM Refinement == Spec => ImplementsEchoService
<1>1. Init => Service!Init
  BY PhaseValues DEF Init, KernelInit, Service!Init
<1> QED
  BY <1>1, StepRefines, AlwaysServerInv, PTL
     DEF Spec, ImplementsEchoService, Service!Spec
=============================================================================
