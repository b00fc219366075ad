-------------------- MODULE MultithreadedEchoServerProofs --------------------
(***************************************************************************)
(* The safety properties of the multithreaded server and its refinement of *)
(* the echo service, proved for any clients, threads, blocks, buffer and    *)
(* descriptor limit.                                                       *)
(***************************************************************************)
EXTENDS MultithreadedEchoServer, TcpSocketProofs

-----------------------------------------------------------------------------
(* Types.                                                                  *)

\* A thread has something left to send exactly while it is in send().
BufferInUse ==
    \A t \in Serving :
       thr[t].st \in {"send", "sending"} <=> thr[t].unsent # <<>>

TypeInv == TypeOK /\ BufferInUse

LEMMA InitTyped == Init => TypeInv
<1> SUFFICES ASSUME Init PROVE TypeInv
  OBVIOUS
<1>1. KernelTypeOK
  BY KernelInitTyped DEF Init
<1>2. PICK b \in Blocks, f \in Fds :
         /\ info = b
         /\ client_fd = f
         /\ thread_id \in Threads
         /\ heap = [x \in Blocks |-> [used |-> FALSE, client_fd |-> f]]
         /\ thr = [x \in Threads |-> [NewThread(b, f) EXCEPT !.st = "none"]]
  BY DEF Init
<1>a. NewThread(b, f) \in ThreadState
  BY DEF NewThread, ThreadState, ThreadLabels
<1>3. [NewThread(b, f) EXCEPT !.st = "none"] \in ThreadState
  BY <1>a DEF ThreadState, ThreadLabels
<1>4. thr \in [Threads -> ThreadState]
  BY <1>2, <1>3
<1>5. \A t \in Threads : thr[t].st = "none"
  BY <1>2, <1>a DEF ThreadState
<1> QED
  BY <1>1, <1>2, <1>4, <1>5 DEF Init, TypeInv, TypeOK, BufferInUse, Serving,
                                MainLabels

LEMMA TerminateTyped ==
  ASSUME TypeInv, NEW label \in MainLabels, Terminate(label)
  PROVE  TypeInv'
<1>1. KernelTypeOK'
  BY CloseAllTyped DEF Terminate, TypeInv, TypeOK
<1>2. thr' = [t \in Threads |-> [thr[t] EXCEPT !.st = "none"]]
  BY DEF Terminate
<1>3. \A t \in Threads : thr[t] \in ThreadState /\ [thr[t] EXCEPT !.st = "none"] \in ThreadState
  BY DEF TypeInv, TypeOK, ThreadLabels, ThreadState
<1>4. thr' \in [Threads -> ThreadState]
  BY <1>2, <1>3
<1>5. BufferInUse'
  BY <1>2, <1>3 DEF BufferInUse, Serving, ThreadState
<1> QED
  BY <1>1, <1>4, <1>5 DEF Terminate, TypeInv, TypeOK

LEMMA MainTyped ==
  ASSUME TypeInv, Main
  PROVE  TypeInv'
<1> USE DEF TypeInv, TypeOK, BufferInUse, Serving, MainLabels, ThreadLabels,
            ThreadState
<1>1. CASE Start
  <2>1. KernelTypeOK'
    BY <1>1, ListenTyped DEF Start
  <2> QED
    BY <1>1, <2>1 DEF Start
<1>2. CASE StartFails
  BY <1>2, TerminateTyped DEF StartFails
<1>3. CASE Malloc
  <2>1. PICK b \in Blocks :
           heap' = [heap EXCEPT ![b].used = TRUE] /\ info' = b
    BY <1>3 DEF Malloc
  <2>2. heap' \in [Blocks -> [used : BOOLEAN, client_fd : Fds]]
    BY <2>1
  <2> QED
    BY <1>3, <2>1, <2>2 DEF Malloc, kernel, KernelTypeOK
<1>4. CASE MallocFails
  BY <1>4 DEF MallocFails, vars, kernel, process, KernelTypeOK
<1>5. CASE AcceptClient
  <2>1. PICK f \in Fds :
           /\ Accept(f)
           /\ client_fd' = f
           /\ heap' = [heap EXCEPT ![info].client_fd = f]
    BY <1>5 DEF AcceptClient
  <2>2. KernelTypeOK'
    BY <2>1, AcceptTyped
  <2>3. heap' \in [Blocks -> [used : BOOLEAN, client_fd : Fds]]
    BY <2>1
  <2> QED
    BY <1>5, <2>1, <2>2, <2>3 DEF AcceptClient
<1>6. CASE AcceptFails
  BY <1>6 DEF AcceptFails, kernel, KernelTypeOK
<1>7. CASE CreateThread
  BY <1>7 DEF CreateThread, NewThread, kernel, KernelTypeOK
<1>8. CASE CreateFails
  <2>1. KernelTypeOK'
    BY <1>8, CloseFdTyped DEF CreateFails
  <2> QED
    BY <1>8, <2>1 DEF CreateFails
<1>9. CASE Detach
  <2> DEFINE old == thr[thread_id]
             new == IF old.st = "exited" THEN [old EXCEPT !.st = "none"]
                                         ELSE [old EXCEPT !.detached = TRUE]
  <2>1. old \in ThreadState
    OBVIOUS
  <2>2. /\ new \in ThreadState
        /\ new.unsent = old.unsent
        /\ new.st = old.st \/ new.st = "none"
    BY <2>1
  <2>3. thr' = [thr EXCEPT ![thread_id] = new]
    BY <1>9 DEF Detach
  <2> HIDE DEF new
  <2>4. thr' \in [Threads -> ThreadState]
    BY <2>2, <2>3
  <2>5. BufferInUse'
    BY <2>2, <2>3
  <2> QED
    BY <1>9, <2>2, <2>4, <2>5 DEF Detach, kernel, KernelTypeOK
<1> QED
  BY <1>1, <1>2, <1>3, <1>4, <1>5, <1>6, <1>7, <1>8, <1>9 DEF Main

\* A thread gives up what it had to send.
LEMMA DropsTyped ==
  ASSUME TypeInv, KernelTypeOK', NEW t \in Threads, NEW s \in {"recv", "close"},
         thr' = [thr EXCEPT ![t] = [@ EXCEPT !.st = s, !.unsent = <<>>]],
         UNCHANGED <<pc, info, client_fd, thread_id, heap>>
  PROVE  TypeInv'
<1> DEFINE r == [thr[t] EXCEPT !.st = s, !.unsent = <<>>]
<1>1. thr \in [Threads -> ThreadState] /\ thr[t] \in ThreadState
  BY DEF TypeInv, TypeOK
<1>2. r \in ThreadState /\ r.st = s /\ r.unsent = <<>>
  <2>1. s \in ThreadLabels /\ <<>> \in Seq(Bytes)
    BY DEF ThreadLabels
  <2> QED
    BY <1>1, <2>1 DEF ThreadState
<1> HIDE DEF r
<1>3. thr' = [thr EXCEPT ![t] = r]
  BY <1>1 DEF r
<1>4. BufferInUse'
  <2> SUFFICES ASSUME NEW u \in Threads, u \in Serving'
               PROVE  thr'[u].st \in {"send", "sending"} <=> thr'[u].unsent # <<>>
    BY DEF BufferInUse, Serving
  <2>1. CASE u = t
    BY <1>1, <1>2, <1>3, <2>1
  <2>2. CASE u # t
    BY <1>1, <1>3, <2>2 DEF TypeInv, BufferInUse, Serving
  <2> QED
    BY <2>1, <2>2
<1>5. thr' \in [Threads -> ThreadState]
  BY <1>1, <1>2, <1>3
<1> QED
  BY <1>4, <1>5 DEF TypeInv, TypeOK

LEMMA ThreadTyped ==
  ASSUME TypeInv, NEW t \in Threads, Thread(t)
  PROVE  TypeInv'
<1> USE DEF TypeInv, TypeOK, BufferInUse, Serving, MainLabels, ThreadLabels,
            ThreadState
<1>1. CASE ThreadStart(t)
  BY <1>1 DEF ThreadStart, kernel, KernelTypeOK
<1>2. CASE Recv(t)
  <2> DEFINE f == thr[t].client_fd
  <2>1. KernelTypeOK'
    BY <1>2, RecvDataTyped DEF Recv
  <2>2. RecvBytes(f) \in Seq(Bytes) /\ RecvBytes(f) # <<>>
    BY <1>2, RecvBytesTyped DEF Recv, RecvData
  <2> HIDE DEF f
  <2> QED
    BY <1>2, <2>1, <2>2 DEF Recv, f
<1>3. CASE RecvStops(t)
  <2>1. KernelTypeOK'
    BY <1>3, RecvEndsTyped DEF RecvStops
  <2> QED
    BY <1>3, <2>1 DEF RecvStops, Goto
<1>4. CASE Send(t)
  <2>1. thr[t].unsent \in Seq(Bytes) /\ thr[t].unsent # <<>>
    BY <1>4 DEF Send
  <2>2. Head(thr[t].unsent) \in Bytes /\ Tail(thr[t].unsent) \in Seq(Bytes)
    BY <2>1, FirstOff
  <2>3. Tail(thr[t].unsent) = <<>> <=> Len(thr[t].unsent) = 1
    BY <2>1, FirstOff
  <2>4. KernelTypeOK'
    BY <1>4, <2>2, SendByteTyped DEF Send
  <2> DEFINE s == IF Len(thr[t].unsent) = 1 THEN "recv" ELSE "sending"
             u == Tail(thr[t].unsent)
  <2>5. thr' = [thr EXCEPT ![t] = [@ EXCEPT !.st = s, !.unsent = u]]
    BY <1>4 DEF Send
  <2>6. /\ s \in ThreadLabels
        /\ s \in {"send", "sending"} <=> u # <<>>
    BY <2>3
  <2>7. u \in Seq(Bytes)
    BY <2>2
  <2> HIDE DEF s, u
  <2>8. thr' \in [Threads -> ThreadState]
    BY <2>5, <2>6, <2>7
  <2>9. BufferInUse'
    BY <2>5, <2>6
  <2> QED
    BY <1>4, <2>4, <2>8, <2>9 DEF Send
<1>5. CASE SendShort(t)
  <2>1. KernelTypeOK'
    BY <1>5 DEF SendShort, kernel, KernelTypeOK
  <2> QED
    BY <1>5, <2>1, DropsTyped DEF SendShort
<1>6. CASE SendError(t)
  <2>1. KernelTypeOK'
    BY <1>6, SendFailsTyped DEF SendError
  <2> QED
    BY <1>6, <2>1, DropsTyped DEF SendError
<1>7. CASE SendKills(t)
  BY <1>7, TerminateTyped DEF SendKills
<1>8. CASE CloseClient(t)
  <2>1. KernelTypeOK'
    BY <1>8, CloseFdTyped DEF CloseClient
  <2> QED
    BY <1>8, <2>1 DEF CloseClient, Goto
<1>9. CASE FreeInfo(t)
  <2>1. PICK s \in {"none", "exited"} : thr' = [thr EXCEPT ![t].st = s]
    BY <1>9 DEF FreeInfo, Goto
  <2> DEFINE b == thr[t].arg
  <2>a. b \in Blocks /\ heap[b] \in [used : BOOLEAN, client_fd : Fds]
    OBVIOUS
  <2>b. heap' = [heap EXCEPT ![b].used = FALSE]
    BY <1>9 DEF FreeInfo
  <2> HIDE DEF b
  <2>2. heap' \in [Blocks -> [used : BOOLEAN, client_fd : Fds]]
    BY <2>a, <2>b
  <2>3. thr' \in [Threads -> ThreadState]
    BY <2>1
  <2>4. BufferInUse'
    BY <2>1
  <2> QED
    BY <1>9, <2>2, <2>3, <2>4 DEF FreeInfo, kernel, KernelTypeOK
<1> QED
  BY <1>1, <1>2, <1>3, <1>4, <1>5, <1>6, <1>7, <1>8, <1>9 DEF Thread

LEMMA StepTyped == TypeInv /\ [Next]_vars => TypeInv'
<1> SUFFICES ASSUME TypeInv, [Next]_vars PROVE TypeInv'
  OBVIOUS
<1>1. CASE Environment
  <2>1. KernelTypeOK'
    BY <1>1, ClientStepTyped DEF Environment, TypeInv, TypeOK
  <2> QED
    BY <1>1, <2>1
       DEF Environment, process, TypeInv, TypeOK, BufferInUse, Serving
<1>2. CASE UNCHANGED vars
  BY <1>2 DEF vars, kernel, process, TypeInv, TypeOK, KernelTypeOK,
              BufferInUse, Serving
<1> QED
  BY <1>1, <1>2, MainTyped, ThreadTyped DEF Next

\* Every variable of the server keeps its type: the descriptor main hands on
\* is one that accept() returned, and send() is never given an empty rest.
THEOREM TypeCorrect == Spec => []TypeOK
<1>1. TypeInv => TypeOK
  BY DEF TypeInv
<1> QED
  BY <1>1, InitTyped, StepTyped, PTL DEF Spec

-----------------------------------------------------------------------------
(* Ownership of descriptors, blocks and threads.                           *)

\* The block main is about to hand to a thread names the connection main has.
MainHoldsFd == pc = "create" => heap[info].client_fd = client_fd

Ownership == FdOwnership /\ BlockOwnership /\ ThreadsReclaimed /\ MainHoldsFd

OwnInv == TypeInv /\ Ownership

LEMMA InitOwned == Init => Ownership
<1> SUFFICES ASSUME Init PROVE Ownership
  OBVIOUS
<1>1. \A f \in Fds : fdtab[f] = "free"
  BY DEF Init, KernelInit
<1>2. PICK b \in Blocks, f \in Fds :
         /\ heap = [x \in Blocks |-> [used |-> FALSE, client_fd |-> f]]
         /\ thr = [x \in Threads |-> [NewThread(b, f) EXCEPT !.st = "none"]]
  BY DEF Init
<1>3. \A t \in Threads : thr[t].st = "none"
  BY <1>2 DEF NewThread
<1>4. \A x \in Blocks : ~heap[x].used
  BY <1>2
<1>5. pc = "start"
  BY DEF Init
<1> QED
  BY <1>1, <1>3, <1>4, <1>5, ClientsAssumption
     DEF Ownership, FdOwnership, BlockOwnership, ThreadsReclaimed, MainHoldsFd,
         Serving, Holding, Connected

\* Nothing is left of a process that ended.
LEMMA TerminateOwned ==
  ASSUME TypeInv, NEW label \in {"returned", "killed"}, Terminate(label)
  PROVE  Ownership'
<1>1. \A f \in Fds : fdtab'[f] = "free"
  BY DEF Terminate, CloseAll
<1>2. \A t \in Threads : thr'[t].st = "none"
  BY DEF Terminate, TypeInv, TypeOK, ThreadState
<1>3. \A x \in Blocks : ~heap'[x].used
  BY DEF Terminate, TypeInv, TypeOK
<1>4. pc' = label
  BY DEF Terminate
<1> QED
  BY <1>1, <1>2, <1>3, <1>4, ClientsAssumption
     DEF Ownership, FdOwnership, BlockOwnership, ThreadsReclaimed, MainHoldsFd,
         Serving, Holding, Connected

\* A step of a thread that keeps its connection and its block.
LEMMA ServingOwned ==
  ASSUME OwnInv, NEW t \in Threads, t \in Serving,
         thr'[t].st \in {"recv", "send", "sending", "close"},
         thr'[t].client_fd = FdOf(t),
         thr'[t].arg = thr[t].arg,
         thr'[t].detached = thr[t].detached,
         \A u \in Threads \ {t} : thr'[u] = thr[u],
         UNCHANGED <<pc, info, client_fd, thread_id, heap, fdtab>>
  PROVE  Ownership'
<1>1. Serving' = Serving /\ Holding' = Holding
  BY DEF Serving, Holding
<1>2. \A u \in Serving : FdOf(u)' = FdOf(u)
  BY <1>1 DEF Serving, FdOf
<1>3. \A u \in Holding : thr'[u].arg = thr[u].arg
  BY DEF Holding
<1>4. \A f : Connected(f)' = Connected(f)
  BY DEF Connected
<1>5. FdOwnership'
  BY <1>1, <1>2, <1>4 DEF OwnInv, Ownership, FdOwnership
<1>6. BlockOwnership'
  BY <1>1, <1>3 DEF OwnInv, Ownership, BlockOwnership
<1>7. ThreadsReclaimed'
  BY DEF OwnInv, Ownership, ThreadsReclaimed, Serving
<1> QED
  BY <1>5, <1>6, <1>7 DEF OwnInv, Ownership, MainHoldsFd

\* A step of main that leaves the threads, the connections and the fields of
\* the blocks alone.
LEMMA MainMovesOwned ==
  ASSUME OwnInv, BlockOwnership', pc' # "create",
         pc # "create", pc # "detach",
         \A f \in Fds : Connected(f)' = Connected(f),
         \A t \in Threads : heap'[thr[t].arg].client_fd = heap[thr[t].arg].client_fd,
         UNCHANGED thr
  PROVE  Ownership'
<1>1. Serving' = Serving
  BY DEF Serving
<1>2. \A t \in Serving : FdOf(t)' = FdOf(t)
  BY DEF FdOf, Serving
<1>3. FdOwnership'
  <2>1. \A t \in Serving : Connected(FdOf(t))'
    <3> TAKE t \in Serving
    <3>1. FdOf(t) \in Fds
      BY DEF OwnInv, Ownership, FdOwnership, Connected
    <3> QED
      BY <3>1, <1>2 DEF OwnInv, Ownership, FdOwnership, Connected
  <2> QED
    BY <1>1, <1>2, <2>1 DEF OwnInv, Ownership, FdOwnership, Connected
<1>4. ThreadsReclaimed'
  BY DEF OwnInv, Ownership, ThreadsReclaimed
<1> QED
  BY <1>3, <1>4 DEF Ownership, MainHoldsFd

LEMMA MainOwned ==
  ASSUME OwnInv, Main
  PROVE  Ownership'
<1>t. /\ thr \in [Threads -> ThreadState]
      /\ heap \in [Blocks -> [used : BOOLEAN, client_fd : Fds]]
      /\ info \in Blocks /\ client_fd \in Fds /\ thread_id \in Threads
      /\ fdtab \in [Fds -> Clients \cup {"free", "listener", "shut"}]
  BY DEF OwnInv, TypeInv, TypeOK, KernelTypeOK
<1>a. \A t \in Threads : thr[t].arg \in Blocks
  BY <1>t DEF ThreadState
<1>1. CASE Start
  <2>1. \A f \in Fds : Connected(f)' = Connected(f)
    BY <1>1, <1>t, ClientsAssumption DEF Start, Listen, LowestFree, Connected
  <2>2. BlockOwnership'
    BY <1>1 DEF Start, OwnInv, Ownership, BlockOwnership, Holding
  <2> QED
    BY <1>1, <2>1, <2>2, MainMovesOwned DEF Start
<1>2. CASE StartFails
  BY <1>2, TerminateOwned DEF StartFails, OwnInv
<1>3. CASE Malloc
  <2>1. PICK b \in Blocks : /\ ~heap[b].used
                            /\ heap' = [heap EXCEPT ![b].used = TRUE]
                            /\ info' = b
    BY <1>3 DEF Malloc
  <2>2. /\ heap'[b].used
        /\ heap'[b].client_fd = heap[b].client_fd
        /\ \A x \in Blocks \ {b} : heap'[x] = heap[x]
    BY <2>1, <1>t
  <2>3. BlockOwnership'
    BY <1>3, <2>1, <2>2, <1>a
       DEF Malloc, OwnInv, Ownership, BlockOwnership, Holding
  <2>4. \A t \in Threads : heap'[thr[t].arg].client_fd = heap[thr[t].arg].client_fd
    BY <2>2, <1>a
  <2> QED
    BY <1>3, <2>3, <2>4, MainMovesOwned DEF Malloc, kernel, Connected
<1>4. CASE MallocFails
  BY <1>4
     DEF MallocFails, vars, kernel, process, OwnInv, Ownership, FdOwnership,
              BlockOwnership, ThreadsReclaimed, MainHoldsFd, Serving, Holding,
              FdOf, Connected
<1>5. CASE AcceptClient
  <2>1. PICK f \in Fds :
           /\ Accept(f)
           /\ client_fd' = f
           /\ heap' = [heap EXCEPT ![info].client_fd = f]
    BY <1>5 DEF AcceptClient
  <2>2. PICK c \in Clients : fdtab' = [fdtab EXCEPT ![f] = c] /\ fdtab[f] = "free"
    BY <2>1 DEF Accept, Pending, LowestFree
  <2>3. /\ heap'[info].client_fd = f
        /\ heap'[info].used = heap[info].used
        /\ \A x \in Blocks \ {info} : heap'[x] = heap[x]
    BY <2>1, <1>t
  <2>4. ~Connected(f) /\ \A g \in Fds : Connected(g)' <=> g = f \/ Connected(g)
    BY <2>2, <1>t, ClientsAssumption DEF Connected
  <2>5. /\ pc = "accept" /\ pc' = "create" /\ info' = info /\ thr' = thr
        /\ client_fd' = f /\ thread_id' = thread_id
    BY <1>5, <2>1 DEF AcceptClient
  <2>6. Serving' = Serving /\ Holding' = Holding
    BY <2>5 DEF Serving, Holding
  <2>7. \A t \in Serving : thr[t].arg # info
    BY <2>5 DEF Serving, Holding, OwnInv, Ownership, BlockOwnership
  <2>8. \A t \in Serving : FdOf(t)' = FdOf(t) /\ FdOf(t) # f
    BY <2>3, <2>4, <2>5, <2>7, <1>a
       DEF FdOf, Serving, OwnInv, Ownership, FdOwnership
  <2>9. FdOwnership'
    <3>1. \A t \in Serving : Connected(FdOf(t))'
      BY <2>4, <2>8 DEF OwnInv, Ownership, FdOwnership, Connected
    <3> QED
      BY <2>4, <2>5, <2>6, <2>8, <3>1
         DEF OwnInv, Ownership, FdOwnership, Connected
  <2>10. BlockOwnership'
    BY <2>3, <2>5, <2>6, <1>a, <1>t
       DEF OwnInv, Ownership, BlockOwnership, Holding
  <2>11. ThreadsReclaimed'
    BY <2>5 DEF OwnInv, Ownership, ThreadsReclaimed
  <2> QED
    BY <2>3, <2>5, <2>9, <2>10, <2>11 DEF Ownership, MainHoldsFd
<1>6. CASE AcceptFails
  <2>1. /\ ~heap'[info].used
        /\ heap'[info].client_fd = heap[info].client_fd
        /\ \A x \in Blocks \ {info} : heap'[x] = heap[x]
    BY <1>6, <1>t DEF AcceptFails
  <2>2. BlockOwnership'
    BY <1>6, <2>1, <1>a
       DEF AcceptFails, OwnInv, Ownership, BlockOwnership, Holding
  <2>3. \A t \in Threads : heap'[thr[t].arg].client_fd = heap[thr[t].arg].client_fd
    BY <2>1, <1>a
  <2> QED
    BY <1>6, <2>2, <2>3, MainMovesOwned DEF AcceptFails, kernel, Connected
<1>7. CASE CreateThread
  <2>1. PICK t \in Threads :
           /\ thr[t].st = "none"
           /\ thr' = [thr EXCEPT ![t] = NewThread(info, thr[t].client_fd)]
           /\ thread_id' = t
    BY <1>7 DEF CreateThread
  <2>2. /\ thr'[t].st = "start" /\ thr'[t].arg = info /\ ~thr'[t].detached
        /\ \A u \in Threads \ {t} : thr'[u] = thr[u]
    BY <2>1, <1>t DEF NewThread
  <2>3. /\ pc = "create" /\ pc' = "detach" /\ thread_id' = t
        /\ info' = info /\ client_fd' = client_fd /\ heap' = heap /\ fdtab' = fdtab
    BY <1>7, <2>1 DEF CreateThread, kernel
  <2>4. /\ Serving' = Serving \cup {t} /\ t \notin Serving
        /\ Holding' = Holding \cup {t} /\ t \notin Holding
    BY <2>1, <2>2 DEF Serving, Holding
  <2>5. \A u \in Serving : FdOf(u)' = FdOf(u)
    BY <2>2, <2>3, <2>4 DEF FdOf, Serving
  <2>6. FdOf(t)' = client_fd
    BY <2>2, <2>3 DEF FdOf, OwnInv, Ownership, MainHoldsFd
  <2>7. \A f : Connected(f)' = Connected(f)
    BY <2>3 DEF Connected
  <2>8. FdOwnership'
    BY <2>3, <2>4, <2>5, <2>6, <2>7 DEF OwnInv, Ownership, FdOwnership
  <2>9. \A u \in Holding : thr'[u].arg = thr[u].arg
    BY <2>2, <2>4 DEF Holding
  <2>10. BlockOwnership'
    BY <2>2, <2>3, <2>4, <2>9 DEF OwnInv, Ownership, BlockOwnership
  <2>11. ThreadsReclaimed'
    BY <2>2, <2>3 DEF OwnInv, Ownership, ThreadsReclaimed
  <2> QED
    BY <2>3, <2>8, <2>10, <2>11 DEF Ownership, MainHoldsFd
<1>8. CASE CreateFails
  <2>1. /\ ~heap'[info].used
        /\ heap'[info].client_fd = heap[info].client_fd
        /\ \A x \in Blocks \ {info} : heap'[x] = heap[x]
    BY <1>8, <1>t DEF CreateFails
  <2>2. /\ pc = "create" /\ pc' = "malloc" /\ info' = info
        /\ thread_id' = thread_id /\ thr' = thr
    BY <1>8 DEF CreateFails
  <2>3. \A f \in Fds : Connected(f)' <=> f # client_fd /\ Connected(f)
    BY <1>8, <1>t, ClientsAssumption DEF CreateFails, CloseFd, Connected
  <2>4. Serving' = Serving /\ Holding' = Holding
    BY <2>2 DEF Serving, Holding
  <2>5. \A t \in Serving : FdOf(t)' = FdOf(t) /\ FdOf(t) \in Fds
    BY <2>1, <2>2, <1>a
       DEF FdOf, Serving, OwnInv, Ownership, FdOwnership, Connected
  <2>6. FdOwnership'
    <3>1. \A t \in Serving : Connected(FdOf(t))'
      BY <2>2, <2>3, <2>5 DEF OwnInv, Ownership, FdOwnership, Connected
    <3> QED
      BY <2>2, <2>3, <2>4, <2>5, <3>1
         DEF OwnInv, Ownership, FdOwnership, Connected
  <2>7. BlockOwnership'
    BY <2>1, <2>2, <2>4, <1>a DEF OwnInv, Ownership, BlockOwnership, Holding
  <2>8. ThreadsReclaimed'
    BY <2>2 DEF OwnInv, Ownership, ThreadsReclaimed
  <2> QED
    BY <2>2, <2>6, <2>7, <2>8 DEF Ownership, MainHoldsFd
<1>9. CASE Detach
  <2> DEFINE t == thread_id
  <2>1. /\ pc = "detach" /\ pc' = "malloc" /\ info' = info /\ heap' = heap
        /\ fdtab' = fdtab
        /\ \A u \in Threads \ {t} : thr'[u] = thr[u]
    BY <1>9, <1>t DEF Detach, kernel
  <2>2. thr[t] \in ThreadState
    BY <1>t
  <2>3. \/ thr[t].st = "exited" /\ thr'[t] = [thr[t] EXCEPT !.st = "none"]
        \/ thr[t].st # "exited" /\ thr'[t] = [thr[t] EXCEPT !.detached = TRUE]
    BY <1>9, <1>t DEF Detach
  <2>4. /\ thr'[t].arg = thr[t].arg
        /\ thr'[t].client_fd = thr[t].client_fd
        /\ \/ thr[t].st = "exited" /\ thr'[t].st = "none"
           \/ thr'[t].st = thr[t].st /\ thr'[t].detached
    BY <2>2, <2>3 DEF ThreadState
  <2> HIDE DEF t
  <2>5. Serving' = Serving /\ Holding' = Holding
    BY <2>1, <2>4 DEF Serving, Holding
  <2>6. \A u \in Serving : FdOf(u)' = FdOf(u)
    BY <2>1, <2>4 DEF FdOf, Serving
  <2>7. \A u \in Holding : thr'[u].arg = thr[u].arg
    BY <2>1, <2>4 DEF Holding
  <2>8. FdOwnership'
    BY <2>1, <2>5, <2>6 DEF OwnInv, Ownership, FdOwnership, Connected
  <2>9. BlockOwnership'
    BY <2>1, <2>5, <2>7 DEF OwnInv, Ownership, BlockOwnership
  <2>10. ThreadsReclaimed'
    BY <2>1, <2>4 DEF OwnInv, Ownership, ThreadsReclaimed, t
  <2> QED
    BY <2>1, <2>8, <2>9, <2>10 DEF Ownership, MainHoldsFd
<1> QED
  BY <1>1, <1>2, <1>3, <1>4, <1>5, <1>6, <1>7, <1>8, <1>9 DEF Main

LEMMA ThreadOwned ==
  ASSUME OwnInv, NEW t \in Threads, Thread(t)
  PROVE  Ownership'
<1>t. /\ thr \in [Threads -> ThreadState]
      /\ heap \in [Blocks -> [used : BOOLEAN, client_fd : Fds]]
      /\ thr[t] \in ThreadState
      /\ fdtab \in [Fds -> Clients \cup {"free", "listener", "shut"}]
  BY DEF OwnInv, TypeInv, TypeOK, KernelTypeOK
<1>a. \A u \in Threads : thr[u].arg \in Blocks
  BY <1>t DEF ThreadState
<1>1. CASE ThreadStart(t)
  BY <1>1, <1>t, ServingOwned
     DEF ThreadStart, Serving, FdOf, ThreadState, kernel
<1>2. CASE Recv(t)
  BY <1>2, <1>t, ServingOwned DEF Recv, RecvData, Serving, FdOf, ThreadState
<1>3. CASE RecvStops(t)
  BY <1>3, <1>t, ServingOwned
     DEF RecvStops, RecvEnds, Goto, Serving, FdOf, ThreadState
<1>4. CASE Send(t)
  <2> DEFINE s == IF Len(thr[t].unsent) = 1 THEN "recv" ELSE "sending"
             u == Tail(thr[t].unsent)
  <2>1. /\ s \in {"recv", "sending"}
        /\ thr' = [thr EXCEPT ![t] = [@ EXCEPT !.st = s, !.unsent = u]]
    BY <1>4 DEF Send
  <2> HIDE DEF s, u
  <2>2. /\ thr'[t].st = s
        /\ thr'[t].client_fd = thr[t].client_fd
        /\ thr'[t].arg = thr[t].arg
        /\ thr'[t].detached = thr[t].detached
        /\ \A v \in Threads \ {t} : thr'[v] = thr[v]
    BY <2>1, <1>t DEF ThreadState
  <2>3. t \in Serving /\ FdOf(t) = thr[t].client_fd
    BY <1>4 DEF Send, Serving, FdOf
  <2>4. UNCHANGED <<pc, info, client_fd, thread_id, heap, fdtab>>
    BY <1>4 DEF Send, SendByte
  <2> QED
    BY <2>1, <2>2, <2>3, <2>4, ServingOwned
<1>5. CASE SendShort(t)
  BY <1>5, <1>t, ServingOwned DEF SendShort, Serving, FdOf, ThreadState, kernel
<1>6. CASE SendError(t)
  BY <1>6, <1>t, ServingOwned
     DEF SendError, SendFails, Serving, FdOf, ThreadState
<1>7. CASE SendKills(t)
  BY <1>7, TerminateOwned DEF SendKills, OwnInv
<1>8. CASE CloseClient(t)
  <2> DEFINE f == thr[t].client_fd
  <2>1. /\ thr[t].st = "close" /\ thr'[t].st = "free"
        /\ thr'[t].arg = thr[t].arg /\ thr'[t].detached = thr[t].detached
        /\ \A u \in Threads \ {t} : thr'[u] = thr[u]
        /\ UNCHANGED <<pc, info, client_fd, thread_id, heap>>
    BY <1>8, <1>t DEF CloseClient, Goto, ThreadState
  <2>2. \A g \in Fds : Connected(g)' <=> g # f /\ Connected(g)
    BY <1>8, <1>t, ClientsAssumption DEF CloseClient, CloseFd, Connected
  <2>3. t \in Serving /\ FdOf(t) = f
    BY <2>1 DEF Serving, FdOf
  <2>4. Serving' = Serving \ {t} /\ Holding' = Holding
    BY <2>1 DEF Serving, Holding
  <2>5. \A u \in Serving \ {t} : FdOf(u)' = FdOf(u) /\ FdOf(u) \in Fds /\ FdOf(u) # f
    BY <2>1, <2>3 DEF FdOf, Serving, OwnInv, Ownership, FdOwnership, Connected
  <2>6. FdOwnership'
    <3>1. \A u \in Serving \ {t} : Connected(FdOf(u))'
      BY <2>2, <2>5 DEF OwnInv, Ownership, FdOwnership, Connected
    <3>2. pc = "create" => Connected(client_fd)' /\ client_fd # f
      BY <2>1, <2>2, <2>3 DEF OwnInv, Ownership, FdOwnership, Connected
    <3>3. \A g \in Fds : Connected(g)' =>
             \/ pc = "create" /\ client_fd = g
             \/ \E u \in Serving \ {t} : FdOf(u) = g
      BY <2>2, <2>3 DEF OwnInv, Ownership, FdOwnership
    <3> QED
      BY <2>1, <2>4, <2>5, <3>1, <3>2, <3>3
         DEF OwnInv, Ownership, FdOwnership, Connected
  <2>7. \A u \in Holding : thr'[u].arg = thr[u].arg
    BY <2>1 DEF Holding
  <2>8. BlockOwnership'
    BY <2>1, <2>4, <2>7 DEF OwnInv, Ownership, BlockOwnership
  <2>9. ThreadsReclaimed'
    BY <2>1 DEF OwnInv, Ownership, ThreadsReclaimed
  <2> QED
    BY <2>1, <2>6, <2>8, <2>9 DEF OwnInv, Ownership, MainHoldsFd
<1>9. CASE FreeInfo(t)
  <2> DEFINE b == thr[t].arg
  <2>1. /\ thr[t].st = "free"
        /\ thr'[t].st = IF thr[t].detached THEN "none" ELSE "exited"
        /\ thr'[t].detached = thr[t].detached
        /\ \A u \in Threads \ {t} : thr'[u] = thr[u]
        /\ UNCHANGED <<pc, info, client_fd, thread_id, fdtab>>
    BY <1>9, <1>t DEF FreeInfo, Goto, ThreadState, kernel
  <2>2. b \in Blocks /\ heap' = [heap EXCEPT ![b].used = FALSE]
    BY <1>9, <1>a DEF FreeInfo
  <2> HIDE DEF b
  <2>3. /\ ~heap'[b].used
        /\ heap'[b].client_fd = heap[b].client_fd
        /\ \A x \in Blocks \ {b} : heap'[x] = heap[x]
    BY <2>2, <1>t
  <2>4. \A x \in Blocks : heap'[x].client_fd = heap[x].client_fd
    BY <2>3
  <2>5. Serving' = Serving /\ t \notin Serving
    BY <2>1 DEF Serving
  <2>6. Holding' = Holding \ {t} /\ t \in Holding
    BY <2>1 DEF Holding
  <2>7. \A u \in Serving : FdOf(u)' = FdOf(u)
    BY <2>1, <2>4, <2>5, <1>a DEF FdOf, Serving
  <2>8. FdOwnership'
    BY <2>1, <2>5, <2>7 DEF OwnInv, Ownership, FdOwnership, Connected
  <2>9. \A u \in Holding \ {t} : thr'[u].arg = thr[u].arg /\ thr[u].arg # b
    BY <2>1, <2>6 DEF Holding, OwnInv, Ownership, BlockOwnership, b
  <2>10. BlockOwnership'
    <3>1. pc \in {"accept", "create"} => heap'[info].used /\ info # b
      BY <2>3, <2>6 DEF OwnInv, TypeInv, TypeOK, Ownership, BlockOwnership, b
    <3>2. \A u \in Holding \ {t} : heap'[thr[u].arg].used
      BY <2>3, <2>6, <2>9, <1>a DEF Holding, OwnInv, Ownership, BlockOwnership
    <3>3. \A x \in Blocks : heap'[x].used =>
             \/ pc \in {"accept", "create"} /\ info = x
             \/ \E u \in Holding \ {t} : thr[u].arg = x
      BY <2>3, <2>6 DEF OwnInv, Ownership, BlockOwnership, b
    <3> QED
      BY <2>1, <2>6, <2>9, <3>1, <3>2, <3>3
         DEF OwnInv, Ownership, BlockOwnership
  <2>11. ThreadsReclaimed'
    BY <2>1 DEF OwnInv, Ownership, ThreadsReclaimed
  <2>12. MainHoldsFd'
    BY <2>1, <2>4 DEF OwnInv, TypeInv, TypeOK, Ownership, MainHoldsFd
  <2> QED
    BY <2>8, <2>10, <2>11, <2>12 DEF Ownership
<1> QED
  BY <1>1, <1>2, <1>3, <1>4, <1>5, <1>6, <1>7, <1>8, <1>9 DEF Thread

LEMMA StepOwned == OwnInv /\ [Next]_vars => OwnInv'
<1> SUFFICES ASSUME OwnInv, [Next]_vars PROVE OwnInv'
  OBVIOUS
<1>1. TypeInv'
  BY StepTyped DEF OwnInv
<1>2. CASE UNCHANGED process /\ UNCHANGED fdtab
  BY <1>1, <1>2 DEF process, OwnInv, Ownership, FdOwnership, BlockOwnership,
       ThreadsReclaimed, MainHoldsFd, Serving, Holding, FdOf, Connected
<1>3. Environment \/ UNCHANGED vars => UNCHANGED process /\ UNCHANGED fdtab
  BY DEF Environment, ClientStep, Connect, ClientSend, ClientRecv, ClientClose,
         ClientAbort, ResetArrives, vars, kernel, process
<1> QED
  BY <1>1, <1>2, <1>3, MainOwned, ThreadOwned DEF Next, OwnInv

LEMMA AlwaysOwned == Spec => []OwnInv
<1>1. Init => OwnInv
  BY InitTyped, InitOwned DEF OwnInv
<1> QED
  BY <1>1, StepOwned, PTL DEF Spec

\* No connection descriptor leaks, is shared by two threads, or is closed or
\* used after it was given to another connection, whichever calls fail.
THEOREM FdsOwned == Spec => []FdOwnership
<1>1. OwnInv => FdOwnership
  BY DEF OwnInv, Ownership
<1> QED
  BY <1>1, AlwaysOwned, PTL

\* Every client_info_t has one owner from malloc() to its only free().
THEOREM BlocksOwned == Spec => []BlockOwnership
<1>1. OwnInv => BlockOwnership
  BY DEF OwnInv, Ownership
<1> QED
  BY <1>1, AlwaysOwned, PTL

\* No thread that is over keeps its id, though it may end before main detaches
\* it.
THEOREM NoZombieThreads == Spec => []ThreadsReclaimed
<1>1. OwnInv => ThreadsReclaimed
  BY DEF OwnInv, Ownership
<1> QED
  BY <1>1, AlwaysOwned, PTL

-----------------------------------------------------------------------------
(* What the clients get back: the bytes in the buffers of the threads      *)
(* continue what was echoed, so the server implements the echo service.    *)

ClientOf(t) == fdtab[FdOf(t)]

\* A thread has in its buffer all it still owes its client, and closes only
\* when the client left and got everything.
ThreadInStep(t) ==
    /\ InStep(ClientOf(t), thr[t].unsent)
    /\ thr[t].st = "close" => Settled(ClientOf(t))

\* A connection no thread serves yet is untouched.
Streams ==
    /\ pc = "create" => InStep(fdtab[client_fd], <<>>)
    /\ \A t \in Serving : ThreadInStep(t)
    /\ \A c \in Clients : Prefix(c)

StreamInv == OwnInv /\ KernelInv /\ Streams

-----------------------------------------------------------------------------
(* Steps that move no data.                                                *)

LEMMA BystanderInStep ==
  ASSUME NEW t \in Threads, ThreadInStep(t), ClientOf(t) \in Clients,
         Quiet(ClientOf(t)),
         ClientOf(t)' = ClientOf(t),
         thr'[t].st = "close" <=> thr[t].st = "close",
         thr'[t].unsent = thr[t].unsent
  PROVE  ThreadInStep(t)'
BY DEF ThreadInStep, InStep, Settled, Quiet, Owed

LEMMA ServedClient ==
  ASSUME OwnInv, NEW t \in Serving
  PROVE  t \in Threads /\ FdOf(t) \in Fds /\ ClientOf(t) \in Clients
BY DEF OwnInv, Ownership, FdOwnership, Connected, ClientOf, Serving

LEMMA QuietStreams ==
  ASSUME StreamInv, KernelInv',
         \A c \in Clients : Quiet(c),
         \A t \in Serving' :
            /\ t \in Serving
            /\ ClientOf(t)' = ClientOf(t)
            /\ thr'[t].st = "close" <=> thr[t].st = "close"
            /\ thr'[t].unsent = thr[t].unsent,
         pc' = "create" => /\ pc = "create"
                           /\ fdtab'[client_fd'] = fdtab[client_fd]
  PROVE  Streams'
<1>1. \A t \in Serving' : ThreadInStep(t)'
  <2> TAKE t \in Serving'
  <2>1. t \in Serving /\ t \in Threads /\ ClientOf(t) \in Clients
    BY ServedClient DEF StreamInv
  <2> QED
    BY <2>1, BystanderInStep DEF StreamInv, Streams
<1>2. \A c \in Clients : Prefix(c)'
  BY QuietPrefix DEF StreamInv, Streams
<1>3. pc' = "create" => InStep(fdtab[client_fd], <<>>)'
  <2> SUFFICES ASSUME pc' = "create" PROVE InStep(fdtab[client_fd], <<>>)'
    OBVIOUS
  <2>1. fdtab[client_fd] \in Clients
    BY DEF StreamInv, OwnInv, Ownership, FdOwnership, Connected
  <2>2. InStep(fdtab[client_fd], <<>>)
    BY DEF StreamInv, Streams
  <2> QED
    BY <2>1, <2>2 DEF InStep, Owed, Quiet
<1> QED
  BY <1>1, <1>2, <1>3 DEF Streams

-----------------------------------------------------------------------------
(* Steps of a thread on its own connection.                                *)

LEMMA OneThreadStreams ==
  ASSUME StreamInv, KernelInv', NEW t \in Serving,
         \A c \in Clients \ {ClientOf(t)} : conn'[c] = conn[c],
         Prefix(ClientOf(t))',
         ThreadInStep(t)',
         FdOf(t)' = FdOf(t),
         Serving' = Serving,
         \A u \in Threads \ {t} : thr'[u] = thr[u],
         UNCHANGED <<pc, client_fd, heap, fdtab>>
  PROVE  Streams'
<1>1. t \in Threads /\ FdOf(t) \in Fds /\ ClientOf(t) \in Clients
  BY ServedClient DEF StreamInv
<1>2. ASSUME NEW u \in Serving, u # t
      PROVE  ThreadInStep(u)'
  <2>1. u \in Threads /\ FdOf(u) \in Fds /\ ClientOf(u) \in Clients
    BY ServedClient DEF StreamInv
  <2>2. FdOf(u) # FdOf(t) /\ Connected(FdOf(u))
    BY <1>2 DEF StreamInv, OwnInv, Ownership, FdOwnership
  <2>3. ClientOf(u) # ClientOf(t)
    BY <1>1, <2>1, <2>2 DEF StreamInv, KernelInv, ClientOf
  <2>4. ClientOf(u)' = ClientOf(u)
    BY <2>1, <1>2 DEF ClientOf, FdOf
  <2>5. Quiet(ClientOf(u))
    BY <2>1, <2>3 DEF Quiet
  <2> QED
    BY <1>2, <2>1, <2>4, <2>5, BystanderInStep DEF StreamInv, Streams
<1>3. \A u \in Serving' : ThreadInStep(u)'
  BY <1>2
<1>4. ASSUME NEW c \in Clients PROVE Prefix(c)'
  <2>1. ClientOf(t)' = ClientOf(t)
    BY DEF ClientOf
  <2>2. CASE c = ClientOf(t)
    BY <2>1, <2>2 DEF Prefix
  <2>3. CASE c # ClientOf(t)
    BY <2>3 DEF StreamInv, Streams, Prefix
  <2> QED
    BY <2>2, <2>3
<1>5. ASSUME pc = "create"
      PROVE  InStep(fdtab[client_fd], <<>>)'
  <2>1. Connected(client_fd) /\ FdOf(t) # client_fd
    BY <1>5 DEF StreamInv, OwnInv, Ownership, FdOwnership
  <2>2. fdtab[client_fd] \in Clients /\ fdtab[client_fd] # ClientOf(t)
    BY <1>1, <2>1 DEF StreamInv, KernelInv, ClientOf, Connected
  <2> QED
    BY <1>5, <2>2 DEF StreamInv, Streams, InStep, Owed
<1> QED
  BY <1>3, <1>4, <1>5 DEF Streams

-----------------------------------------------------------------------------
(* The actions.                                                            *)

LEMMA InitStreams == Init => Streams /\ KernelInv
<1> SUFFICES ASSUME Init PROVE Streams /\ KernelInv
  OBVIOUS
<1>1. KernelInit /\ pc = "start" /\ KernelInv
  BY KernelInitInv DEF Init
<1>2. \A c \in Clients : Prefix(c)
  BY <1>1 DEF KernelInit, Prefix
<1>3. Serving = {}
  <2> PICK b \in Blocks, f \in Fds :
         thr = [x \in Threads |-> [NewThread(b, f) EXCEPT !.st = "none"]]
    BY DEF Init
  <2> QED
    BY DEF NewThread, Serving
<1> QED
  BY <1>1, <1>2, <1>3 DEF Streams

LEMMA TerminateStreams ==
  ASSUME StreamInv, NEW label \in {"returned", "killed"}, Terminate(label)
  PROVE  Streams' /\ KernelInv'
<1>1. /\ KernelInv' /\ \A c \in Clients : Quiet(c)
  BY CloseAllInv DEF Terminate, StreamInv, OwnInv, TypeInv, TypeOK
<1>2. Serving' = {}
  BY DEF Terminate, Serving, StreamInv, OwnInv, TypeInv, TypeOK, ThreadState
<1>3. pc' # "create"
  BY DEF Terminate
<1> QED
  BY <1>1, <1>2, <1>3, QuietStreams

LEMMA MainStreams ==
  ASSUME StreamInv, OwnInv', Main
  PROVE  Streams' /\ KernelInv'
<1>t. /\ KernelTypeOK /\ KernelInv
      /\ thr \in [Threads -> ThreadState]
      /\ heap \in [Blocks -> [used : BOOLEAN, client_fd : Fds]]
      /\ info \in Blocks /\ client_fd \in Fds /\ thread_id \in Threads
      /\ \A t \in Threads : thr[t].arg \in Blocks
  BY DEF StreamInv, OwnInv, TypeInv, TypeOK, ThreadState
<1>s. \A t \in Serving : t \in Threads /\ FdOf(t) \in Fds /\ ClientOf(t) \in Clients
  BY ServedClient DEF StreamInv
<1>k. UNCHANGED kernel => KernelInv' /\ \A c \in Clients : Quiet(c)
  BY <1>t DEF kernel, KernelInv, Quiet, Connected
<1>1. CASE Start
  <2>1. PICK f \in Fds : Listen(f)
    BY <1>1 DEF Start
  <2>2. KernelInv' /\ \A c \in Clients : Quiet(c)
    BY <2>1, <1>t, ListenInv
  <2>3. Serving' = Serving /\ \A t \in Serving : FdOf(t)' = FdOf(t)
    BY <1>1 DEF Start, Serving, FdOf
  <2>4. \A t \in Serving : ClientOf(t)' = ClientOf(t)
    BY <1>s, <2>1, <2>3, ClientsAssumption DEF Listen, LowestFree, ClientOf,
       StreamInv, OwnInv, TypeInv, TypeOK, KernelTypeOK
  <2> QED
    BY <1>1, <2>2, <2>3, <2>4, QuietStreams DEF Start
<1>2. CASE StartFails
  BY <1>2, TerminateStreams DEF StartFails
<1>3. CASE Malloc
  <2>1. \A b \in Blocks : heap'[b].client_fd = heap[b].client_fd
    BY <1>3, <1>t DEF Malloc
  <2>2. Serving' = Serving /\ \A t \in Serving : ClientOf(t)' = ClientOf(t)
    BY <1>3, <1>t, <2>1 DEF Malloc, kernel, Serving, FdOf, ClientOf
  <2> QED
    BY <1>3, <1>k, <2>2, QuietStreams DEF Malloc
<1>4. CASE MallocFails
  BY <1>4, <1>k, QuietStreams
     DEF MallocFails, vars, process, kernel, Serving, FdOf, ClientOf
<1>5. CASE AcceptClient
  <2>1. PICK f \in Fds :
           /\ Accept(f)
           /\ client_fd' = f
           /\ heap' = [heap EXCEPT ![info].client_fd = f]
    BY <1>5 DEF AcceptClient
  <2>2. /\ KernelInv'
        /\ \A d \in Clients : Quiet(d)
        /\ \A g \in Fds \ {f} : fdtab'[g] = fdtab[g]
        /\ conn'[fdtab'[f]].taken = 0 /\ conn'[fdtab'[f]].echo = <<>>
    BY <2>1, <1>t, AcceptInv
  <2>3. Serving' = Serving /\ thr' = thr /\ pc = "accept"
    BY <1>5 DEF AcceptClient, Serving
  <2>4. ASSUME NEW t \in Serving PROVE ClientOf(t)' = ClientOf(t)
    <3>1. thr[t].arg # info /\ thr[t].arg \in Blocks
      BY <1>s, <1>t, <2>3
         DEF Serving, Holding, StreamInv, OwnInv, Ownership, BlockOwnership
    <3>2. FdOf(t)' = FdOf(t)
      BY <1>t, <2>1, <2>3, <3>1 DEF FdOf
    <3>3. FdOf(t) # f
      BY <1>s, <2>1, <2>4, ClientsAssumption
         DEF Accept, LowestFree, StreamInv, OwnInv, Ownership, FdOwnership,
             Connected
    <3> QED
      BY <1>s, <2>2, <3>2, <3>3 DEF ClientOf
  <2>5. \A t \in Serving' : ThreadInStep(t)'
    <3> TAKE t \in Serving'
    <3> QED
      BY <1>s, <2>2, <2>3, <2>4, BystanderInStep DEF StreamInv, Streams
  <2>6. \A c \in Clients : Prefix(c)'
    BY <2>2, QuietPrefix DEF StreamInv, Streams
  <2>7. InStep(fdtab[client_fd], <<>>)'
    BY <2>1, <2>2 DEF InStep, Owed
  <2> QED
    BY <2>2, <2>5, <2>6, <2>7 DEF Streams
<1>6. CASE AcceptFails
  <2>1. \A b \in Blocks : heap'[b].client_fd = heap[b].client_fd
    BY <1>6, <1>t DEF AcceptFails
  <2>2. Serving' = Serving /\ \A t \in Serving : ClientOf(t)' = ClientOf(t)
    BY <1>6, <1>t, <2>1 DEF AcceptFails, kernel, Serving, FdOf, ClientOf
  <2> QED
    BY <1>6, <1>k, <2>2, QuietStreams DEF AcceptFails
<1>7. CASE CreateThread
  <2>1. PICK t \in Threads :
           /\ thr[t].st = "none"
           /\ thr' = [thr EXCEPT ![t] = NewThread(info, thr[t].client_fd)]
    BY <1>7 DEF CreateThread
  <2>2. /\ thr'[t].st = "start" /\ thr'[t].unsent = <<>> /\ thr'[t].arg = info
        /\ \A u \in Threads \ {t} : thr'[u] = thr[u]
    BY <2>1, <1>t DEF NewThread
  <2>3. /\ pc = "create" /\ pc' = "detach" /\ client_fd' = client_fd
        /\ heap' = heap /\ fdtab' = fdtab /\ conn' = conn
    BY <1>7 DEF CreateThread, kernel
  <2>4. Serving' = Serving \cup {t} /\ t \notin Serving
    BY <2>1, <2>2 DEF Serving
  <2>5. FdOf(t)' = client_fd
    BY <2>2, <2>3 DEF FdOf, StreamInv, OwnInv, Ownership, MainHoldsFd
  <2>6. ThreadInStep(t)'
    BY <2>2, <2>3, <2>5
       DEF ThreadInStep, InStep, ClientOf, Owed, StreamInv, Streams
  <2>7. ASSUME NEW u \in Serving PROVE ThreadInStep(u)'
    <3>1. u \in Threads \ {t} /\ ClientOf(u) \in Clients
      BY <1>s, <2>4, <2>7
    <3>2. ClientOf(u)' = ClientOf(u)
      BY <2>2, <2>3, <3>1 DEF ClientOf, FdOf
    <3> QED
      BY <1>k, <2>2, <2>3, <3>1, <3>2, BystanderInStep
         DEF StreamInv, Streams, kernel
  <2>8. \A c \in Clients : Prefix(c)'
    BY <2>3 DEF StreamInv, Streams, Prefix
  <2> QED
    BY <1>k, <2>3, <2>4, <2>6, <2>7, <2>8 DEF Streams, kernel
<1>8. CASE CreateFails
  <2>1. /\ KernelInv' /\ \A d \in Clients : Quiet(d)
        /\ \A g \in Fds \ {client_fd} : fdtab'[g] = fdtab[g]
    BY <1>8, <1>t, CloseFdInv DEF CreateFails
  <2>2. \A b \in Blocks : heap'[b].client_fd = heap[b].client_fd
    BY <1>8, <1>t DEF CreateFails
  <2>3. Serving' = Serving /\ \A t \in Serving : FdOf(t)' = FdOf(t)
    BY <1>8, <1>t, <2>2 DEF CreateFails, Serving, FdOf
  <2>4. \A t \in Serving : FdOf(t) # client_fd
    BY <1>8 DEF CreateFails, StreamInv, OwnInv, Ownership, FdOwnership
  <2>5. \A t \in Serving : ClientOf(t)' = ClientOf(t)
    BY <1>s, <2>1, <2>3, <2>4 DEF ClientOf
  <2> QED
    BY <1>8, <2>1, <2>3, <2>5, QuietStreams DEF CreateFails
<1>9. CASE Detach
  <2>1. \A u \in Threads : /\ thr'[u].unsent = thr[u].unsent
                           /\ thr'[u].client_fd = thr[u].client_fd
                           /\ thr'[u].arg = thr[u].arg
                           /\ \/ thr'[u].st = thr[u].st
                              \/ thr[u].st = "exited" /\ thr'[u].st = "none"
    <3> DEFINE old == thr[thread_id]
    <3>1. old \in ThreadState
      BY <1>t
    <3>2. \A u \in Threads \ {thread_id} : thr'[u] = thr[u]
      BY <1>9, <1>t DEF Detach
    <3>3. \/ old.st = "exited" /\ thr'[thread_id] = [old EXCEPT !.st = "none"]
          \/ thr'[thread_id] = [old EXCEPT !.detached = TRUE]
      BY <1>9, <1>t DEF Detach
    <3>4. /\ thr'[thread_id].unsent = old.unsent
          /\ thr'[thread_id].client_fd = old.client_fd
          /\ thr'[thread_id].arg = old.arg
          /\ \/ thr'[thread_id].st = old.st
             \/ old.st = "exited" /\ thr'[thread_id].st = "none"
      BY <3>1, <3>3 DEF ThreadState
    <3> QED
      BY <3>2, <3>4
  <2>2. Serving' = Serving
    BY <2>1 DEF Serving
  <2>3. \A t \in Serving : thr'[t].st = thr[t].st
    BY <2>1 DEF Serving
  <2>4. \A t \in Serving : ClientOf(t)' = ClientOf(t)
    BY <1>9, <1>s, <2>1, <2>3 DEF Detach, kernel, FdOf, ClientOf
  <2> QED
    BY <1>9, <1>k, <1>s, <2>1, <2>2, <2>3, <2>4, QuietStreams DEF Detach
<1> QED
  BY <1>1, <1>2, <1>3, <1>4, <1>5, <1>6, <1>7, <1>8, <1>9 DEF Main

\* recv() puts what it takes into an empty buffer.
LEMMA RecvStreams ==
  ASSUME StreamInv, NEW t \in Threads, Recv(t)
  PROVE  Streams' /\ KernelInv'
<1>1. /\ KernelTypeOK /\ KernelInv /\ thr[t] \in ThreadState
      /\ thr \in [Threads -> ThreadState]
  BY DEF StreamInv, OwnInv, TypeInv, TypeOK
<1>2. t \in Serving /\ FdOf(t) = thr[t].client_fd /\ thr[t].st = "recv"
  BY DEF Recv, Serving, FdOf
<1>3. PICK f \in Fds, c \in Clients : f = FdOf(t) /\ c = ClientOf(t)
  BY <1>2, ServedClient DEF StreamInv
<1>4. /\ RecvData(f) /\ fdtab[f] = c
      /\ thr' = [thr EXCEPT ![t] = [@ EXCEPT !.st = "send", !.unsent = RecvBytes(f)]]
      /\ UNCHANGED <<pc, client_fd, heap, fdtab>>
  BY <1>2, <1>3 DEF Recv, RecvData, ClientOf
<1>5. /\ InStep(c, <<>>) /\ Prefix(c)
  BY <1>2, <1>3
     DEF StreamInv, Streams, ThreadInStep, OwnInv, TypeInv, BufferInUse
<1>6. /\ KernelInv' /\ Prefix(c)'
      /\ \A d \in Clients \ {c} : conn'[d] = conn[d]
  BY <1>1, <1>4, <1>5, RecvInStep
<1>7. PICK r \in Seq(Bytes) : r = RecvBytes(f) /\ InStep(c, r)'
  BY <1>1, <1>4, <1>5, RecvInStep
<1>8. /\ thr'[t].st = "send" /\ thr'[t].unsent = r /\ thr'[t].client_fd = f
      /\ \A u \in Threads \ {t} : thr'[u] = thr[u]
  BY <1>1, <1>2, <1>3, <1>4, <1>7 DEF ThreadState
<1>9. FdOf(t)' = f /\ ClientOf(t)' = c
  BY <1>4, <1>8 DEF FdOf, ClientOf
<1>10. ThreadInStep(t)' /\ Prefix(ClientOf(t))'
  BY <1>6, <1>7, <1>8, <1>9 DEF ThreadInStep, InStep, Owed, Prefix
<1>11. Serving' = Serving
  BY <1>2, <1>8 DEF Serving
<1> QED
  BY <1>2, <1>3, <1>4, <1>6, <1>8, <1>9, <1>10, <1>11, OneThreadStreams

\* send() gives the client the next byte it is owed.
LEMMA SendStreams ==
  ASSUME StreamInv, NEW t \in Threads, Send(t)
  PROVE  /\ Streams' /\ KernelInv'
         /\ Head(thr[t].unsent) = <<ClientOf(t), Len(conn[ClientOf(t)].echo) + 1>>
         /\ Len(conn[ClientOf(t)].echo) < conn[ClientOf(t)].sent
<1>1. /\ KernelTypeOK /\ KernelInv /\ thr[t] \in ThreadState
      /\ thr \in [Threads -> ThreadState]
  BY DEF StreamInv, OwnInv, TypeInv, TypeOK
<1>2. /\ t \in Serving /\ FdOf(t) = thr[t].client_fd
      /\ thr[t].st \in {"send", "sending"}
  BY DEF Send, Serving, FdOf
<1>3. PICK f \in Fds, c \in Clients : f = FdOf(t) /\ c = ClientOf(t)
  BY <1>2, ServedClient DEF StreamInv
<1>4. PICK o \in Seq(Bytes) : o = thr[t].unsent /\ o # <<>>
  BY <1>1, <1>2 DEF ThreadState, StreamInv, OwnInv, TypeInv, BufferInUse
<1>5. PICK b, u : b = Head(o) /\ u = Tail(o)
  OBVIOUS
<1>6. PICK s \in {"recv", "sending"} :
         thr' = [thr EXCEPT ![t] = [@ EXCEPT !.st = s, !.unsent = u]]
  BY <1>4, <1>5 DEF Send
<1>7. /\ SendByte(f, b) /\ fdtab[f] = c
      /\ UNCHANGED <<pc, client_fd, heap, fdtab>>
  BY <1>2, <1>3, <1>4, <1>5 DEF Send, SendByte, ClientOf
<1>8. InStep(c, o) /\ Prefix(c)
  BY <1>2, <1>3, <1>4 DEF StreamInv, Streams, ThreadInStep
<1>9. /\ KernelInv'
      /\ \A d \in Clients \ {c} : conn'[d] = conn[d]
      /\ InStep(c, u)' /\ Prefix(c)'
      /\ b = <<c, Len(conn[c].echo) + 1>>
      /\ Len(conn[c].echo) < conn[c].sent
  BY <1>1, <1>4, <1>5, <1>7, <1>8, SendInStep
<1>10. /\ thr'[t].st = s /\ thr'[t].unsent = u /\ thr'[t].client_fd = f
       /\ \A v \in Threads \ {t} : thr'[v] = thr[v]
  BY <1>1, <1>2, <1>3, <1>6 DEF ThreadState
<1>11. FdOf(t)' = f /\ ClientOf(t)' = c
  BY <1>7, <1>10 DEF FdOf, ClientOf
<1>12. ThreadInStep(t)' /\ Prefix(ClientOf(t))'
  BY <1>9, <1>10, <1>11 DEF ThreadInStep, InStep, Owed, Prefix
<1>13. Serving' = Serving
  BY <1>2, <1>10 DEF Serving
<1>14. Streams'
  BY <1>2, <1>3, <1>7, <1>9, <1>10, <1>11, <1>12, <1>13, OneThreadStreams
<1> QED
  BY <1>3, <1>4, <1>5, <1>9, <1>14

\* recv() <= 0 comes only after the client left and, if it left in good
\* order, after the last of its bytes.
LEMMA RecvStopsStreams ==
  ASSUME StreamInv, NEW t \in Threads, RecvStops(t)
  PROVE  Streams' /\ KernelInv'
<1>1. /\ KernelTypeOK /\ KernelInv /\ thr[t] \in ThreadState
      /\ thr \in [Threads -> ThreadState]
  BY DEF StreamInv, OwnInv, TypeInv, TypeOK
<1>2. t \in Serving /\ FdOf(t) = thr[t].client_fd /\ thr[t].st = "recv"
  BY DEF RecvStops, Serving, FdOf
<1>3. PICK f \in Fds, c \in Clients : f = FdOf(t) /\ c = ClientOf(t)
  BY <1>2, ServedClient DEF StreamInv
<1>4. /\ RecvEnds(f) /\ fdtab[f] = c /\ Connected(f)
      /\ thr' = [thr EXCEPT ![t].st = "close"]
      /\ UNCHANGED <<pc, client_fd, heap, fdtab>>
  BY <1>2, <1>3 DEF RecvStops, RecvEnds, Goto, ClientOf, Connected
<1>5. conn \in [Clients -> Conn] /\ conn[c] \in Conn
  BY <1>1 DEF KernelTypeOK
<1>6. /\ thr'[t].st = "close" /\ thr'[t].client_fd = f
      /\ \A v \in Threads \ {t} : thr'[v] = thr[v]
  BY <1>1, <1>2, <1>3, <1>4 DEF ThreadState
<1>7. /\ KernelInv' /\ Quiet(c)
  BY <1>1, <1>4, RecvEndsInv
<1>8. \A d \in Clients \ {c} : conn'[d] = conn[d]
  BY <1>4, <1>5 DEF RecvEnds
<1>9. Settled(c)' /\ InStep(c, <<>>) /\ InStep(c, <<>>)'
  <2>1. InStep(c, <<>>)
    BY <1>2, <1>3
       DEF StreamInv, Streams, ThreadInStep, OwnInv, TypeInv, BufferInUse
  <2> QED
    BY <1>1, <1>4, <1>7, <2>1, RecvEndsSettled, QuietInStep
<1>12. FdOf(t)' = f /\ ClientOf(t)' = c
  BY <1>4, <1>6 DEF FdOf, ClientOf
<1>13. ThreadInStep(t)'
  <2>1. thr'[t].unsent = <<>>
    BY <1>1, <1>2, <1>4
       DEF ThreadState, StreamInv, OwnInv, TypeInv, BufferInUse
  <2> QED
    BY <1>9, <1>12, <2>1 DEF ThreadInStep, InStep, Owed, Settled
<1>14. Prefix(ClientOf(t))'
  BY <1>7, <1>12, QuietPrefix DEF StreamInv, Streams, Prefix
<1>15. Serving' = Serving
  BY <1>2, <1>6 DEF Serving
<1> QED
  BY <1>2, <1>3, <1>4, <1>6, <1>7, <1>8, <1>12, <1>13, <1>14, <1>15,
     OneThreadStreams

\* send() fails, or is cut short, only on a connection the client reset.
LEMMA SendErrorStreams ==
  ASSUME StreamInv, NEW t \in Threads, SendError(t)
  PROVE  Streams' /\ KernelInv'
<1>1. /\ KernelTypeOK /\ KernelInv /\ thr[t] \in ThreadState
      /\ thr \in [Threads -> ThreadState]
  BY DEF StreamInv, OwnInv, TypeInv, TypeOK
<1>2. t \in Serving /\ FdOf(t) = thr[t].client_fd /\ thr[t].st = "send"
  BY DEF SendError, Serving, FdOf
<1>3. PICK f \in Fds, c \in Clients : f = FdOf(t) /\ c = ClientOf(t)
  BY <1>2, ServedClient DEF StreamInv
<1>4. /\ SendFails(f) /\ fdtab[f] = c /\ Connected(f)
      /\ thr' = [thr EXCEPT ![t] = [@ EXCEPT !.st = "close", !.unsent = <<>>]]
      /\ UNCHANGED <<pc, client_fd, heap, fdtab>>
  BY <1>2, <1>3 DEF SendError, SendFails, ClientOf, Connected
<1>5. conn \in [Clients -> Conn] /\ conn[c] \in Conn
  BY <1>1 DEF KernelTypeOK
<1>6. /\ thr'[t].st = "close" /\ thr'[t].client_fd = f
      /\ \A v \in Threads \ {t} : thr'[v] = thr[v]
  BY <1>1, <1>2, <1>3, <1>4 DEF ThreadState
<1>7. /\ KernelInv' /\ Quiet(c)
  BY <1>1, <1>4, SendFailsInv
<1>8. \A d \in Clients \ {c} : conn'[d] = conn[d]
  BY <1>4, <1>5 DEF SendFails
<1>9. Settled(c)' /\ conn'[c].rst # "no"
  BY <1>1, <1>4, <1>7, SendFailsSettled DEF SendFails, Quiet
<1>12. FdOf(t)' = f /\ ClientOf(t)' = c
  BY <1>4, <1>6 DEF FdOf, ClientOf
<1>13. ThreadInStep(t)'
  BY <1>6, <1>9, <1>12 DEF ThreadInStep, InStep, Settled
<1>14. Prefix(ClientOf(t))'
  BY <1>7, <1>12, QuietPrefix DEF StreamInv, Streams, Prefix
<1>15. Serving' = Serving
  BY <1>2, <1>6 DEF Serving
<1> QED
  BY <1>2, <1>3, <1>4, <1>6, <1>7, <1>8, <1>12, <1>13, <1>14, <1>15,
     OneThreadStreams

LEMMA SendShortStreams ==
  ASSUME StreamInv, NEW t \in Threads, SendShort(t)
  PROVE  Streams' /\ KernelInv'
<1>1. /\ KernelInv /\ thr[t] \in ThreadState /\ thr \in [Threads -> ThreadState]
  BY DEF StreamInv, OwnInv, TypeInv, TypeOK
<1>2. t \in Serving /\ FdOf(t) = thr[t].client_fd /\ thr[t].st = "sending"
  BY DEF SendShort, Serving, FdOf
<1>3. ClientOf(t) \in Clients /\ conn[ClientOf(t)].rst # "no"
  BY <1>2, ServedClient DEF StreamInv, SendShort, SendCutShort, ClientOf
<1>4. /\ thr'[t].st = "recv" /\ thr'[t].client_fd = thr[t].client_fd
      /\ \A v \in Threads \ {t} : thr'[v] = thr[v]
      /\ UNCHANGED <<pc, client_fd, heap, conn, fdtab>>
  BY <1>1 DEF SendShort, ThreadState, kernel
<1>5. FdOf(t)' = FdOf(t) /\ ClientOf(t)' = ClientOf(t)
  BY <1>2, <1>4 DEF FdOf, ClientOf
<1>6. ThreadInStep(t)'
  BY <1>3, <1>4, <1>5 DEF ThreadInStep, InStep
<1>7. Prefix(ClientOf(t))'
  BY <1>3, <1>4, <1>5 DEF StreamInv, Streams, Prefix
<1>8. Serving' = Serving
  BY <1>2, <1>4 DEF Serving
<1>9. KernelInv'
  BY <1>1, <1>4 DEF KernelInv, Connected
<1> QED
  BY <1>2, <1>4, <1>5, <1>6, <1>7, <1>8, <1>9, OneThreadStreams

LEMMA ThreadStreams ==
  ASSUME StreamInv, OwnInv', NEW t \in Threads, Thread(t)
  PROVE  Streams' /\ KernelInv'
<1>t. /\ KernelTypeOK /\ KernelInv /\ thr[t] \in ThreadState
      /\ thr \in [Threads -> ThreadState]
      /\ heap \in [Blocks -> [used : BOOLEAN, client_fd : Fds]]
      /\ \A u \in Threads : thr[u].arg \in Blocks
  BY DEF StreamInv, OwnInv, TypeInv, TypeOK, ThreadState
<1>s. \A u \in Serving : u \in Threads /\ FdOf(u) \in Fds /\ ClientOf(u) \in Clients
  BY ServedClient DEF StreamInv
<1>k. UNCHANGED kernel => KernelInv' /\ \A c \in Clients : Quiet(c)
  BY <1>t DEF kernel, KernelInv, Quiet, Connected
<1>1. CASE ThreadStart(t)
  <2>1. /\ thr[t].st = "start" /\ thr'[t].st = "recv"
        /\ thr'[t].client_fd = heap[thr[t].arg].client_fd
        /\ thr'[t].unsent = thr[t].unsent
        /\ \A u \in Threads \ {t} : thr'[u] = thr[u]
        /\ UNCHANGED <<pc, client_fd, heap, kernel>>
    BY <1>1, <1>t DEF ThreadStart, ThreadState
  <2>2. Serving' = Serving
    BY <2>1 DEF Serving
  <2>3. \A u \in Serving : ClientOf(u)' = ClientOf(u)
    BY <1>s, <2>1 DEF FdOf, ClientOf, kernel
  <2> QED
    BY <1>k, <1>s, <2>1, <2>2, <2>3, QuietStreams DEF kernel
<1>7. CASE SendKills(t)
  BY <1>7, TerminateStreams DEF SendKills
<1>8. CASE CloseClient(t)
  <2> DEFINE f == thr[t].client_fd
  <2>1. /\ thr[t].st = "close" /\ thr'[t].st = "free" /\ CloseFd(f)
        /\ \A u \in Threads \ {t} : thr'[u] = thr[u]
        /\ UNCHANGED <<pc, client_fd, heap>>
    BY <1>8, <1>t DEF CloseClient, Goto, ThreadState
  <2>2. /\ KernelInv' /\ \A c \in Clients : Quiet(c)
        /\ \A g \in Fds \ {f} : fdtab'[g] = fdtab[g]
    BY <2>1, <1>t, CloseFdInv
  <2>3. Serving' = Serving \ {t} /\ t \in Serving /\ FdOf(t) = f
    BY <2>1 DEF Serving, FdOf
  <2> HIDE DEF f
  <2>4. \A u \in Serving \ {t} : FdOf(u)' = FdOf(u) /\ FdOf(u) # f
    BY <1>s, <2>1, <2>3 DEF FdOf, StreamInv, OwnInv, Ownership, FdOwnership
  <2>5. \A u \in Serving \ {t} : ClientOf(u)' = ClientOf(u)
    BY <1>s, <2>2, <2>4 DEF ClientOf
  <2>6. pc = "create" => fdtab'[client_fd] = fdtab[client_fd]
    BY <2>2, <2>3 DEF StreamInv, OwnInv, Ownership, FdOwnership, Connected
  <2> QED
    BY <1>s, <2>1, <2>2, <2>3, <2>5, <2>6, QuietStreams
<1>9. CASE FreeInfo(t)
  <2>1. /\ thr[t].st = "free" /\ thr'[t].st \in {"none", "exited"}
        /\ \A u \in Threads \ {t} : thr'[u] = thr[u]
        /\ UNCHANGED <<pc, client_fd, kernel>>
    BY <1>9, <1>t DEF FreeInfo, Goto, ThreadState
  <2>2. \A b \in Blocks : heap'[b].client_fd = heap[b].client_fd
    BY <1>9, <1>t DEF FreeInfo
  <2>3. Serving' = Serving /\ t \notin Serving
    BY <2>1 DEF Serving
  <2>4. \A u \in Serving : ClientOf(u)' = ClientOf(u)
    BY <1>s, <1>t, <2>1, <2>2, <2>3 DEF FdOf, ClientOf, kernel
  <2> QED
    BY <1>k, <1>s, <2>1, <2>3, <2>4, QuietStreams DEF kernel
<1> QED
  BY <1>1, <1>7, <1>8, <1>9, RecvStreams, RecvStopsStreams, SendStreams,
     SendShortStreams, SendErrorStreams DEF Thread

LEMMA StepStreams == StreamInv /\ [Next]_vars => StreamInv'
<1> SUFFICES ASSUME StreamInv, [Next]_vars PROVE StreamInv'
  OBVIOUS
<1>1. OwnInv'
  BY StepOwned DEF StreamInv
<1>2. CASE Environment \/ UNCHANGED vars
  <2>1. KernelTypeOK /\ KernelInv
    BY DEF StreamInv, OwnInv, TypeInv, TypeOK
  <2>2. UNCHANGED process /\ UNCHANGED fdtab
    BY <1>2 DEF Environment, ClientStep, Connect, ClientSend, ClientRecv,
           ClientClose, ClientAbort, ResetArrives, vars, kernel
  <2>3. KernelInv' /\ \A c \in Clients : Quiet(c)
    <3>1. CASE Environment
      BY <2>1, <3>1, ClientStepInv DEF Environment
    <3>2. CASE UNCHANGED vars
      BY <2>1, <3>2 DEF vars, kernel, KernelInv, Quiet, Connected
    <3> QED
      BY <1>2, <3>1, <3>2
  <2>4. Serving' = Serving /\ \A t \in Serving : ClientOf(t)' = ClientOf(t)
    BY <2>2 DEF process, Serving, ClientOf, FdOf
  <2>5. Streams'
    BY <2>2, <2>3, <2>4, QuietStreams DEF process
  <2> QED
    BY <1>1, <2>3, <2>5 DEF StreamInv
<1>3. CASE Main
  BY <1>1, <1>3, MainStreams DEF StreamInv
<1>4. ASSUME NEW t \in Threads, Thread(t) PROVE StreamInv'
  BY <1>1, <1>4, ThreadStreams DEF StreamInv
<1> QED
  BY <1>2, <1>3, <1>4 DEF Next

LEMMA AlwaysStreams == Spec => []StreamInv
<1>1. Init => StreamInv
  BY InitTyped, InitOwned, InitStreams DEF StreamInv, OwnInv
<1> QED
  BY <1>1, StepStreams, PTL DEF Spec

\* A client gets its own bytes back, each once and in order: neither the reuse
\* of descriptors, blocks and thread ids nor a short send() mixes streams up.
THEOREM EchoIsPrefix == Spec => []EchoPrefix
<1>1. StreamInv => EchoPrefix
  BY DEF StreamInv, Streams, Prefix, EchoPrefix
<1> QED
  BY <1>1, AlwaysStreams, PTL

-----------------------------------------------------------------------------
(* Closing.                                                                *)

\* A connection ends in only two ways while the server runs.
LEMMA ClosedBy ==
  ASSUME StreamInv, Next, Running', NEW c \in Clients,
         conn[c].sv = "accepted", conn'[c].sv = "closed"
  PROVE  CreateFails \/ \E t \in Threads : CloseClient(t)
<1>1. KernelTypeOK /\ KernelInv /\ conn \in [Clients -> Conn]
  BY DEF StreamInv, OwnInv, TypeInv, TypeOK, KernelTypeOK
<1>2. conn' # conn
  OBVIOUS
<1>3. CASE Environment
  BY <1>1, <1>3, KeepsOpen DEF Environment
<1>4. CASE Main
  <2>1. ~Start /\ ~Malloc /\ ~MallocFails /\ ~AcceptFails /\ ~CreateThread /\ ~Detach
    BY <1>2 DEF Start, Listen, Malloc, MallocFails, AcceptFails, CreateThread,
                Detach, vars, kernel
  <2>2. ~StartFails
    BY DEF StartFails, Terminate, Running
  <2>3. ~AcceptClient
    BY <1>1, KeepsOpen DEF AcceptClient
  <2> QED
    BY <1>4, <2>1, <2>2, <2>3 DEF Main
<1>5. ASSUME NEW t \in Threads, Thread(t) PROVE CloseClient(t)
  <2>1. ~ThreadStart(t) /\ ~SendShort(t) /\ ~FreeInfo(t)
    BY <1>2 DEF ThreadStart, SendShort, FreeInfo, kernel
  <2>2. ~SendKills(t)
    BY DEF SendKills, Terminate, Running
  <2>3. ~Recv(t) /\ ~RecvStops(t) /\ ~Send(t) /\ ~SendError(t)
    BY <1>1, KeepsOpen DEF Recv, RecvStops, Send, SendError
  <2> QED
    BY <1>5, <2>1, <2>2, <2>3 DEF Thread
<1> QED
  BY <1>3, <1>4, <1>5 DEF Next

\* While the server runs it ends a connection only for want of a thread or
\* after the client left, and after an orderly leave with everything echoed.
THEOREM ClosesAreJustified == Spec => CloseIsJustified
<1>1. StreamInv /\ [Next]_vars => [JustifiedClose]_vars
  <2> SUFFICES ASSUME StreamInv, Next PROVE JustifiedClose
    OBVIOUS
  <2> SUFFICES ASSUME NEW c \in Clients, Running',
                      conn[c].sv = "accepted", conn'[c].sv = "closed"
               PROVE  \/ pc = "create" /\ fdtab[client_fd] = c
                      \/ /\ conn[c].cl = "closed"
                         /\ conn[c].rst = "no" => Len(conn[c].echo) = conn[c].sent
    BY DEF JustifiedClose
  <2>1. KernelTypeOK /\ KernelInv
    BY DEF StreamInv, OwnInv, TypeInv, TypeOK
  <2>2. CASE CreateFails
    BY <2>1, <2>2, CloseFdInv DEF CreateFails
  <2>3. ASSUME NEW t \in Threads, CloseClient(t)
        PROVE  /\ conn[c].cl = "closed"
               /\ conn[c].rst = "no" => Len(conn[c].echo) = conn[c].sent
    <3>1. t \in Serving /\ thr[t].st = "close" /\ FdOf(t) = thr[t].client_fd
      BY <2>3 DEF CloseClient, Serving, FdOf
    <3>2. fdtab[FdOf(t)] = c
      BY <2>1, <2>3, <3>1, CloseFdInv DEF CloseClient
    <3> QED
      BY <3>1, <3>2 DEF StreamInv, Streams, ThreadInStep, Settled, ClientOf
  <2> QED
    BY <2>2, <2>3, ClosedBy
<1> QED
  BY <1>1, AlwaysStreams, PTL DEF Spec, CloseIsJustified

-----------------------------------------------------------------------------
(* The refinement.                                                         *)

LEMMA SendSeen ==
  ASSUME StreamInv, NEW t \in Threads, Send(t)
  PROVE  Service!Next
<1>1. t \in Serving /\ FdOf(t) = thr[t].client_fd
  BY DEF Send, Serving, FdOf
<1>2. PICK f \in Fds, c \in Clients : f = FdOf(t) /\ c = ClientOf(t)
  BY <1>1, ServedClient DEF StreamInv
<1>3. /\ SendByte(f, <<c, Len(conn[c].echo) + 1>>) /\ fdtab[f] = c
      /\ Len(conn[c].echo) < conn[c].sent
  BY <1>1, <1>2, SendStreams DEF Send, ClientOf
<1> QED
  BY <1>3, EchoSeen DEF StreamInv, OwnInv, TypeInv, TypeOK

LEMMA InitRefines == Init => Service!Init
BY PhaseValues DEF Init, KernelInit, Service!Init

LEMMA StepRefines == StreamInv /\ [Next]_vars => [Service!Next]_(Service!vars)
<1> SUFFICES ASSUME StreamInv, [Next]_vars
             PROVE  Service!Next \/ UNCHANGED Service!vars
  OBVIOUS
<1>1. KernelTypeOK /\ KernelInv
  BY DEF StreamInv, OwnInv, TypeInv, TypeOK
<1>2. CASE UNCHANGED conn
  BY <1>2, NothingSeen DEF Seen
<1>3. UNCHANGED vars => UNCHANGED conn
  BY DEF vars, kernel
<1>4. CASE Environment
  BY <1>1, <1>4, ClientStepSeen DEF Environment
<1>5. CASE Main
  <2>1. CASE \/ Start \/ Malloc \/ MallocFails \/ AcceptFails \/ CreateThread \/ Detach
    BY <1>2, <2>1 DEF Start, Listen, Malloc, MallocFails, AcceptFails,
                      CreateThread, Detach, vars, kernel
  <2>2. CASE StartFails
    BY <1>1, <2>2, CloseAllInv, ClosingLeaves DEF StartFails, Terminate
  <2>3. CASE AcceptClient
    BY <1>1, <2>3, AcceptSeen DEF AcceptClient
  <2>4. CASE CreateFails
    BY <1>1, <2>4, CloseFdInv, ClosingLeaves DEF CreateFails
  <2> QED
    BY <1>5, <2>1, <2>2, <2>3, <2>4 DEF Main
<1>6. ASSUME NEW t \in Threads, Thread(t)
      PROVE  Service!Next \/ UNCHANGED Service!vars
  <2>1. CASE ThreadStart(t) \/ SendShort(t) \/ FreeInfo(t)
    BY <1>2, <2>1 DEF ThreadStart, SendShort, FreeInfo, kernel
  <2>2. CASE Recv(t) \/ RecvStops(t) \/ SendError(t)
    BY <1>1, <2>2, CallUnseen DEF Recv, RecvStops, SendError
  <2>3. CASE Send(t)
    BY <2>3, SendSeen
  <2>4. CASE SendKills(t)
    BY <1>1, <2>4, CloseAllInv, ClosingLeaves DEF SendKills, Terminate
  <2>5. CASE CloseClient(t)
    BY <1>1, <2>5, CloseFdInv, ClosingLeaves DEF CloseClient
  <2> QED
    BY <1>6, <2>1, <2>2, <2>3, <2>4, <2>5 DEF Thread
<1> QED
  BY <1>2, <1>3, <1>4, <1>5, <1>6 DEF Next

\* The multithreaded server implements the echo service: every step of main,
\* of a thread, of a client or of the network is a step of the service or one
\* that nobody outside sees.
THEOREM Refinement == Spec => ImplementsEchoService
BY InitRefines, StepRefines, AlwaysStreams, PTL
   DEF Spec, ImplementsEchoService, Service!Spec
=============================================================================
