----------------------- MODULE MultithreadedEchoServer -----------------------
(***************************************************************************)
(* multithreaded_echo_server() and handle_client() of socket_examples_c.c: *)
(* main allocates a client_info_t, accepts a connection into it and hands  *)
(* both to a new detached thread, which echoes until the client leaves,    *)
(* closes the descriptor and frees the block.                              *)
(***************************************************************************)
EXTENDS EchoServer

CONSTANTS
    Threads,    \* thread ids pthread_create() can give out
    Blocks,     \* client_info_t blocks malloc() can give out
    Faults      \* calls that may fail though their resource is not used up

ASSUME FaultsAssumption ==
    Faults \subseteq {"socket", "malloc", "accept", "pthread_create"}

VARIABLES
    pc,         \* where main is in multithreaded_echo_server()
    info,       \* main's local info
    client_fd,  \* main's local client_fd
    thread_id,  \* main's local thread_id
    heap,       \* heap[b]: is block b allocated, and its client_fd field
    thr         \* thr[t]: thread t with its locals

process == <<pc, info, client_fd, thread_id, heap, thr>>
vars == <<kernel, process>>

MainLabels == {"start", "malloc", "accept", "create", "detach",
               "returned", "killed"}

\* "send": in send() with no byte taken yet; "sending": after the first.
\* unsent: the part of the local buffer that send() has not taken yet.
ThreadLabels == {"none", "start", "recv", "send", "sending",
                 "close", "free", "exited"}

ThreadState == [st : ThreadLabels, arg : Blocks, client_fd : Fds,
                unsent : Seq(Bytes), detached : BOOLEAN]

TypeOK ==
    /\ KernelTypeOK
    /\ pc \in MainLabels
    /\ info \in Blocks
    /\ client_fd \in Fds
    /\ thread_id \in Threads
    /\ heap \in [Blocks -> [used : BOOLEAN, client_fd : Fds]]
    /\ thr \in [Threads -> ThreadState]

NewThread(b, f) == [st |-> "start", arg |-> b, client_fd |-> f,
                    unsent |-> <<>>, detached |-> FALSE]

\* Uninitialised memory and locals hold some value of their type.
Init ==
    /\ KernelInit
    /\ pc = "start"
    /\ \E b \in Blocks, f \in Fds, t \in Threads :
          /\ info = b
          /\ client_fd = f
          /\ thread_id = t
          /\ heap = [x \in Blocks |-> [used |-> FALSE, client_fd |-> f]]
          /\ thr = [x \in Threads |-> [NewThread(b, f) EXCEPT !.st = "none"]]

Running == pc \notin {"start", "returned", "killed"}

\* The process and everything in it is gone.
Terminate(label) ==
    /\ CloseAll
    /\ pc' = label
    /\ heap' = [b \in Blocks |-> [heap[b] EXCEPT !.used = FALSE]]
    /\ thr' = [t \in Threads |-> [thr[t] EXCEPT !.st = "none"]]
    /\ UNCHANGED <<info, client_fd, thread_id>>

-----------------------------------------------------------------------------
(* The main thread.                                                        *)

Start ==
    /\ pc = "start"
    /\ \E f \in Fds : Listen(f)
    /\ pc' = "malloc"
    /\ UNCHANGED <<info, client_fd, thread_id, heap, thr>>

\* socket(), bind() or listen() fails: the function returns.
StartFails ==
    /\ pc = "start"
    /\ "socket" \in Faults
    /\ Terminate("returned")

Malloc ==
    /\ pc = "malloc"
    /\ \E b \in Blocks :
          /\ ~heap[b].used
          /\ heap' = [heap EXCEPT ![b].used = TRUE]
          /\ info' = b
    /\ pc' = "accept"
    /\ UNCHANGED <<client_fd, thread_id, thr, kernel>>

\* Out of memory: complain and try again.
MallocFails ==
    /\ pc = "malloc"
    /\ "malloc" \in Faults \/ \A b \in Blocks : heap[b].used
    /\ UNCHANGED vars

AcceptClient ==
    /\ pc = "accept"
    /\ \E f \in Fds :
          /\ Accept(f)
          /\ client_fd' = f
          /\ heap' = [heap EXCEPT ![info].client_fd = f]
    /\ pc' = "create"
    /\ UNCHANGED <<info, thread_id, thr>>

\* Seeded fault: the result of accept() is not checked.
AcceptFailsUnchecked ==
    /\ pc = "accept"
    /\ "accept" \in Faults \/ NoFreeFd
    /\ client_fd' = -1
    /\ pc' = "create"
    /\ UNCHANGED <<info, thread_id, heap, thr, kernel>>

\* Seeded fault: the block is not freed when accept() fails.
AcceptFailsLeaks ==
    /\ pc = "accept"
    /\ "accept" \in Faults \/ NoFreeFd
    /\ pc' = "malloc"
    /\ UNCHANGED <<info, client_fd, thread_id, heap, thr, kernel>>

\* accept() = -1, with EMFILE even when nobody is waiting: free the block.
AcceptFails ==
    /\ pc = "accept"
    /\ "accept" \in Faults \/ NoFreeFd
    /\ heap' = [heap EXCEPT ![info].used = FALSE]
    /\ pc' = "malloc"
    /\ UNCHANGED <<info, client_fd, thread_id, thr, kernel>>

CreateThread ==
    /\ pc = "create"
    /\ \E t \in Threads :
          /\ thr[t].st = "none"
          /\ thr' = [thr EXCEPT ![t] = NewThread(info, @.client_fd)]
          /\ thread_id' = t
    /\ pc' = "detach"
    /\ UNCHANGED <<info, client_fd, heap, kernel>>

\* Seeded fault: the connection is not closed when no thread can be created.
CreateFailsLeaks ==
    /\ pc = "create"
    /\ "pthread_create" \in Faults \/ \A t \in Threads : thr[t].st # "none"
    /\ heap' = [heap EXCEPT ![info].used = FALSE]
    /\ pc' = "malloc"
    /\ UNCHANGED <<info, client_fd, thread_id, thr, kernel>>

\* pthread_create() # 0: close the descriptor and free the block.
CreateFails ==
    /\ pc = "create"
    /\ "pthread_create" \in Faults \/ \A t \in Threads : thr[t].st # "none"
    /\ CloseFd(client_fd)
    /\ heap' = [heap EXCEPT ![info].used = FALSE]
    /\ pc' = "malloc"
    /\ UNCHANGED <<info, client_fd, thread_id, thr>>

\* Seeded fault: the thread is not detached.
DetachOmitted ==
    /\ pc = "detach"
    /\ pc' = "malloc"
    /\ UNCHANGED <<info, client_fd, thread_id, heap, thr, kernel>>

\* Seeded fault: pthread_join() in place of pthread_detach().
DetachJoins ==
    /\ pc = "detach"
    /\ thr[thread_id].st = "exited"
    /\ thr' = [thr EXCEPT ![thread_id].st = "none"]
    /\ pc' = "malloc"
    /\ UNCHANGED <<info, client_fd, thread_id, heap, kernel>>

\* Seeded fault: main closes its copy of the descriptor, as after fork().
DetachCloses ==
    /\ pc = "detach"
    /\ CloseFd(client_fd)
    /\ thr' = [thr EXCEPT ![thread_id].detached = TRUE]
    /\ pc' = "malloc"
    /\ UNCHANGED <<info, client_fd, thread_id, heap>>

\* pthread_detach(); the thread may be over already, and is reclaimed here.
Detach ==
    /\ pc = "detach"
    /\ thr' = [thr EXCEPT ![thread_id] =
                 IF @.st = "exited" THEN [@ EXCEPT !.st = "none"]
                                    ELSE [@ EXCEPT !.detached = TRUE]]
    /\ pc' = "malloc"
    /\ UNCHANGED <<info, client_fd, thread_id, heap, kernel>>

Main ==
    \/ Start
    \/ StartFails
    \/ Malloc
    \/ MallocFails
    \/ AcceptClient
    \/ AcceptFails
    \/ CreateThread
    \/ CreateFails
    \/ Detach

-----------------------------------------------------------------------------
(* The client threads: handle_client().                                    *)

Goto(t, label) == thr' = [thr EXCEPT ![t].st = label]

\* Seeded fault: the thread is passed the address of main's client_fd.
ThreadStartShared(t) ==
    /\ thr[t].st = "start"
    /\ thr' = [thr EXCEPT ![t] = [@ EXCEPT !.st = "recv", !.client_fd = client_fd]]
    /\ UNCHANGED <<pc, info, client_fd, thread_id, heap, kernel>>

ThreadStart(t) ==
    /\ thr[t].st = "start"
    /\ thr' = [thr EXCEPT ![t] =
                  [@ EXCEPT !.st = "recv",
                            !.client_fd = heap[thr[t].arg].client_fd]]
    /\ UNCHANGED <<pc, info, client_fd, thread_id, heap, kernel>>

\* Seeded fault: the whole buffer is sent back and not the n bytes received.
RecvWholeBuffer(t) ==
    /\ thr[t].st = "recv"
    /\ RecvData(thr[t].client_fd)
    /\ LET got == RecvBytes(thr[t].client_fd)
       IN  thr' = [thr EXCEPT ![t] =
                     [@ EXCEPT !.st = "send",
                               !.unsent = [k \in 1..BufSize |->
                                  IF k <= Len(got) THEN got[k] ELSE got[1]]]]
    /\ UNCHANGED <<pc, info, client_fd, thread_id, heap>>

Recv(t) ==
    /\ thr[t].st = "recv"
    /\ RecvData(thr[t].client_fd)
    /\ thr' = [thr EXCEPT ![t] =
                  [@ EXCEPT !.st = "send",
                            !.unsent = RecvBytes(thr[t].client_fd)]]
    /\ UNCHANGED <<pc, info, client_fd, thread_id, heap>>

\* Seeded fault: the loop runs while recv() is not -1 and spins at the end.
RecvStopsOnErrorOnly(t) ==
    /\ thr[t].st = "recv"
    /\ RecvEnds(thr[t].client_fd)
    /\ conn' # conn
    /\ Goto(t, "close")
    /\ UNCHANGED <<pc, info, client_fd, thread_id, heap>>

RecvStops(t) ==
    /\ thr[t].st = "recv"
    /\ RecvEnds(thr[t].client_fd)
    /\ Goto(t, "close")
    /\ UNCHANGED <<pc, info, client_fd, thread_id, heap>>

\* One byte of the blocking send(); the last one ends the call.
Send(t) ==
    /\ thr[t].st \in {"send", "sending"}
    /\ SendByte(thr[t].client_fd, Head(thr[t].unsent))
    /\ thr' = [thr EXCEPT ![t] =
                  [@ EXCEPT !.st = IF Len(thr[t].unsent) = 1
                                   THEN "recv"
                                   ELSE "sending",
                            !.unsent = Tail(thr[t].unsent)]]
    /\ UNCHANGED <<pc, info, client_fd, thread_id, heap>>

\* The code looks only for -1: a short count goes on as a success.
SendShort(t) ==
    /\ thr[t].st = "sending"
    /\ SendCutShort(thr[t].client_fd)
    /\ thr' = [thr EXCEPT ![t] = [@ EXCEPT !.st = "recv", !.unsent = <<>>]]
    /\ UNCHANGED <<pc, info, client_fd, thread_id, heap, kernel>>

SendError(t) ==
    /\ thr[t].st = "send"
    /\ SendFails(thr[t].client_fd)
    /\ thr' = [thr EXCEPT ![t] = [@ EXCEPT !.st = "close", !.unsent = <<>>]]
    /\ UNCHANGED <<pc, info, client_fd, thread_id, heap>>

\* SIGPIPE is neither ignored nor suppressed: all threads die with this one.
SendKills(t) ==
    /\ thr[t].st = "send"
    /\ SendRaisesSigpipe(thr[t].client_fd)
    /\ Terminate("killed")

CloseClient(t) ==
    /\ thr[t].st = "close"
    /\ CloseFd(thr[t].client_fd)
    /\ Goto(t, "free")
    /\ UNCHANGED <<pc, info, client_fd, thread_id, heap>>

FreeInfo(t) ==
    /\ thr[t].st = "free"
    /\ heap' = [heap EXCEPT ![thr[t].arg].used = FALSE]
    /\ Goto(t, IF thr[t].detached THEN "none" ELSE "exited")
    /\ UNCHANGED <<pc, info, client_fd, thread_id, kernel>>

Thread(t) ==
    \/ ThreadStart(t)
    \/ Recv(t)
    \/ RecvStops(t)
    \/ Send(t)
    \/ SendShort(t)
    \/ SendError(t)
    \/ SendKills(t)
    \/ CloseClient(t)
    \/ FreeInfo(t)

Environment == UNCHANGED process /\ \E c \in Clients : ClientStep(c)

Next ==
    \/ Main
    \/ \E t \in Threads : Thread(t)
    \/ Environment

Spec == Init /\ [][Next]_vars

\* The scheduler runs main and every thread, the network delivers resets, and
\* only patient clients are bound to read on.
Fairness ==
    /\ WF_vars(Main)
    /\ \A t \in Threads : WF_vars(Thread(t))
    /\ \A c \in Clients : WF_vars(UNCHANGED process /\ ResetArrives(c))
    /\ \A c \in Patient : WF_vars(UNCHANGED process /\ ClientRecv(c))

FairSpec == Spec /\ Fairness

-----------------------------------------------------------------------------
(* Properties.                                                             *)

\* Threads that have a connection, the descriptor of theirs, and threads that
\* have a block.
Serving == {t \in Threads :
              thr[t].st \in {"start", "recv", "send", "sending", "close"}}
FdOf(t) == IF thr[t].st = "start" THEN heap[thr[t].arg].client_fd
                                  ELSE thr[t].client_fd
Holding == {t \in Threads : thr[t].st \notin {"none", "exited"}}

\* Every open connection descriptor belongs to exactly one of main and the
\* threads, and what they believe to own is open: none leaks when accept,
\* malloc or pthread_create fails, and none is closed twice or used after
\* its number was given to another connection (lines 277-296, 229).
FdOwnership ==
    /\ \A t \in Serving : Connected(FdOf(t))
    /\ pc = "create" => Connected(client_fd)
    /\ \A t, u \in Serving : FdOf(t) = FdOf(u) => t = u
    /\ pc = "create" => \A t \in Serving : FdOf(t) # client_fd
    /\ \A f \in Fds : Connected(f) =>
          \/ pc = "create" /\ client_fd = f
          \/ \E t \in Serving : FdOf(t) = f

\* Every client_info_t is freed exactly once, by main on its error paths or
\* by the thread it was passed to, and not before its last use
\* (lines 270, 281, 292, 230).
BlockOwnership ==
    /\ pc \in {"accept", "create"} => heap[info].used
    /\ \A t \in Holding : heap[thr[t].arg].used
    /\ \A t, u \in Holding : thr[t].arg = thr[u].arg => t = u
    /\ pc \in {"accept", "create"} => \A t \in Holding : thr[t].arg # info
    /\ \A b \in Blocks : heap[b].used =>
          \/ pc \in {"accept", "create"} /\ info = b
          \/ \E t \in Holding : thr[t].arg = b

\* A thread that nobody will detach or join again leaves nothing behind, even
\* one that ends before main detaches it (line 295).
ThreadsReclaimed ==
    \A t \in Threads :
       thr[t].st # "none" /\ ~thr[t].detached => pc = "detach" /\ thread_id = t

\* While the server runs it closes a connection only after the client closed
\* it, with every byte of an orderly leaver echoed, or for want of a thread
\* (lines 220-229, 291).
JustifiedClose ==
    \A c \in Clients :
       conn[c].sv = "accepted" /\ conn'[c].sv = "closed" /\ Running' =>
          \/ pc = "create" /\ fdtab[client_fd] = c
          \/ /\ conn[c].cl = "closed"
             /\ conn[c].rst = "no" => Len(conn[c].echo) = conn[c].sent

CloseIsJustified == [][JustifiedClose]_vars

=============================================================================
