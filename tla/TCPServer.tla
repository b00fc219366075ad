------------------------------ MODULE TCPServer ------------------------------
(***************************************************************************)
(* class TCPServer of socket_examples_cpp.cpp, with the Socket objects it  *)
(* moves around: run() accepts connections and starts a std::thread for    *)
(* each one; stop(), called by another thread or by the destructor, clears *)
(* running, shuts the listening socket down and joins the threads.         *)
(***************************************************************************)
EXTENDS EchoServer

CONSTANTS
    Threads,    \* threads the system lets the process create
    Faults,     \* calls that may fail though their resource is not used up
    StopCalled  \* does another thread of the program call stop()?

ASSUME ServerAssumption ==
    /\ IsFiniteSet(Threads)
    /\ Faults \subseteq {"socket", "accept", "thread"}
    /\ StopCalled \in BOOLEAN

VARIABLES
    pc,         \* where the thread of run() and of the destructor is
    client_fd,  \* the fd of the local Socket client
    client_ip,  \* whose address the local array client_ip holds
    running,
    mutex,      \* who holds thread_mutex
    threads,    \* the vector, in the order of emplace_back()
    thr,        \* thr[t]: thread t with its Socket and its strings
    stop,       \* stop[p]: where p is in stop()
    index       \* index[p]: the iterator of the join loop of p

process ==
    <<pc, client_fd, client_ip, running, mutex, threads, thr, stop, index>>
vars == <<kernel, process>>

Stoppers == {"main", "other"}

ThreadState ==
    [st : {"none", "convert", "recv", "send", "sending", "close", "exited",
           "joined"},
     client_fd : Fds, ip : Clients \cup {"garbage"}, unsent : Seq(Bytes)]

TypeOK ==
    /\ KernelTypeOK
    /\ pc \in {"start", "set_running", "test", "accept", "name", "lock",
               "emplace", "dtor", "destroying", "ended", "killed"}
    /\ client_fd \in Fds
    /\ client_ip \in Clients \cup {"garbage"}
    /\ running \in BOOLEAN
    /\ mutex \in Stoppers \cup {"free"}
    /\ threads \in Seq(Threads)
    /\ thr \in [Threads -> ThreadState]
    /\ stop \in [Stoppers -> {"idle", "flag", "shutdown", "lock", "join", "done"}]
    /\ index \in [Stoppers -> 1..(Cardinality(Threads) + 1)]

Init ==
    /\ KernelInit
    /\ pc = "start"
    /\ \E f \in Fds :
          /\ client_fd = f
          /\ thr = [t \in Threads |-> [st |-> "none", client_fd |-> f,
                                       ip |-> "garbage", unsent |-> <<>>]]
    /\ client_ip = "garbage"
    /\ running = FALSE
    /\ mutex = "free"
    /\ threads = <<>>
    /\ stop = [p \in Stoppers |-> "idle"]
    /\ index = [p \in Stoppers |-> 1]

Alive == pc \notin {"ended", "killed"}

\* The locals of run(), and of the two calls of stop().
frame == <<client_fd, client_ip>>
stops == <<stop, index>>

Terminate(label) ==
    /\ CloseAll
    /\ pc' = label
    /\ UNCHANGED <<frame, running, mutex, threads, thr, stops>>

-----------------------------------------------------------------------------
(* start() and run()                                                       *)

RunStep(from, to) == pc = from /\ pc' = to /\ UNCHANGED stops

Start ==
    /\ RunStep("start", "set_running")
    /\ \E f \in Fds : Listen(f)
    /\ UNCHANGED <<frame, running, mutex, threads, thr>>

\* start() throws out of run(); the destructor follows.
StartFails ==
    /\ RunStep("start", "dtor")
    /\ "socket" \in Faults
    /\ UNCHANGED <<frame, running, mutex, threads, thr, kernel>>

SetRunning ==
    /\ RunStep("set_running", "test")
    /\ running' = TRUE
    /\ UNCHANGED <<frame, mutex, threads, thr, kernel>>

\* When run() returns its stack frame is given up.
LoopTest ==
    /\ IF running THEN RunStep("test", "accept") /\ UNCHANGED client_ip
                  ELSE RunStep("test", "dtor") /\ client_ip' = "garbage"
    /\ UNCHANGED <<client_fd, running, mutex, threads, thr, kernel>>

AcceptClient ==
    /\ RunStep("accept", "name")
    /\ \E f \in Fds : Accept(f) /\ client_fd' = f
    /\ UNCHANGED <<client_ip, running, mutex, threads, thr>>

AcceptFaulty == "accept" \in Faults \/ NoFreeFd \/ ~Listening

\* Seeded fault: the result of accept() is not checked.
AcceptUnchecked ==
    /\ RunStep("accept", "name")
    /\ AcceptFaulty
    /\ client_fd' = -1
    /\ UNCHANGED <<client_ip, running, mutex, threads, thr, kernel>>

\* The exception is caught and reported, and the loop goes on.
AcceptThrows ==
    /\ RunStep("accept", "test")
    /\ AcceptFaulty
    /\ UNCHANGED <<frame, running, mutex, threads, thr, kernel>>

NameClient ==
    /\ RunStep("name", "lock")
    /\ client_ip' = fdtab[client_fd]
    /\ UNCHANGED <<client_fd, running, mutex, threads, thr, kernel>>

LockVector ==
    /\ RunStep("lock", "emplace")
    /\ mutex = "free"
    /\ mutex' = "main"
    /\ UNCHANGED <<frame, running, threads, thr, kernel>>

StartThread(t) ==
    /\ thr[t].st = "none"
    /\ thr' = [thr EXCEPT ![t] = [@ EXCEPT !.st = "convert", !.client_fd = client_fd]]
    /\ threads' = Append(threads, t)

\* Seeded fault: the mutex is locked by hand and never unlocked.
EmplaceKeepsMutex ==
    /\ RunStep("emplace", "test")
    /\ \E t \in Threads : StartThread(t)
    /\ UNCHANGED <<frame, running, mutex, kernel>>

\* Seeded fault: Socket can be copied, and the local copy closes the socket.
EmplaceCopies ==
    /\ RunStep("emplace", "test")
    /\ \E t \in Threads : StartThread(t)
    /\ CloseFd(client_fd)
    /\ mutex' = "free"
    /\ UNCHANGED <<frame, running>>

\* The Socket moves into the thread; of client_ip it gets the address only.
Emplace ==
    /\ RunStep("emplace", "test")
    /\ \E t \in Threads : StartThread(t)
    /\ mutex' = "free"
    /\ UNCHANGED <<frame, running, kernel>>

NoThreadLeft == "thread" \in Faults \/ \A t \in Threads : thr[t].st # "none"

\* Seeded fault: the descriptor is a plain int that nobody closes.
EmplaceThrowsLeaks ==
    /\ RunStep("emplace", "dtor")
    /\ NoThreadLeft
    /\ client_ip' = "garbage"
    /\ mutex' = "free"
    /\ UNCHANGED <<client_fd, running, threads, thr, kernel>>

\* std::system_error is no SocketException: it closes the client, unlocks the
\* mutex and leaves run().
EmplaceThrows ==
    /\ RunStep("emplace", "dtor")
    /\ NoThreadLeft
    /\ CloseFd(client_fd)
    /\ client_ip' = "garbage"
    /\ mutex' = "free"
    /\ UNCHANGED <<client_fd, running, threads, thr>>

Run ==
    \/ Start
    \/ StartFails
    \/ SetRunning
    \/ LoopTest
    \/ AcceptClient
    \/ AcceptThrows
    \/ NameClient
    \/ LockVector
    \/ Emplace
    \/ EmplaceThrows

-----------------------------------------------------------------------------
(* stop(), and the destructor that calls it.                               *)

InStop(p, from, to) ==
    /\ stop[p] = from
    /\ stop' = [stop EXCEPT ![p] = to]
    /\ UNCHANGED <<frame, threads>>

\* A program that calls stop() does not destroy the server meanwhile.
CallStop ==
    /\ StopCalled
    /\ pc \notin {"dtor", "destroying", "ended", "killed"}
    /\ InStop("other", "idle", "flag")
    /\ UNCHANGED <<pc, running, mutex, thr, index, kernel>>

Destroying(to) ==
    /\ pc = "dtor" /\ pc' = "destroying"
    /\ stop["other"] \in {"idle", "done"}
    /\ InStop("main", "idle", to)
    /\ UNCHANGED <<running, mutex, thr, index, kernel>>

\* Seeded fault: the destructor does not call stop().
DestroyAtOnce == Destroying("done")

Destroy == Destroying("flag")

\* Seeded fault: stop() forgets to clear running.
StopFlagForgotten(p) ==
    /\ InStop(p, "flag", "shutdown")
    /\ UNCHANGED <<pc, running, mutex, thr, index, kernel>>

StopFlag(p) ==
    /\ InStop(p, "flag", "shutdown")
    /\ running' = FALSE
    /\ UNCHANGED <<pc, mutex, thr, index, kernel>>

\* Without a listening socket yet, shutdown() does nothing.
StopShutdown(p) ==
    /\ InStop(p, "shutdown", "lock")
    /\ ShutdownListener
    /\ UNCHANGED <<pc, running, mutex, thr, index>>

StopLock(p) ==
    /\ InStop(p, "lock", "join")
    /\ mutex = "free"
    /\ mutex' = p
    /\ index' = [index EXCEPT ![p] = 1]
    /\ UNCHANGED <<pc, running, thr, kernel>>

\* Threads joined by an earlier stop() are not joinable any more.
StopJoin(p) ==
    /\ InStop(p, "join", "join")
    /\ index[p] <= Len(threads)
    /\ thr[threads[index[p]]].st \in {"exited", "joined"}
    /\ thr' = [thr EXCEPT ![threads[index[p]]].st = "joined"]
    /\ index' = [index EXCEPT ![p] = @ + 1]
    /\ UNCHANGED <<pc, running, mutex, kernel>>

StopUnlock(p) ==
    /\ InStop(p, "join", "done")
    /\ index[p] > Len(threads)
    /\ mutex' = "free"
    /\ UNCHANGED <<pc, running, thr, index, kernel>>

StopStep(p) ==
    \/ StopFlag(p)
    \/ StopShutdown(p)
    \/ StopLock(p)
    \/ StopJoin(p)
    \/ StopUnlock(p)

\* main() returns: the listening socket is closed with everything else.
End ==
    /\ pc = "destroying"
    /\ stop["main"] = "done"
    /\ Terminate("ended")

-----------------------------------------------------------------------------
(* The client threads: handle_client() and handle_client_impl().           *)

\* Thread t goes on to a place, with what is left to send.
Goto(t, to, unsent) == thr' = [thr EXCEPT ![t] = [@ EXCEPT !.st = to, !.unsent = unsent]]

InThread(t, from) ==
    /\ thr[t].st = from
    /\ UNCHANGED <<pc, frame, running, mutex, threads, stops>>

\* The std::string is made here, from the array in the frame of run().
Convert(t) ==
    /\ InThread(t, "convert")
    /\ thr' = [thr EXCEPT ![t] = [@ EXCEPT !.st = "recv", !.ip = client_ip]]
    /\ UNCHANGED kernel

\* Seeded fault: the buffer is kept and sent again with what follows.
RecvAppends(t) ==
    /\ InThread(t, "recv")
    /\ RecvData(thr[t].client_fd)
    /\ LET got == RecvBytes(thr[t].client_fd) IN Goto(t, "send", got \o got)

Recv(t) ==
    /\ InThread(t, "recv")
    /\ RecvData(thr[t].client_fd)
    /\ Goto(t, "send", RecvBytes(thr[t].client_fd))

\* 0, or -1 and a SocketException that handle_client_impl() catches.
RecvStops(t) ==
    /\ InThread(t, "recv")
    /\ RecvEnds(thr[t].client_fd)
    /\ Goto(t, "close", <<>>)

Send(t) ==
    /\ InThread(t, "send") \/ InThread(t, "sending")
    /\ \E rest \in {<<>>, Tail(thr[t].unsent)} :
          /\ SendStep(thr[t].client_fd, thr[t].unsent, rest, thr[t].st = "sending")
          /\ Goto(t, IF rest = <<>> THEN "recv" ELSE "sending", rest)

SendThrows(t) ==
    /\ InThread(t, "send")
    /\ SendFails(thr[t].client_fd)
    /\ Goto(t, "close", <<>>)

SendKills(t) ==
    /\ thr[t].st = "send"
    /\ SendRaisesSigpipe(thr[t].client_fd)
    /\ Terminate("killed")

\* The destructor of the parameter client.
CloseClient(t) ==
    /\ InThread(t, "close")
    /\ CloseFd(thr[t].client_fd)
    /\ Goto(t, "exited", <<>>)

Thread(t) ==
    /\ Alive
    /\ \/ Convert(t)
       \/ Recv(t)
       \/ RecvStops(t)
       \/ Send(t)
       \/ SendThrows(t)
       \/ SendKills(t)
       \/ CloseClient(t)

Environment == UNCHANGED process /\ \E c \in Clients : ClientStep(c)

Stopping == Alive /\ \E p \in Stoppers : StopStep(p)

Next ==
    \/ Run
    \/ CallStop
    \/ Destroy
    \/ Stopping
    \/ End
    \/ \E t \in Threads : Thread(t)
    \/ Environment

Spec == Init /\ [][Next]_vars

\* Every thread is scheduled, the network delivers resets, and patient clients
\* read on and leave once all is echoed.
Fairness ==
    /\ WF_vars(Run)
    /\ WF_vars(Destroy)
    /\ WF_vars(End)
    /\ \A p \in Stoppers : WF_vars(Alive /\ StopStep(p))
    /\ \A t \in Threads : WF_vars(Thread(t))
    /\ \A c \in Clients : WF_vars(UNCHANGED process /\ ResetArrives(c))
    /\ \A c \in Patient : WF_vars(UNCHANGED process /\ ClientRecv(c))
    /\ \A c \in Patient : WF_vars(UNCHANGED process /\ ClientClose(c))

FairSpec == Spec /\ Fairness

-----------------------------------------------------------------------------
(* Properties.                                                             *)

Serving == {t \in Threads :
              thr[t].st \in {"convert", "recv", "send", "sending", "close"}}
Accepted == pc \in {"name", "lock", "emplace"}

\* Each open connection belongs to exactly one Socket, the local one of run()
\* or that of one thread, through every move, exception and destructor
\* (lines 58-85, 308-325, 351-357).
FdOwnership ==
    Alive =>
       /\ \A t \in Serving : Connected(thr[t].client_fd)
       /\ Accepted => Connected(client_fd)
       /\ \A t, u \in Serving : thr[t].client_fd = thr[u].client_fd => t = u
       /\ Accepted => \A t \in Serving : thr[t].client_fd # client_fd
       /\ \A f \in Fds : Connected(f) =>
             \/ Accepted /\ client_fd = f
             \/ \E t \in Serving : thr[t].client_fd = f

\* While the process lives a connection is closed only after the client closed
\* it, with every byte of an orderly leaver echoed, or for want of a thread
\* (lines 318-325, 334-348).
CloseIsJustified ==
    [][\A c \in Clients :
         conn[c].sv = "accepted" /\ conn'[c].sv = "closed" /\ Alive' =>
            \/ pc = "emplace" /\ pc' = "dtor" /\ fdtab[client_fd] = c
            \/ /\ conn[c].cl = "closed"
               /\ conn[c].rst = "no" => Len(conn[c].echo) = conn[c].sent]_vars

\* No thread runs in a destroyed server: the destructor joins also the thread
\* that run() started behind the back of an earlier stop() (lines 261-298).
NoThreadOutlives ==
    pc = "ended" => \A t \in Threads : thr[t].st \in {"none", "joined"}

\* If the clients leave, stop() comes back: the mutex it needs is never held
\* by a run() that waits for something (lines 285-298, 318-325).
StopCompletes == stop["other"] = "flag" ~> stop["other"] = "done"

\* If the clients leave, a stop() that finds the server running ends run() and
\* then the server (lines 285-287, 303-326).
StopEndsRun == stop["other"] = "flag" /\ running ~> pc = "ended"

\* handle_client_impl() is given the address of its own client (lines 311-321,
\* 331-347).
OwnAddress ==
    \A t \in Serving : thr[t].st # "convert" /\ Alive =>
       thr[t].ip = fdtab[thr[t].client_fd]

=============================================================================
