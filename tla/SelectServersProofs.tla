------------------------- MODULE SelectServersProofs -------------------------
(***************************************************************************)
(* select_based_server() and SelectEchoServer, proved together for any     *)
(* number of clients and any length of the table: the invariant allows     *)
(* what either of the two does in each step.                               *)
(***************************************************************************)
EXTENDS MCOneThread, TcpSocketProofs

Forgets ==
    /\ Accepting
    /\ \E f \in Fds : Accept(f)
    /\ Len(clients) = FdSetSize
    /\ UNCHANGED clients

Refuses ==
    /\ Accepting
    /\ \E c \in Pending : conn' = [conn EXCEPT ![c].sv = "closed"]
    /\ UNCHANGED <<clients, fdtab>>

Without(k) == SubSeq(clients, 1, k - 1) \o SubSeq(clients, k + 1, Len(clients))

Removes ==
    /\ Step("remove", "scan")
    /\ CloseFd(clients[i])
    /\ \/ clients' = Without(i) /\ i' = i
       \/ clients' = [clients EXCEPT ![i] = -1] /\ i' = i + 1
    /\ UNCHANGED <<listen_fd, read_set, unsent>>

SendFailed ==
    /\ pc = "send"
    /\ SendFails(clients[i])
    /\ unsent' = <<>>
    /\ \/ pc' = "scan" /\ i' = i + 1
       \/ pc' = "remove" /\ i' = i
    /\ UNCHANGED <<listen_fd, clients, read_set>>

\* The loop is left, for the place of either server that closes its sockets.
LoopFails == SelectFails("close_listener") \/ SelectFails("unwind")

ListenerCloses ==
    /\ \/ Step("close_listener", "close_clients")
       \/ Step("unwind", "returned") /\ i > Len(clients)
    /\ CloseFd(listen_fd)
    /\ UNCHANGED <<listen_fd, clients, read_set, i, unsent>>

ClientsGone ==
    /\ Step("close_clients", "returned")
    /\ i > Len(clients)
    /\ UNCHANGED <<listen_fd, clients, read_set, i, unsent, kernel>>

SelectNext ==
    \/ Loop
    \/ Forgets \/ Refuses
    \/ Removes
    \/ SendFailed
    \/ LoopFails \/ ListenerCloses \/ ClientsGone
    \/ Environment

SelectSpec == Init /\ [][SelectNext]_vars

-----------------------------------------------------------------------------
(* Both servers are this one.                                              *)

LEMMA ArrayLoop == Array!Loop => Loop
BY DEF Array!Loop, Loop,
   Array!Start, Start, Array!StartFails, StartFails, Array!BuildReadSet,
   BuildReadSet,
   Array!BuildCorruptsStack, BuildCorruptsStack, Array!SelectReady, SelectReady,
   Array!SelectTimeout, SelectTimeout, Array!CloseClient, CloseClient,
   Array!MainEnds, MainEnds, Array!CloseFd, CloseFd,
   Array!AcceptClient, AcceptClient, Array!AcceptNothing, AcceptNothing,
   Array!ScanSkips, ScanSkips, Array!ScanEnds, ScanEnds, Array!ScanRecv,
   ScanRecv,
   Array!ScanRecvEnds, ScanRecvEnds, Array!Send, Send, Array!SendKills,
   SendKills,
   Array!Step, Step, Array!Terminate, Terminate, Array!Accepting, Accepting,
   Array!Valid, Valid, Array!Tracked, Tracked, Array!Scanned, Scanned,
   Array!Readable, Readable, Array!Pending, Pending, Array!Connected, Connected,
   Array!Available, Available, Array!RecvCount, RecvCount, Array!RecvBytes,
   RecvBytes,
   Array!RecvData, RecvData, Array!RecvEnds, RecvEnds, Array!SendStep, SendStep,
   Array!SendByte, SendByte, Array!SendCutShort, SendCutShort, Array!Unread,
   Unread,
   Array!SendRaisesSigpipe, SendRaisesSigpipe, Array!CloseAll, CloseAll,
   Array!Listen, Listen, Array!Accept, Accept, Array!LowestFree, LowestFree,
   Array!Listening, Listening, Array!NoFreeFd, NoFreeFd, Array!Fds, Fds,
   Array!kernel, kernel

LEMMA VectorLoop == Vector!Loop => Loop
BY DEF Vector!Loop, Loop,
   Vector!Start, Start, Vector!StartFails, StartFails, Vector!BuildReadSet,
   BuildReadSet,
   Vector!BuildCorruptsStack, BuildCorruptsStack, Vector!SelectReady,
   SelectReady,
   Vector!SelectTimeout, SelectTimeout, Vector!CloseClient, CloseClient,
   Vector!MainEnds, MainEnds, Vector!CloseFd, CloseFd,
   Vector!AcceptClient, AcceptClient, Vector!AcceptNothing, AcceptNothing,
   Vector!ScanSkips, ScanSkips, Vector!ScanEnds, ScanEnds, Vector!ScanRecv,
   ScanRecv,
   Vector!ScanRecvEnds, ScanRecvEnds, Vector!Send, Send, Vector!SendKills,
   SendKills,
   Vector!Step, Step, Vector!Terminate, Terminate, Vector!Accepting, Accepting,
   Vector!Valid, Valid, Vector!Tracked, Tracked, Vector!Scanned, Scanned,
   Vector!Readable, Readable, Vector!Pending, Pending, Vector!Connected,
   Connected,
   Vector!Available, Available, Vector!RecvCount, RecvCount, Vector!RecvBytes,
   RecvBytes,
   Vector!RecvData, RecvData, Vector!RecvEnds, RecvEnds, Vector!SendStep,
   SendStep,
   Vector!SendByte, SendByte, Vector!SendCutShort, SendCutShort, Vector!Unread,
   Unread,
   Vector!SendRaisesSigpipe, SendRaisesSigpipe, Vector!CloseAll, CloseAll,
   Vector!Listen, Listen, Vector!Accept, Accept, Vector!LowestFree, LowestFree,
   Vector!Listening, Listening, Vector!NoFreeFd, NoFreeFd, Vector!Fds, Fds,
   Vector!kernel, kernel

LEMMA ArrayOwn ==
  /\ Array!AcceptForgets \/ Array!Remove \/ Array!SendError =>
        Forgets \/ Removes \/ SendFailed
  /\ Array!SelectFails("close_listener") => LoopFails
  /\ Array!CloseListener => ListenerCloses
  /\ Array!ClientsClosed => ClientsGone
<1>1. Array!AcceptForgets => Forgets
  BY
     DEF Array!AcceptForgets, Forgets, Array!Accepting, Accepting, Array!Step,
         Step,
     Array!Accept, Accept, Array!LowestFree, LowestFree, Array!Listening,
     Listening,
     Array!Pending, Pending, Array!Fds, Fds
<1>2. Array!Remove => Removes
  BY DEF Array!Remove, Removes, Array!WithoutScanned, Without, Array!Step, Step,
     Array!CloseFd, CloseFd, Array!Fds, Fds
<1>3. Array!SendError => SendFailed
  BY
     DEF Array!SendError, SendFailed, Array!Step, Step, Array!SendFails,
         SendFails,
     Array!Connected, Connected, Array!Fds, Fds
<1>4. Array!SelectFails("close_listener") => LoopFails
  BY DEF Array!SelectFails, LoopFails, SelectFails, Array!Step, Step,
     Array!kernel, kernel
<1>5. Array!CloseListener => ListenerCloses
  BY DEF Array!CloseListener, ListenerCloses, Array!Step, Step, Array!CloseFd,
     CloseFd, Array!Fds, Fds
<1>6. Array!ClientsClosed => ClientsGone
  BY DEF Array!ClientsClosed, ClientsGone, Array!Step, Step, Array!kernel, kernel
<1> QED
  BY <1>1, <1>2, <1>3, <1>4, <1>5, <1>6

LEMMA VectorOwn ==
  /\ Vector!AcceptRefuses \/ Vector!Reset \/ Vector!SendThrows =>
        Refuses \/ Removes \/ SendFailed
  /\ Vector!SelectFails("unwind") => LoopFails
  /\ Vector!CloseListener => ListenerCloses
BY DEF Vector!SelectFails, LoopFails, SelectFails, Vector!CloseListener,
   ListenerCloses, Vector!kernel, kernel, Vector!AcceptRefuses, Refuses, Vector!Reset, Removes, Vector!SendThrows,
   SendFailed, Vector!Step, Step, Vector!Accepting, Accepting, Vector!CloseFd,
   CloseFd, Vector!SendFails, SendFails, Vector!Connected, Connected,
   Vector!Pending, Pending, Vector!Fds, Fds

LEMMA ArrayEnvironment == Array!Environment => Environment
BY DEF Array!Environment, Environment, Array!process, process, Array!ClientStep,
   ClientStep, Array!Connect, Connect, Array!ClientSend, ClientSend,
   Array!ClientRecv, ClientRecv, Array!ClientClose, ClientClose,
   Array!ClientAbort, ClientAbort, Array!ResetArrives, ResetArrives,
   Array!MayClose, MayClose, Array!Unread, Unread, Array!Listening, Listening,
   Array!Fds, Fds

LEMMA ArrayInit == Array!Init => Init
BY DEF Array!Init, Init, Array!KernelInit, KernelInit, Array!Fds, Fds

LEMMA VectorEnvironment == Vector!Environment => Environment
BY
   DEF Vector!Environment, Environment, Vector!process, process,
       Vector!ClientStep,
   ClientStep, Vector!Connect, Connect, Vector!ClientSend, ClientSend,
   Vector!ClientRecv, ClientRecv, Vector!ClientClose, ClientClose,
   Vector!ClientAbort, ClientAbort, Vector!ResetArrives, ResetArrives,
   Vector!MayClose, MayClose, Vector!Unread, Unread, Vector!Listening,
   Listening,
   Vector!Fds, Fds

LEMMA VectorInit == Vector!Init => Init
BY DEF Vector!Init, Init, Vector!KernelInit, KernelInit, Vector!Fds, Fds

LEMMA ArrayImplements == Array!Spec => SelectSpec
<1>1. UNCHANGED Array!vars => UNCHANGED vars
  BY DEF Array!vars, vars, Array!kernel, kernel, Array!process, process
<1>2. Array!Next => SelectNext
  BY ArrayLoop, ArrayOwn, ArrayEnvironment
     DEF Array!Next, Array!Server, SelectNext
<1> QED
  BY <1>1, <1>2, ArrayInit, PTL DEF Array!Spec, SelectSpec

LEMMA VectorImplements == Vector!Spec => SelectSpec
<1>1. UNCHANGED Vector!vars => UNCHANGED vars
  BY DEF Vector!vars, vars, Vector!kernel, kernel, Vector!process, process
<1>2. Vector!Next => SelectNext
  BY VectorLoop, VectorOwn, VectorEnvironment
     DEF Vector!Next, Vector!Server, SelectNext
<1> QED
  BY <1>1, <1>2, VectorInit, PTL DEF Vector!Spec, SelectSpec

-----------------------------------------------------------------------------
(* The invariant.                                                          *)

Sending == pc \in {"send", "sending"}
Scanning == pc \in {"scan", "send", "sending", "remove"}

\* The variables have their types, and the scan is at a client while it serves
\* one.
TypeInv ==
    /\ TypeOK
    /\ Running => listen_fd \in Fds
    /\ Sending \/ pc = "remove" => i \in Valid
    /\ Sending => unsent # <<>>
    /\ pc = "start" => clients = <<>>

\* What the scan has still to look at.
Ahead == {k \in Valid : k > i \/ (pc = "scan" /\ k = i)}

\* What select() found readable stays so until it is looked at.
StillReadable ==
    /\ pc = "accept" => \A f \in read_set : Readable(f)
    /\ Scanning => \A k \in Ahead : clients[k] \in read_set => Readable(clients[k])

\* What the buffer holds for client c.
Waiting(c) == IF Sending /\ fdtab[clients[i]] = c THEN unsent ELSE <<>>

\* Every client is owed what the buffer holds for it, and only a client that
\* left and got everything is removed.
Streams ==
    /\ \A c \in Clients : Prefix(c) /\ InStep(c, Waiting(c))
    /\ pc = "remove" => Settled(fdtab[clients[i]])

\* The only listening socket is the server's own, from listen() to its close().
ListenerKept ==
    /\ \A f \in Fds : fdtab[f] = "listener" => f = listen_fd
    /\ Running \/ pc \in {"close_listener", "unwind"} =>
          listen_fd \in Fds /\ fdtab[listen_fd] = "listener"
    /\ pc \in {"start", "close_clients"} => ~Listening

SelectInv ==
    /\ TypeInv
    /\ KernelInv
    /\ ListenerKept
    /\ SlotsAreConnections
    /\ StillReadable
    /\ Streams

-----------------------------------------------------------------------------
(* The table.                                                              *)

Entries == Fds \cup {-1}

LEMMA AppendedSlots ==
  ASSUME clients \in Seq(Entries), NEW f \in Fds, clients' = Append(clients, f)
  PROVE  /\ clients' \in Seq(Entries)
         /\ Len(clients) \in Nat /\ Len(clients') = Len(clients) + 1
         /\ Valid' = Valid \cup {Len(clients')}
         /\ \A k \in Valid : clients'[k] = clients[k] /\ k \in 1..Len(clients)
         /\ clients'[Len(clients')] = f
<1>1. f \in Entries /\ f # -1
  BY SizesAssumption DEF Entries, Fds
<1>2. /\ clients' \in Seq(Entries) /\ Len(clients) \in Nat
      /\ Len(clients') = Len(clients) + 1
      /\ \A k \in 1..Len(clients) : clients'[k] = clients[k]
      /\ clients'[Len(clients) + 1] = f
  BY <1>1, AppendProperties
<1>3. DOMAIN clients = 1..Len(clients) /\ DOMAIN clients' = 1..Len(clients')
  BY <1>2
<1>4. DOMAIN clients' = 1..Len(clients) \cup {Len(clients) + 1}
  BY <1>2, <1>3
<1> QED
  BY <1>1, <1>2, <1>3, <1>4 DEF Valid

LEMMA WithoutSlots ==
  ASSUME clients \in Seq(Entries), NEW k \in 1..Len(clients)
  PROVE  /\ Without(k) \in Seq(Entries)
         /\ Len(clients) \in Nat /\ Len(Without(k)) = Len(clients) - 1
         /\ \A l \in 1..Len(Without(k)) :
               Without(k)[l] = clients[IF l < k THEN l ELSE l + 1]
<1> DEFINE n == Len(clients)
           a == SubSeq(clients, 1, k - 1)
           b == SubSeq(clients, k + 1, n)
<1>1. n \in Nat /\ k \in 1..n /\ \A l \in 1..n : clients[l] \in Entries
  <2>1. n \in Nat /\ DOMAIN clients = 1..n
    BY LenProperties
  <2> QED
    BY <2>1, ElementOfSeq
<1>2. /\ a \in Seq(Entries) /\ Len(a) = k - 1
      /\ \A l \in 1..(k - 1) : a[l] = clients[l]
  <2> HIDE DEF n
  <2> QED
    BY <1>1, SubSeqProperties
<1>3. /\ b \in Seq(Entries) /\ Len(b) = n - k
      /\ \A l \in 1..(n - k) : b[l] = clients[k + l]
  <2> HIDE DEF n
  <2>1. k + 1 \in Int /\ n \in Int /\ \A l \in (k + 1)..n : clients[l] \in Entries
    BY <1>1
  <2>2. /\ b \in Seq(Entries)
        /\ Len(b) = IF k + 1 <= n THEN n - (k + 1) + 1 ELSE 0
        /\ \A l \in 1..(n - (k + 1) + 1) : b[l] = clients[(k + 1) + l - 1]
    BY <2>1, SubSeqProperties
  <2> HIDE DEF b
  <2>3. Len(b) = n - k
    BY <1>1, <2>2
  <2>4. ASSUME NEW l \in 1..(n - k)
        PROVE  b[l] = clients[k + l]
    <3>1. l \in 1..(n - (k + 1) + 1) /\ (k + 1) + l - 1 = k + l
      BY <1>1
    <3> QED
      BY <3>1, <2>2
  <2> QED
    BY <2>2, <2>3, <2>4
<1> HIDE DEF a, b
<1>4. /\ a \o b \in Seq(Entries) /\ Len(a \o b) = Len(a) + Len(b)
      /\ \A l \in 1..(Len(a) + Len(b)) :
            (a \o b)[l] = IF l <= Len(a) THEN a[l] ELSE b[l - Len(a)]
  BY <1>2, <1>3, ConcatProperties
<1>5. Without(k) = a \o b
  BY DEF Without, a, b
<1>6. ASSUME NEW l \in 1..(n - 1)
      PROVE  (a \o b)[l] = clients[IF l < k THEN l ELSE l + 1]
  <2>1. CASE l < k
    BY <1>1, <1>2, <1>3, <1>4, <2>1
  <2>2. CASE ~(l < k)
    <3>1. l - Len(a) \in 1..(n - k) /\ ~(l <= Len(a)) /\ l \in 1..(Len(a) + Len(b))
      BY <1>1, <1>2, <1>3, <2>2
    <3>2. (a \o b)[l] = b[l - Len(a)]
      BY <1>4, <3>1
    <3>3. b[l - Len(a)] = clients[k + (l - Len(a))] /\ k + (l - Len(a)) = l + 1
      BY <1>1, <1>2, <1>3, <3>1
    <3> QED
      BY <2>2, <3>2, <3>3
  <2> QED
    BY <2>1, <2>2
<1>7. Len(Without(k)) = n - 1
  <2>1. Len(a \o b) = n - 1
    BY <1>1, <1>2, <1>3, <1>4
  <2> QED
    BY <1>5, <2>1
<1> HIDE DEF n
<1> QED
  BY <1>1, <1>4, <1>5, <1>6, <1>7 DEF n

\* Either way of removing a client takes one entry and no other from the table,
\* and none from the part the scan has not reached.
LEMMA RemovedSlots ==
  ASSUME clients \in Seq(Entries), i \in Valid, Removes
  PROVE  /\ clients' \in Seq(Entries) /\ Len(clients) \in Nat
         /\ Len(clients') <= Len(clients)
         /\ i' \in {i, i + 1}
         /\ \A k \in Valid' : \E l \in Valid \ {i} :
               clients'[k] = clients[l] /\ (k >= i' => l > i)
         /\ \A k \in Valid \ {i} : \E l \in Valid' : clients'[l] = clients[k]
         /\ (\A k, l \in Valid : clients[k] = clients[l] => k = l) =>
               \A k, l \in Valid' : clients'[k] = clients'[l] => k = l
<1>1. Len(clients) \in Nat /\ DOMAIN clients = 1..Len(clients) /\ i \in 1..Len(clients)
      /\ \A k \in Valid : k \in 1..Len(clients) /\ clients[k] # -1
  BY LenProperties DEF Valid
<1>2. CASE clients' = Without(i) /\ i' = i
  <2>1. /\ clients' \in Seq(Entries) /\ Len(clients') = Len(clients) - 1
        /\ \A l \in 1..Len(clients') :
              clients'[l] = clients[IF l < i THEN l ELSE l + 1]
    BY <1>1, <1>2, WithoutSlots
  <2>2. DOMAIN clients' = 1..(Len(clients) - 1)
    BY <2>1
  <2>3. ASSUME NEW k \in Valid'
        PROVE  /\ k \in 1..(Len(clients) - 1)
               /\ k < i => k \in Valid /\ clients'[k] = clients[k]
               /\ ~(k < i) => k + 1 \in Valid /\ clients'[k] = clients[k + 1]
    <3>1. k \in 1..(Len(clients) - 1) /\ clients'[k] # -1
      BY <2>2 DEF Valid
    <3> QED
      BY <1>1, <2>1, <3>1 DEF Valid
  <2>4. ASSUME NEW k \in Valid \ {i}
        PROVE  \E l \in Valid' : clients'[l] = clients[k]
    <3> DEFINE m == IF k < i THEN k ELSE k - 1
    <3>1. m \in 1..(Len(clients) - 1) /\ k = IF m < i THEN m ELSE m + 1
      BY <1>1
    <3>2. clients'[m] = clients[k] /\ clients[k] # -1
      BY <1>1, <2>1, <3>1
    <3>3. m \in Valid'
      BY <2>2, <3>1, <3>2 DEF Valid
    <3> QED
      BY <3>2, <3>3
  <2>5. ASSUME NEW k \in Valid'
        PROVE  \E l \in Valid \ {i} : clients'[k] = clients[l] /\ (k >= i' => l > i)
    <3>1. CASE k < i
      BY <1>1, <1>2, <2>3, <3>1
    <3>2. CASE ~(k < i)
      BY <1>1, <1>2, <2>3, <3>2
    <3> QED
      BY <3>1, <3>2
  <2>6. ASSUME \A k, l \in Valid : clients[k] = clients[l] => k = l
        PROVE  \A k, l \in Valid' : clients'[k] = clients'[l] => k = l
    BY <1>1, <2>3, <2>6
  <2> QED
    BY <1>1, <1>2, <2>1, <2>4, <2>5, <2>6
<1>3. CASE clients' = [clients EXCEPT ![i] = -1] /\ i' = i + 1
  <2>1. /\ clients' \in Seq(Entries) /\ Len(clients') = Len(clients)
        /\ \A k \in 1..Len(clients) : clients'[k] = IF k = i THEN -1 ELSE clients[k]
    BY <1>1, <1>3, ExceptSeq DEF Entries
  <2>2. Valid' = Valid \ {i}
    BY <1>1, <2>1, <1>3 DEF Valid
  <2> QED
    BY <1>1, <1>3, <2>1, <2>2
<1> QED
  BY <1>2, <1>3 DEF Removes

-----------------------------------------------------------------------------
(* Types.                                                                  *)

LEMMA RefuseTyped ==
  ASSUME KernelTypeOK, NEW c \in Pending,
         conn' = [conn EXCEPT ![c].sv = "closed"], UNCHANGED fdtab
  PROVE  KernelTypeOK'
<1>1. c \in Clients /\ conn[c] \in Conn
  BY DEF Pending, KernelTypeOK
<1>2. [conn[c] EXCEPT !.sv = "closed"] \in Conn
  BY <1>1 DEF Conn
<1> QED
  BY <1>1, <1>2, OneConnTyped DEF KernelTypeOK

LEMMA InitTyped == Init => TypeInv
<1> SUFFICES ASSUME Init PROVE TypeInv
  OBVIOUS
<1>1. KernelTypeOK
  BY KernelInitTyped DEF Init
<1> QED
  BY <1>1, SelectAssumption DEF Init, TypeInv, TypeOK, Running, Sending

LEMMA StepTyped == TypeInv /\ [SelectNext]_vars => TypeInv'
<1> SUFFICES ASSUME TypeInv, [SelectNext]_vars PROVE TypeInv'
  OBVIOUS
<1> USE DEF Step
<1>t. /\ KernelTypeOK /\ unsent \in Seq(Bytes) /\ clients \in Seq(Entries)
      /\ Len(clients) \in Nat /\ Len(clients) <= FdSetSize /\ FdSetSize \in Nat
      /\ FdSetSize >= 1 /\ read_set \in SUBSET Fds
      /\ DOMAIN clients = 1..Len(clients) /\ i \in Nat
  BY SelectAssumption, LenProperties DEF TypeInv, TypeOK, Entries
<1>f. \A k \in Valid : clients[k] \in Fds
  BY <1>t, ElementOfSeq DEF Valid, Entries
<1>1. CASE UNCHANGED vars
  BY <1>1
     DEF vars, process, kernel, TypeInv, TypeOK, Sending, KernelTypeOK, Running,
              Valid
<1>2. CASE Environment
  BY <1>2, <1>t, ClientStepTyped
     DEF Environment, process, TypeInv, TypeOK, Sending, Running, Valid
<1>3. CASE Start
  BY <1>3, <1>t, ListenTyped DEF Start, TypeInv, TypeOK, Sending, Running
<1>4. CASE \E label \in {"ended", "killed"} : Terminate(label)
  BY <1>4, <1>t, CloseAllTyped
     DEF Terminate, TypeInv, TypeOK, Sending, Running
<1>5. CASE BuildReadSet
  <2>1. {listen_fd} \cup Tracked \in SUBSET Fds
    BY <1>5, <1>f DEF BuildReadSet, TypeInv, Running, Tracked
  <2> QED
    BY <1>5, <1>t, <2>1
       DEF BuildReadSet, TypeInv, TypeOK, Sending, Running, kernel, KernelTypeOK
<1>6. CASE SelectReady \/ SelectTimeout
  BY <1>6, <1>t
     DEF SelectReady, SelectTimeout, TypeInv, TypeOK, Sending, Running, kernel,
         KernelTypeOK
<1>7. CASE AcceptClient
  <2>1. PICK f \in Fds : Accept(f) /\ clients' = Append(clients, f)
    BY <1>7 DEF AcceptClient
  <2>2. clients' \in Seq(Entries) /\ Len(clients') = Len(clients) + 1
    BY <1>t, <2>1, AppendedSlots
  <2> QED
    BY <1>7, <1>t, <2>1, <2>2, AcceptTyped
       DEF AcceptClient, Accepting, TypeInv, TypeOK, Sending, Running, Entries
<1>8. CASE Forgets
  BY <1>8, <1>t, AcceptTyped
     DEF Forgets, Accepting, TypeInv, TypeOK, Sending, Running
<1>9. CASE Refuses
  <2>1. KernelTypeOK'
    BY <1>9, <1>t, RefuseTyped DEF Refuses
  <2> QED
    BY <1>9, <1>t, <2>1
       DEF Refuses, Accepting, TypeInv, TypeOK, Sending, Running
<1>10. CASE AcceptNothing
  BY <1>10, <1>t
     DEF AcceptNothing, Accepting, TypeInv, TypeOK, Sending, Running,
                     kernel, KernelTypeOK
<1>11. CASE ScanSkips \/ ScanEnds
  BY <1>11, <1>t DEF ScanSkips, ScanEnds, TypeInv, TypeOK, Sending, Running,
                     kernel, KernelTypeOK
<1>12. CASE ScanRecv
  <2>1. Connected(clients[i]) /\ Available(clients[i]) > 0
    BY <1>12 DEF ScanRecv, RecvData
  <2>2. unsent' \in Seq(Bytes) /\ unsent' # <<>>
    BY <1>12, <1>t, <2>1, RecvBytesTyped DEF ScanRecv
  <2> QED
    BY <1>12, <1>t, <2>2, RecvDataTyped
       DEF ScanRecv, Scanned, TypeInv, TypeOK, Sending, Running, Valid
<1>13. CASE ScanRecvEnds
  BY <1>13, <1>t, RecvEndsTyped
     DEF ScanRecvEnds, Scanned, TypeInv, TypeOK, Sending, Running, Valid
<1>14. CASE Send
  <2>1. unsent # <<>> /\ i \in Valid /\ i \in 1..Len(clients)
    BY <1>14, <1>t DEF Send, TypeInv, Sending, Valid
  <2>2. Head(unsent) \in Bytes /\ Tail(unsent) \in Seq(Bytes)
    BY <1>t, <2>1, FirstOff
  <2>3. unsent' \in Seq(Bytes) /\ KernelTypeOK'
    <3>1. CASE SendByte(clients[i], Head(unsent)) /\ unsent' = Tail(unsent)
      BY <1>t, <2>2, <3>1, SendByteTyped
    <3>2. CASE UNCHANGED kernel /\ unsent' = <<>>
      BY <1>t, <3>2 DEF kernel, KernelTypeOK
    <3> QED
      BY <1>14, <3>1, <3>2 DEF Send, SendStep
  <2> QED
    BY <1>14, <1>t, <2>1, <2>3
       DEF Send, TypeInv, TypeOK, Sending, Running, Valid
<1>15. CASE SendFailed
  <2>1. i \in Valid /\ i \in 1..Len(clients)
    BY <1>15, <1>t DEF SendFailed, TypeInv, Sending, Valid
  <2> QED
    BY <1>15, <1>t, <2>1, SendFailsTyped
       DEF SendFailed, TypeInv, TypeOK, Sending, Running, Valid
<1>16. CASE Removes
  <2>1. i \in Valid /\ i \in 1..Len(clients)
    BY <1>16, <1>t DEF Removes, TypeInv, Valid
  <2>2. clients' \in Seq(Entries) /\ Len(clients') <= Len(clients) /\ i' \in {i, i + 1}
        /\ Len(clients') \in Nat
    BY <1>16, <1>t, <2>1, RemovedSlots, LenProperties
  <2> QED
    BY <1>16, <1>t, <2>1, <2>2, CloseFdTyped
       DEF Removes, TypeInv, TypeOK, Sending, Running, Entries
<1>17. CASE StartFails \/ LoopFails \/ ClientsGone
  BY <1>17, <1>t
     DEF StartFails, LoopFails, SelectFails, ClientsGone, TypeInv, TypeOK,
         Sending, Running, kernel, KernelTypeOK
<1>18. CASE CloseClient
  <2>1. KernelTypeOK'
    BY <1>18, <1>t, CloseFdTyped DEF CloseClient, kernel, KernelTypeOK
  <2> QED
    BY <1>18, <1>t, <2>1 DEF CloseClient, TypeInv, TypeOK, Sending, Running
<1>19. CASE ListenerCloses
  BY <1>19, <1>t, CloseFdTyped
     DEF ListenerCloses, TypeInv, TypeOK, Sending, Running
<1> QED
  BY <1>1, <1>2, <1>3, <1>4, <1>5, <1>6, <1>7, <1>8, <1>9, <1>10, <1>11, <1>12,
     <1>13, <1>14, <1>15, <1>16, <1>17, <1>18, <1>19
     DEF SelectNext, Loop, BuildCorruptsStack, SendKills, MainEnds

-----------------------------------------------------------------------------
(* What the calls do to the kernel and to what is readable.                *)

\* A connection that is closed as soon as it is accepted had no descriptor yet.
LEMMA RefuseInv ==
  ASSUME KernelTypeOK, KernelInv, NEW c \in Pending,
         conn' = [conn EXCEPT ![c].sv = "closed"], UNCHANGED fdtab
  PROVE  /\ KernelInv'
         /\ \A d \in Clients : Quiet(d) /\ OnlyCloses(d)
         /\ \A d \in Clients : conn[d].sv # "backlog" => conn'[d] = conn[d]
<1>1. c \in Clients /\ conn[c] \in Conn /\ conn[c].sv = "backlog"
      /\ conn \in [Clients -> Conn]
  BY DEF Pending, KernelTypeOK
<1>2. /\ \A d \in Clients \ {c} : conn'[d] = conn[d]
      /\ conn'[c] = [conn[c] EXCEPT !.sv = "closed"]
  BY <1>1
<1>3. /\ conn'[c].sv = "closed" /\ conn'[c].cl = conn[c].cl
      /\ conn'[c].fin = conn[c].fin /\ conn'[c].rst = conn[c].rst
      /\ conn'[c].sent = conn[c].sent /\ conn'[c].taken = conn[c].taken
      /\ conn'[c].echo = conn[c].echo
  BY <1>1, <1>2 DEF Conn
<1>4. \A g \in Fds : Connected(g) => fdtab[g] # c
  BY <1>1 DEF KernelInv
<1>5. KernelInv'
  BY <1>1, <1>2, <1>3, <1>4 DEF KernelInv, Connected
<1>6. \A d \in Clients : Quiet(d) /\ OnlyCloses(d)
  BY <1>1, <1>2, <1>3 DEF Quiet, OnlyCloses
<1> QED
  BY <1>1, <1>2, <1>5, <1>6

\* A call on one connection leaves the others as they are.
LEMMA CallOnOne ==
  ASSUME KernelTypeOK, NEW f, NEW byte,
         RecvData(f) \/ RecvEnds(f) \/ SendByte(f, byte) \/ SendFails(f)
  PROVE  UNCHANGED fdtab /\ \A c \in Clients : c # fdtab[f] => conn'[c] = conn[c]
BY DEF KernelTypeOK, RecvData, RecvEnds, SendByte, SendFails

LEMMA ReadableKept ==
  ASSUME NEW f, Connected(f), Readable(f),
         fdtab'[f] = fdtab[f], conn'[fdtab[f]] = conn[fdtab[f]]
  PROVE  Readable(f)'
<1>1. fdtab[f] \in Clients /\ fdtab[f] # "listener" /\ f \in Fds
  BY ClientsAssumption DEF Connected
<1> QED
  BY <1>1 DEF Readable, Connected, Available

\* The clients and the network only make more descriptors readable.
LEMMA ClientStepReadable ==
  ASSUME KernelTypeOK, KernelInv, NEW c \in Clients, ClientStep(c),
         NEW f \in Fds, Readable(f)
  PROVE  Readable(f)'
<1>1. conn \in [Clients -> Conn] /\ conn[c] \in Conn /\ UNCHANGED fdtab
      /\ conn[c].sent \in Nat
  BY ConnSizes DEF KernelTypeOK, ClientStep, Connect, ClientSend, ClientRecv,
         ClientClose, ClientAbort, ResetArrives
<1>2. \A d \in Clients \ {c} : conn'[d] = conn[d]
  BY <1>1 DEF ClientStep, Connect, ClientSend, ClientRecv, ClientClose,
             ClientAbort, ResetArrives
<1>3. /\ conn[c].sv = "backlog" => conn'[c].sv = "backlog"
      /\ conn'[c].sent \in Nat /\ conn'[c].sent >= conn[c].sent
      /\ conn'[c].taken = conn[c].taken
      /\ conn[c].fin => conn'[c].fin
      /\ conn[c].rst # "no" => conn'[c].rst # "no"
  <2>1. CASE Connect(c)
    <3>1. conn'[c] = [conn[c] EXCEPT !.cl = "open", !.sv = "backlog"]
      BY <1>1, <2>1 DEF Connect
    <3> QED
      BY <1>1, <3>1 DEF Conn
  <2>2. CASE ClientSend(c)
    <3>1. conn'[c] = [conn[c] EXCEPT !.sent = conn[c].sent + 1]
      BY <1>1, <2>2 DEF ClientSend
    <3>2. conn'[c].sent = conn[c].sent + 1 /\ conn'[c].sv = conn[c].sv
          /\ conn'[c].taken = conn[c].taken /\ conn'[c].fin = conn[c].fin
          /\ conn'[c].rst = conn[c].rst
      BY <1>1, <3>1 DEF Conn
    <3> QED
      BY <1>1, <3>2
  <2>3. CASE ClientRecv(c)
    BY <1>1, <2>3 DEF ClientRecv, Conn
  <2>4. CASE ClientClose(c)
    <3>1. conn'[c] = [conn[c] EXCEPT !.cl = "closed", !.fin = TRUE]
      BY <1>1, <2>4 DEF ClientClose
    <3> QED
      BY <1>1, <3>1 DEF Conn
  <2>5. CASE ClientAbort(c)
    <3>1. conn'[c] = [conn[c] EXCEPT !.cl = "closed", !.rst = "ECONNRESET"]
      BY <1>1, <2>5 DEF ClientAbort
    <3> QED
      BY <1>1, <3>1 DEF Conn
  <2>6. CASE ResetArrives(c)
    <3>1. conn'[c] = [conn[c] EXCEPT !.rst = "EPIPE"]
      BY <1>1, <2>6 DEF ResetArrives
    <3> QED
      BY <1>1, <3>1 DEF Conn
  <2> QED
    BY <2>1, <2>2, <2>3, <2>4, <2>5, <2>6 DEF ClientStep
<1>4. CASE fdtab[f] = "listener"
  BY <1>1, <1>2, <1>3, <1>4, ClientsAssumption DEF Readable, Pending, Connected
<1>5. CASE Connected(f) /\ fdtab[f] # c
  <2>1. fdtab[f] \in Clients
    BY <1>5 DEF Connected
  <2> QED
    BY <1>1, <1>2, <1>5, <2>1, ReadableKept
<1>6. CASE Connected(f) /\ fdtab[f] = c
  <2>1. Available(f) > 0 => Available(f)' > 0
    <3>1. conn[c].taken \in Nat
      BY ConnSizes
    <3> QED
      BY <1>1, <1>3, <1>6, <3>1 DEF Available
  <2> QED
    BY <1>1, <1>3, <1>6, <2>1, ClientsAssumption DEF Readable, Connected
<1> QED
  BY <1>4, <1>5, <1>6 DEF Readable

-----------------------------------------------------------------------------
(* The kernel, the table and the read set.                                 *)

\* What the proofs of a step need of the invariant before it.
LEMMA Known ==
  ASSUME TypeInv
  PROVE  /\ KernelTypeOK /\ unsent \in Seq(Bytes) /\ clients \in Seq(Entries)
         /\ Len(clients) \in Nat /\ DOMAIN clients = 1..Len(clients)
         /\ \A k \in Valid : clients[k] \in Fds /\ k \in 1..Len(clients)
         /\ i \in Nat
<1>1. clients \in Seq(Entries)
  BY DEF TypeInv, TypeOK, Entries
<1> QED
  BY <1>1, LenProperties, ElementOfSeq, SelectAssumption
     DEF TypeInv, TypeOK, Entries, Valid

LEMMA StepKernel == TypeInv /\ KernelInv /\ [SelectNext]_vars => KernelInv'
<1> SUFFICES ASSUME TypeInv, KernelInv, [SelectNext]_vars PROVE KernelInv'
  OBVIOUS
<1>t. KernelTypeOK
  BY Known
<1>1. CASE UNCHANGED kernel
  BY <1>1 DEF kernel, KernelInv, Connected
<1>2. CASE UNCHANGED vars \/ StartFails \/ BuildReadSet \/ SelectReady
           \/ SelectTimeout \/ AcceptNothing \/ ScanSkips \/ ScanEnds
           \/ LoopFails \/ ClientsGone
  BY <1>1, <1>2
     DEF vars, StartFails, BuildReadSet, SelectReady, SelectTimeout,
         AcceptNothing, ScanSkips, ScanEnds, LoopFails, SelectFails, ClientsGone
<1>3. CASE Environment
  BY <1>3, <1>t, ClientStepInv DEF Environment
<1>4. CASE Start
  BY <1>4, <1>t, ListenInv DEF Start
<1>5. CASE BuildCorruptsStack \/ SendKills \/ MainEnds
  BY <1>5, <1>t, CloseAllInv
     DEF BuildCorruptsStack, SendKills, MainEnds, Terminate
<1>6. CASE AcceptClient \/ Forgets
  BY <1>6, <1>t, AcceptInv DEF AcceptClient, Forgets
<1>7. CASE Refuses
  BY <1>7, <1>t, RefuseInv DEF Refuses
<1>8. CASE ScanRecv
  BY <1>8, <1>t, RecvDataInv DEF ScanRecv
<1>9. CASE ScanRecvEnds
  BY <1>9, <1>t, RecvEndsInv DEF ScanRecvEnds
<1>10. CASE Send
  <2>1. CASE SendByte(clients[i], Head(unsent))
    BY <1>t, <2>1, SendByteInv
  <2> QED
    BY <1>1, <1>10, <2>1 DEF Send, SendStep
<1>11. CASE SendFailed
  BY <1>11, <1>t, SendFailsInv DEF SendFailed
<1>12. CASE Removes \/ ListenerCloses
  BY <1>12, <1>t, CloseFdInv DEF Removes, ListenerCloses
<1>13. CASE CloseClient
  BY <1>1, <1>13, <1>t, CloseFdInv DEF CloseClient
<1> QED
  BY <1>2, <1>3, <1>4, <1>5, <1>6, <1>7, <1>8, <1>9, <1>10, <1>11, <1>12, <1>13
     DEF SelectNext, Loop

LEMMA StepListener ==
  ASSUME TypeInv, KernelInv, ListenerKept, SlotsAreConnections, [SelectNext]_vars
  PROVE  ListenerKept'
<1> USE DEF Step
<1>t. KernelTypeOK /\ fdtab \in [Fds -> Clients \cup {"free", "listener", "shut"}]
  BY Known DEF KernelTypeOK
\* A step that leaves the descriptors alone stays in the loop or out of it.
<1>u. ASSUME UNCHANGED <<fdtab, listen_fd>>, pc' # "start",
             Running' => Running,
             pc' \in {"close_listener", "unwind"} =>
                Running \/ pc \in {"close_listener", "unwind"},
             pc' = "close_clients" => pc = "close_clients"
      PROVE  ListenerKept'
  BY <1>u DEF ListenerKept, Listening
<1>1. CASE UNCHANGED vars \/ Environment
  <2>1. UNCHANGED <<fdtab, listen_fd, pc>>
    BY <1>1
       DEF vars, kernel, process, Environment, ClientStep, Connect, ClientSend,
       ClientRecv, ClientClose, ClientAbort, ResetArrives
  <2> QED
    BY <2>1 DEF ListenerKept, Listening, Running
<1>2. CASE StartFails \/ BuildReadSet \/ SelectReady \/ SelectTimeout
           \/ AcceptNothing \/ Refuses \/ ScanSkips \/ ScanEnds \/ LoopFails
           \/ ClientsGone
  BY <1>2, <1>u
     DEF StartFails, BuildReadSet, SelectReady, SelectTimeout, AcceptNothing,
         Refuses, Accepting, ScanSkips, ScanEnds, LoopFails, SelectFails,
         ClientsGone, kernel, Running
<1>3. CASE ScanRecv \/ ScanRecvEnds \/ Send \/ SendFailed
  BY <1>3, <1>u
     DEF ScanRecv, RecvData, ScanRecvEnds, RecvEnds, Scanned, Send, SendStep,
         SendByte, SendFailed, SendFails, kernel, Running
<1>4. CASE Start
  <2>1. PICK f \in Fds : Listen(f) /\ listen_fd' = f
    BY <1>4 DEF Start
  <2>2. \A g \in Fds : fdtab'[g] = IF g = f THEN "listener" ELSE fdtab[g]
    BY <1>t, <2>1 DEF Listen
  <2>3. \A g \in Fds : fdtab[g] # "listener"
    BY <1>4 DEF Start, ListenerKept, Listening
  <2> QED
    BY <1>4, <2>1, <2>2, <2>3 DEF Start, ListenerKept
<1>5. CASE BuildCorruptsStack \/ SendKills \/ MainEnds
  BY <1>5 DEF BuildCorruptsStack, SendKills, MainEnds, Terminate, CloseAll,
              ListenerKept, Listening, Running
<1>6. CASE AcceptClient \/ Forgets
  <2>1. PICK f \in Fds : Accept(f)
    BY <1>6 DEF AcceptClient, Forgets
  <2>2. /\ \A g \in Fds \ {f} : fdtab'[g] = fdtab[g]
        /\ fdtab[f] = "free" /\ fdtab'[f] # "listener"
    BY <1>t, <2>1, ClientsAssumption DEF Accept, LowestFree, Pending
  <2>3. /\ pc = "accept" /\ pc' = "scan" /\ listen_fd' = listen_fd
        /\ Running
    BY <1>6 DEF AcceptClient, Forgets, Accepting, Running
  <2> QED
    BY <2>2, <2>3 DEF ListenerKept
<1>7. CASE Removes \/ CloseClient
  <2>1. PICK f : \A g \in Fds :
                    \/ fdtab'[g] = fdtab[g]
                    \/ g = f /\ Connected(f) /\ fdtab'[g] = "free"
    <3>1. CASE UNCHANGED kernel
      BY <3>1 DEF kernel
    <3>2. CASE CloseFd(clients[i]) /\ Connected(clients[i])
      BY <3>2 DEF CloseFd
    <3>3. i \in Valid /\ i >= i /\ (Running \/ Closing) => Connected(clients[i])
      BY DEF SlotsAreConnections, Held
    <3>4. i >= i
      BY Known
    <3> QED
      BY <1>7, <3>1, <3>2, <3>3, <3>4
         DEF Removes, CloseClient, TypeInv, Running, Closing
  <2>2. \A g \in Fds : fdtab'[g] = "listener" <=> fdtab[g] = "listener"
    BY <2>1, ClientsAssumption DEF Connected
  <2>3. listen_fd' = listen_fd
    BY <1>7 DEF Removes, CloseClient
  <2> QED
    BY <1>7, <2>2, <2>3
       DEF Removes, CloseClient, ListenerKept, Listening, Running
<1>8. CASE ListenerCloses
  <2>1. \A g \in Fds : fdtab'[g] # "listener"
    BY <1>8 DEF ListenerCloses, CloseFd, ListenerKept
  <2> QED
    BY <1>8, <2>1 DEF ListenerCloses, ListenerKept, Listening, Running
<1> QED
  BY <1>1, <1>2, <1>3, <1>4, <1>5, <1>6, <1>7, <1>8 DEF SelectNext, Loop

LEMMA StepSlots ==
  ASSUME TypeInv, KernelInv, ListenerKept, SlotsAreConnections, [SelectNext]_vars
  PROVE  SlotsAreConnections'
<1> USE DEF Step
<1>t. KernelTypeOK /\ clients \in Seq(Entries) /\ DOMAIN clients = 1..Len(clients)
      /\ Len(clients) \in Nat /\ i \in Nat
      /\ \A k \in Valid : clients[k] \in Fds /\ k \in 1..Len(clients)
  BY Known
<1>r. Running => Held = Valid
  BY DEF Held
\* A step within the loop need not look at what was closed.
<1>l. ASSUME Running', \A k \in Valid' : \A g : g = clients'[k] => Connected(g)',
             \A k, l \in Valid' : clients'[k] = clients'[l] => k = l
      PROVE  SlotsAreConnections'
  <2>1. Held' = Valid' /\ pc' # "returned"
    BY <1>l DEF Held, Running
  <2> QED
    BY <1>l, <2>1 DEF SlotsAreConnections, Connected
<1>1. CASE UNCHANGED <<clients, fdtab>> /\ Running /\ Running'
  BY <1>1, <1>l, <1>r DEF SlotsAreConnections, Valid, Connected
<1>2. CASE UNCHANGED vars \/ Environment
  <2>1. UNCHANGED <<clients, fdtab, pc, i>>
    BY <1>2
       DEF vars, kernel, process, Environment, ClientStep, Connect, ClientSend,
       ClientRecv, ClientClose, ClientAbort, ResetArrives
  <2> QED
    BY <2>1 DEF SlotsAreConnections, Held, Valid, Connected, Running, Closing,
                Listening
<1>3. CASE BuildCorruptsStack \/ SendKills \/ MainEnds
  <2>1. \A f \in Fds : fdtab'[f] = "free"
    BY <1>3 DEF BuildCorruptsStack, SendKills, MainEnds, Terminate, CloseAll
  <2>2. Held' = {} /\ pc' # "returned"
    BY <1>3 DEF BuildCorruptsStack, SendKills, MainEnds, Terminate, Held,
                Running, Closing
  <2> QED
    BY <2>1, <2>2, ClientsAssumption DEF SlotsAreConnections, Connected
<1>4. CASE Start \/ StartFails
  <2>1. Valid' = {}
    BY <1>4 DEF Start, StartFails, TypeInv, Valid
  <2>2. pc' = "returned" => ~Listening'
    BY <1>4 DEF Start, StartFails, kernel, ListenerKept, Listening
  <2> QED
    BY <2>1, <2>2 DEF SlotsAreConnections, Held
<1>5. CASE AcceptClient \/ Forgets
  <2>1. PICK f \in Fds : Accept(f) /\ clients' \in {clients, Append(clients, f)}
    BY <1>5 DEF AcceptClient, Forgets
  <2>2. /\ \A g \in Fds \ {f} : fdtab'[g] = fdtab[g]
        /\ Connected(f)' /\ ~Connected(f)
    <3>1. fdtab[f] = "free"
      BY <2>1 DEF Accept, LowestFree
    <3>2. ~Connected(f)
      BY <3>1, ClientsAssumption DEF Connected
    <3> QED
      BY <1>t, <2>1, <3>2, AcceptInv
  <2>3. /\ \A k \in Valid : clients[k] # f /\ Connected(clients[k])
        /\ \A k, l \in Valid : clients[k] = clients[l] => k = l
        /\ Running'
    BY <1>5, <1>r, <2>2
       DEF AcceptClient, Forgets, Accepting, SlotsAreConnections, Running
  <2>4. \A g : Connected(g) => Connected(g)'
    BY <2>2 DEF Connected
  <2>5. CASE clients' = clients
    BY <1>l, <2>3, <2>4, <2>5 DEF Valid
  <2>6. CASE clients' = Append(clients, f)
    <3>1. /\ Valid' = Valid \cup {Len(clients')}
          /\ \A k \in Valid : clients'[k] = clients[k]
          /\ clients'[Len(clients')] = f
      BY <1>t, <2>6, AppendedSlots
    <3>2. \A k \in Valid' : clients'[k] = f \/ Connected(clients'[k])
      BY <2>3, <3>1
    <3>3. \A k \in Valid' : \A g : g = clients'[k] => Connected(g)'
      BY <2>2, <2>4, <3>2
    <3>4. \A k, l \in Valid' : clients'[k] = clients'[l] => k = l
      BY <2>3, <3>1
    <3> QED
      BY <1>l, <2>3, <3>3, <3>4
  <2> QED
    BY <2>1, <2>5, <2>6
<1>6. CASE Removes
  <2>1. i \in Valid /\ Running /\ Running'
    BY <1>6 DEF Removes, TypeInv, Running
  <2>2. /\ \A k \in Valid' : \E l \in Valid \ {i} : clients'[k] = clients[l]
        /\ (\A k, l \in Valid : clients[k] = clients[l] => k = l) =>
              \A k, l \in Valid' : clients'[k] = clients'[l] => k = l
    BY <1>6, <1>t, <2>1, RemovedSlots
  <2>3. \A k \in Valid \ {i} : Connected(clients[k]) /\ clients[k] # clients[i]
    BY <1>r, <2>1 DEF SlotsAreConnections
  <2>4. \A g \in Fds : g # clients[i] => fdtab'[g] = fdtab[g]
    BY <1>6, <1>t, CloseFdInv DEF Removes
  <2>5. \A k \in Valid' : \A g : g = clients'[k] => Connected(g) /\ g # clients[i]
    BY <2>2, <2>3
  <2>6. \A k \in Valid' : \A g : g = clients'[k] => g \in Fds /\ fdtab'[g] \in Clients
    BY <2>4, <2>5 DEF Connected
  <2>7. \A k, l \in Valid' : clients'[k] = clients'[l] => k = l
    BY <1>r, <2>1, <2>2 DEF SlotsAreConnections
  <2> QED
    BY <1>l, <2>1, <2>6, <2>7 DEF Connected
<1>7. CASE BuildReadSet \/ SelectReady \/ SelectTimeout \/ AcceptNothing \/ Refuses
           \/ ScanSkips \/ ScanEnds \/ ScanRecv \/ ScanRecvEnds \/ Send \/ SendFailed
  BY <1>1, <1>7
     DEF BuildReadSet, SelectReady, SelectTimeout, AcceptNothing, Refuses,
     Accepting, ScanSkips, ScanEnds, ScanRecv, RecvData, ScanRecvEnds, RecvEnds,
     Send, SendStep, SendByte, SendFailed, SendFails, Running, Scanned, kernel
\* The closing loop comes to the whole table.
<1>8. CASE LoopFails
  <2>1. Valid' = Valid /\ Held = Valid /\ Held' = Valid /\ pc' # "returned"
    BY <1>8, <1>r, <1>t
       DEF LoopFails, SelectFails, Valid, Held, Running, Closing
  <2> QED
    BY <1>8, <2>1
       DEF LoopFails, SelectFails, kernel, SlotsAreConnections, Connected
\* It closes the entry it is at, which is no other's.
<1>9. CASE CloseClient
  <2>1. Valid' = Valid /\ Held = {k \in Valid : k >= i}
        /\ Held' = {k \in Valid : k >= i + 1} /\ pc' # "returned"
        /\ clients' = clients
    BY <1>9 DEF CloseClient, Valid, Held, Running, Closing
  <2>2. Held' = Held \ {i}
    BY <1>t, <2>1
  <2>3. CASE i \notin Valid
    <3>1. Held' = Held /\ UNCHANGED fdtab
      BY <1>9, <2>1, <2>2, <2>3 DEF CloseClient, kernel
    <3> QED
      BY <2>1, <3>1 DEF SlotsAreConnections, Connected
  <2>4. CASE i \in Valid
    <3>1. \A g \in Fds : fdtab'[g] = IF g = clients[i] THEN "free" ELSE fdtab[g]
      BY <1>9, <2>4 DEF CloseClient, CloseFd
    <3>2. i \in Held /\ \A k \in Held : clients[k] = clients[i] => k = i
      BY <1>t, <2>1, <2>4 DEF SlotsAreConnections
    <3>3. \A k \in Valid : Connected(clients[k])' <=> k \in Held'
      BY <1>t, <2>1, <2>2, <3>1, <3>2, ClientsAssumption
         DEF SlotsAreConnections, Connected
    <3> QED
      BY <2>1, <2>2, <3>3 DEF SlotsAreConnections, Connected
  <2> QED
    BY <2>3, <2>4
\* The listening socket is none of the table's.
<1>10. CASE ListenerCloses
  <2>1. \A g \in Fds : fdtab'[g] = IF g = listen_fd THEN "free" ELSE fdtab[g]
    BY <1>10 DEF ListenerCloses, CloseFd
  <2>2. \A g : Connected(g)' <=> Connected(g)
    BY <1>10, <2>1, ClientsAssumption DEF ListenerCloses, ListenerKept, Connected
  <2>3. ~Listening'
    BY <2>1 DEF ListenerKept, Listening
  <2>4. Valid' = Valid /\ Held' = Held /\ clients' = clients
    BY <1>10, <1>t DEF ListenerCloses, Valid, Held, Running, Closing
  <2> QED
    BY <2>2, <2>3, <2>4 DEF SlotsAreConnections, Connected
<1>11. CASE ClientsGone
  <2>1. Valid' = Valid /\ Held' = Held /\ clients' = clients /\ UNCHANGED fdtab
    BY <1>11, <1>t DEF ClientsGone, Valid, Held, Running, Closing, kernel
  <2>2. ~Listening'
    BY <1>11, <2>1 DEF ClientsGone, ListenerKept, Listening
  <2> QED
    BY <2>1, <2>2 DEF SlotsAreConnections, Connected
<1> QED
  BY <1>2, <1>3, <1>4, <1>5, <1>6, <1>7, <1>8, <1>9, <1>10, <1>11
     DEF SelectNext, Loop

\* The part of the table the scan has still to look at only shrinks, but for a
\* client just accepted, which is not in the read set.
LEMMA StepReadable ==
  ASSUME TypeInv, KernelInv, SlotsAreConnections, StillReadable, [SelectNext]_vars
  PROVE  StillReadable'
<1> USE DEF Step
<1>t. /\ KernelTypeOK /\ clients \in Seq(Entries) /\ DOMAIN clients = 1..Len(clients)
      /\ Len(clients) \in Nat /\ i \in Nat
      /\ \A k \in Valid : clients[k] \in Fds
  BY Known
<1>s. Running => \A k \in Valid : Connected(clients[k])
  BY DEF SlotsAreConnections, Held
<1>1. CASE UNCHANGED vars \/ Environment
  <2>1. UNCHANGED process
    BY <1>1 DEF vars, Environment
  <2>2. \A f \in Fds : Readable(f) => Readable(f)'
    <3>1. CASE UNCHANGED vars
      BY <3>1 DEF vars, kernel, Readable, Connected, Available, Pending
    <3>2. CASE Environment
      BY <3>2, <1>t, ClientStepReadable DEF Environment
    <3> QED
      BY <1>1, <3>1, <3>2
  <2>3. read_set \subseteq Fds
    BY DEF TypeInv, TypeOK
  <2>4. pc' = "accept" => \A f \in read_set' : Readable(f)'
    BY <2>1, <2>2, <2>3 DEF process, StillReadable
  <2>5. Ahead' = Ahead /\ Ahead \subseteq Valid
    BY <2>1 DEF process, Ahead, Valid
  <2>6. Scanning' => \A k \in Ahead' : \A g : g = clients'[k] =>
                        (g \in read_set' => Readable(g)')
    BY <1>t, <2>1, <2>2, <2>5 DEF process, Scanning, StillReadable
  <2> QED
    BY <2>4, <2>6 DEF StillReadable, Readable, Connected, Available
<1>2. CASE StartFails \/ BuildCorruptsStack \/ SendKills \/ MainEnds \/ Start
           \/ BuildReadSet \/ SelectTimeout \/ ScanEnds
  BY <1>2
     DEF StartFails, BuildCorruptsStack, SendKills, MainEnds, Terminate, Start,
     BuildReadSet, SelectTimeout, ScanEnds, StillReadable, Scanning
<1>9. CASE LoopFails \/ ListenerCloses \/ CloseClient \/ ClientsGone
  BY <1>9
     DEF LoopFails, SelectFails, ListenerCloses, CloseClient, ClientsGone,
         StillReadable, Scanning
<1>3. CASE SelectReady
  <2>1. \A f : Readable(f)' <=> Readable(f)
    BY <1>3 DEF SelectReady, kernel, Readable, Connected, Available, Pending
  <2> QED
    BY <1>3, <2>1 DEF SelectReady, StillReadable, Scanning
\* Steps of the scan: each entry ahead after the step was one before, and its
\* connection is as it was.
<1>4. ASSUME Scanning', Running, read_set' = read_set, pc' # "accept",
             \A k \in Ahead' :
                clients'[k] \in read_set =>
                   \E l \in Ahead :
                      /\ clients'[k] = clients[l]
                      /\ fdtab'[clients[l]] = fdtab[clients[l]]
                      /\ conn'[fdtab[clients[l]]] = conn[fdtab[clients[l]]],
             \A l \in Ahead : clients[l] \in read_set => Readable(clients[l])
      PROVE  StillReadable'
  <2> SUFFICES ASSUME NEW k \in Ahead', clients'[k] \in read_set,
                      NEW g, g = clients'[k]
               PROVE  Readable(g)'
    BY <1>4 DEF StillReadable, Readable, Connected, Available
  <2>1. PICK l \in Ahead : /\ g = clients[l]
                          /\ fdtab'[g] = fdtab[g]
                          /\ conn'[fdtab[g]] = conn[fdtab[g]]
    BY <1>4
  <2>2. Connected(g) /\ Readable(g)
    BY <1>4, <1>s, <2>1 DEF Ahead
  <2> QED
    BY <2>1, <2>2, ReadableKept
<1>5. CASE AcceptNothing \/ AcceptClient \/ Forgets \/ Refuses
  <2>1. /\ Accepting /\ Running /\ Scanning' /\ read_set' = read_set
        /\ pc' # "accept" /\ i' = 1
        /\ \A f \in read_set : Readable(f)
    BY <1>5
       DEF AcceptNothing, AcceptClient, Forgets, Refuses, Accepting, Running,
                Scanning, StillReadable
  <2>2. \A c \in Clients : conn[c].sv = "accepted" => conn'[c] = conn[c]
    <3>1. \/ conn' = conn
          \/ \E c \in Pending : \E r : conn' = [conn EXCEPT ![c].sv = r]
      BY <1>5 DEF AcceptNothing, AcceptClient, Forgets, Refuses, kernel, Accept
    <3> QED
      BY <1>t, <3>1 DEF KernelTypeOK, Pending
  <2>3. \A f \in Fds : Connected(f) =>
           fdtab'[f] = fdtab[f] /\ conn'[fdtab[f]] = conn[fdtab[f]]
    <3>1. \/ fdtab' = fdtab
          \/ \E f \in Fds : fdtab[f] = "free" /\ \E c : fdtab' = [fdtab EXCEPT ![f] = c]
      BY <1>5 DEF AcceptNothing, AcceptClient, Forgets, Refuses, kernel, Accept,
                  LowestFree
    <3>2. \A f \in Fds : Connected(f) => fdtab'[f] = fdtab[f]
      BY <1>t, <3>1, ClientsAssumption DEF KernelTypeOK, Connected
    <3> QED
      BY <2>2, <3>2 DEF KernelInv, Connected
  <2>4. \A g \in Fds : fdtab[g] = "free" => g \notin read_set
    BY <2>1, ClientsAssumption DEF Readable, Connected
  <2>5. \A f \in read_set : \A g : f = g /\ Connected(g) => Readable(g)'
    BY <2>1, <2>3, ReadableKept DEF Connected
  <2>6. ASSUME NEW k \in Valid', clients'[k] \in read_set
        PROVE  \E l \in Valid : clients'[k] = clients[l]
    <3>1. CASE clients' = clients
      BY <2>6, <3>1 DEF Valid
    <3>2. CASE \E f \in Fds : Accept(f) /\ clients' = Append(clients, f)
      <4>1. PICK f \in Fds : fdtab[f] = "free" /\ clients' = Append(clients, f)
        BY <3>2 DEF Accept, LowestFree
      <4>2. k \in Valid \/ clients'[k] = f
        BY <1>t, <2>6, <4>1, AppendedSlots
      <4>3. k \in Valid /\ clients'[k] = clients[k]
        BY <1>t, <2>4, <2>6, <4>1, <4>2, AppendedSlots
      <4> QED
        BY <4>3
    <3> QED
      BY <1>5, <3>1, <3>2 DEF AcceptNothing, AcceptClient, Forgets, Refuses
  <2>7. ASSUME NEW k \in Ahead', NEW g, g = clients'[k], g \in read_set
        PROVE  Readable(g)'
    <3>1. PICK l \in Valid : g = clients[l]
      BY <2>6, <2>7 DEF Ahead
    <3>2. Connected(g)
      BY <1>s, <2>1, <3>1
    <3> QED
      BY <2>5, <2>7, <3>2
  <2> QED
    BY <2>1, <2>7 DEF StillReadable, Readable, Connected, Available
<1>6. CASE ScanSkips
  BY <1>6, <1>4, <1>t
     DEF ScanSkips, Scanning, Running, StillReadable, Ahead, Valid, kernel
<1>7. CASE ScanRecv \/ ScanRecvEnds \/ Send \/ SendFailed
  <2>1. PICK f : f = clients[i] /\ i \in Valid
    BY <1>7
       DEF ScanRecv, ScanRecvEnds, Scanned, Send, SendFailed, TypeInv, Sending
  <2>2. \/ UNCHANGED kernel \/ RecvData(f) \/ RecvEnds(f) \/ SendFails(f)
        \/ \E byte : SendByte(f, byte)
    BY <1>7, <2>1 DEF ScanRecv, ScanRecvEnds, Send, SendStep, SendFailed
  <2>3. UNCHANGED fdtab /\ \A c \in Clients : c # fdtab[f] => conn'[c] = conn[c]
    BY <1>t, <2>2, CallOnOne DEF kernel
  <2>4. /\ UNCHANGED <<clients, read_set>> /\ Running /\ Scanning /\ Scanning'
        /\ pc' # "accept"
    BY <1>7
       DEF ScanRecv, ScanRecvEnds, Scanned, Send, SendFailed, Running, Scanning
  <2>5. Ahead' \subseteq Ahead \ {i}
    BY <1>7, <1>t, <2>1
       DEF ScanRecv, ScanRecvEnds, Scanned, Send, SendFailed, Ahead, Valid
  <2>6. \A k \in Valid \ {i} : fdtab[clients[k]] # fdtab[f] /\ fdtab[clients[k]] \in Clients
    BY <2>1, <2>4, <1>t DEF KernelInv, SlotsAreConnections, Held, Connected
  <2>7. \A k \in Ahead' : clients'[k] = clients[k] /\ k \in Ahead /\ k \in Valid \ {i}
    BY <2>4, <2>5 DEF Ahead
  <2>8. \A l \in Ahead : clients[l] \in read_set => Readable(clients[l])
    BY <2>4 DEF StillReadable
  <2> QED
    BY <1>4, <2>3, <2>4, <2>6, <2>7, <2>8
<1>8. CASE Removes
  <2>1. i \in Valid /\ Running /\ Scanning /\ Scanning' /\ pc = "remove"
        /\ read_set' = read_set /\ pc' # "accept"
    BY <1>8 DEF Removes, TypeInv, Running, Scanning
  <2>2. \A k \in Valid' : \E l \in Valid \ {i} :
           clients'[k] = clients[l] /\ (k >= i' => l > i)
    BY <1>8, <1>t, <2>1, RemovedSlots
  <2>3. ASSUME NEW k \in Ahead'
        PROVE  \E l \in Ahead : l \in Valid \ {i} /\ clients'[k] = clients[l]
    <3>1. k \in Valid' /\ k \in Nat /\ i' \in Nat /\ k >= i'
      <4>1. i' \in {i, i + 1} /\ clients' \in Seq(Entries)
        BY <1>8, <1>t, <2>1, RemovedSlots
      <4>2. DOMAIN clients' = 1..Len(clients') /\ Len(clients') \in Nat
        BY <4>1, LenProperties
      <4> QED
        BY <1>t, <4>1, <4>2 DEF Ahead, Valid
    <3>2. PICK l \in Valid \ {i} : clients'[k] = clients[l] /\ l > i
      BY <2>2, <3>1
    <3> QED
      BY <3>2 DEF Ahead
  <2>4. ASSUME NEW l \in Valid \ {i}
        PROVE  /\ fdtab'[clients[l]] = fdtab[clients[l]]
               /\ conn'[fdtab[clients[l]]] = conn[fdtab[clients[l]]]
    <3>1. Connected(clients[l]) /\ clients[l] # clients[i] /\ Connected(clients[i])
      BY <2>1 DEF SlotsAreConnections, Held
    <3>2. PICK g \in Fds, c \in Clients :
             g = clients[l] /\ c = fdtab[g] /\ g # clients[i] /\ fdtab[clients[i]] # c
             /\ fdtab[clients[i]] \in Clients /\ conn[c].sv = "accepted"
      BY <3>1 DEF Connected, KernelInv
    <3>3. fdtab'[g] = fdtab[g] /\ conn'[c] = conn[c]
      BY <1>8, <3>2, ClientsAssumption DEF Removes, CloseFd
    <3> QED
      BY <3>2, <3>3
  <2>5. \A l \in Ahead : clients[l] \in read_set => Readable(clients[l])
    BY <2>1 DEF StillReadable
  <2>6. \A k \in Ahead' : \E l \in Ahead :
           /\ clients'[k] = clients[l]
           /\ fdtab'[clients[l]] = fdtab[clients[l]]
           /\ conn'[fdtab[clients[l]]] = conn[fdtab[clients[l]]]
    BY <2>3, <2>4
  <2> QED
    BY <1>4, <2>1, <2>5, <2>6
<1> QED
  BY <1>1, <1>2, <1>3, <1>5, <1>6, <1>7, <1>8, <1>9 DEF SelectNext, Loop

-----------------------------------------------------------------------------
(* The bytes.                                                              *)

\* Steps that move no data and leave the buffer to whom it belongs.
LEMMA QuietStreams ==
  ASSUME Streams, KernelInv', NEW c \in Clients, Quiet(c), Waiting(c)' = Waiting(c)
  PROVE  Prefix(c)' /\ InStep(c, Waiting(c))'
<1>1. Prefix(c) /\ InStep(c, Waiting(c))
  BY DEF Streams
<1> QED
  BY <1>1, QuietPrefix DEF InStep, Owed, Quiet

\* A call on the connection of the scanned client concerns nobody else.
LEMMA OthersInStep ==
  ASSUME Streams, KernelInv', UNCHANGED <<clients, fdtab>>,
         Sending' => i' = i,
         NEW c \in Clients, c # fdtab[clients[i]], conn'[c] = conn[c]
  PROVE  Prefix(c)' /\ InStep(c, Waiting(c))'
<1>1. Waiting(c) = <<>> /\ Waiting(c)' = <<>>
  BY DEF Waiting
<1> QED
  BY <1>1, UntouchedQuiet, QuietStreams

LEMMA StepStreams ==
  ASSUME TypeInv, KernelInv, SlotsAreConnections, Streams, KernelInv', [SelectNext]_vars
  PROVE  Streams'
<1> USE DEF Step
<1>t. KernelTypeOK /\ unsent \in Seq(Bytes) /\ \A k \in Valid : clients[k] \in Fds
  BY Known
<1>i. Sending \/ pc = "remove" =>
         i \in Valid /\ Connected(clients[i]) /\ fdtab[clients[i]] \in Clients
  BY DEF TypeInv, SlotsAreConnections, Held, Running, Sending, Connected
\* Steps outside the service of one client.
<1>q. ASSUME \A c \in Clients : Quiet(c), ~Sending, ~Sending', pc' # "remove"
      PROVE  Streams'
  <2>1. \A c \in Clients : Waiting(c)' = Waiting(c)
    BY <1>q DEF Waiting
  <2>2. \A c \in Clients : Prefix(c)' /\ InStep(c, Waiting(c))'
    BY <1>q, <2>1, QuietStreams
  <2> QED
    BY <1>q, <2>2 DEF Streams
<1>1. CASE UNCHANGED vars \/ Environment
  <2>1. UNCHANGED <<process, fdtab>>
    BY <1>1 DEF vars, kernel, Environment, ClientStep, Connect, ClientSend,
       ClientRecv, ClientClose, ClientAbort, ResetArrives
  <2>2. \A c \in Clients : Quiet(c)
    <3>1. CASE Environment
      BY <1>t, <3>1, ClientStepInv DEF Environment
    <3> QED
      BY <1>1, <3>1 DEF vars, kernel, Quiet
  <2>3. \A c \in Clients : Waiting(c)' = Waiting(c)
    BY <2>1 DEF process, Waiting, Sending
  <2>4. \A c \in Clients : Prefix(c)' /\ InStep(c, Waiting(c))'
    BY <2>2, <2>3, QuietStreams
  <2>5. pc' = "remove" => Settled(fdtab[clients[i]])'
    <3> SUFFICES ASSUME pc' = "remove" PROVE Settled(fdtab[clients[i]])'
      OBVIOUS
    <3>1. PICK c \in Clients : c = fdtab[clients[i]] /\ Settled(c)
      BY <1>i, <2>1 DEF process, Streams
    <3>2. Settled(c)'
      BY <2>2, <3>1, QuietSettled
    <3> QED
      BY <2>1, <3>1, <3>2 DEF process, Settled
  <2> QED
    BY <2>4, <2>5 DEF Streams
<1>2. CASE BuildCorruptsStack \/ SendKills \/ MainEnds
  <2>1. CloseAll /\ ~Sending' /\ pc' # "remove"
    BY <1>2 DEF BuildCorruptsStack, SendKills, MainEnds, Terminate, Sending
  <2>2. \A c \in Clients : Quiet(c)
    BY <1>t, <2>1, CloseAllInv
  <2>3. ASSUME NEW c \in Clients PROVE Prefix(c)' /\ InStep(c, Waiting(c))'
    <3>1. Waiting(c)' = <<>> /\ conn[c] \in Conn
      BY <1>t, <2>1 DEF Waiting, KernelTypeOK
    <3>2. conn'[c].sv \in {"none", "closed"}
      BY <2>1, <3>1 DEF CloseAll, Conn
    <3>3. InStep(c, <<>>)'
      BY <3>2 DEF InStep, Owed, KernelInv
    <3>4. Prefix(c)'
      BY <2>2, QuietPrefix DEF Streams
    <3> QED
      BY <3>1, <3>3, <3>4 DEF InStep, Owed
  <2> QED
    BY <2>1, <2>3 DEF Streams
<1>3. CASE StartFails \/ BuildReadSet \/ SelectReady \/ SelectTimeout
           \/ AcceptNothing \/ ScanSkips \/ ScanEnds \/ LoopFails \/ ClientsGone
  <2>1. \A c \in Clients : Quiet(c)
    BY <1>3
       DEF StartFails, BuildReadSet, SelectReady, SelectTimeout, AcceptNothing,
           ScanSkips, ScanEnds, LoopFails, SelectFails, ClientsGone, kernel, Quiet
  <2> QED
    BY <1>3, <1>q, <2>1
       DEF StartFails, BuildReadSet, SelectReady, SelectTimeout, AcceptNothing,
       Accepting, ScanSkips, ScanEnds, LoopFails, SelectFails, ClientsGone,
       Sending
<1>4. CASE Start \/ AcceptClient \/ Forgets \/ Refuses
  <2>1. \A c \in Clients : Quiet(c)
    BY <1>4, <1>t, ListenInv, AcceptInv, RefuseInv
       DEF Start, AcceptClient, Forgets, Refuses
  <2> QED
    BY <1>4, <1>q, <2>1
       DEF Start, AcceptClient, Forgets, Refuses, Accepting, Sending
<1>5. CASE Removes \/ ListenerCloses \/ CloseClient
  <2>1. \A c \in Clients : Quiet(c)
    BY <1>5, <1>t, CloseFdInv
       DEF Removes, ListenerCloses, CloseClient, kernel, Quiet
  <2> QED
    BY <1>5, <1>q, <2>1 DEF Removes, ListenerCloses, CloseClient, Sending
<1>6. CASE ScanRecv
  <2>1. PICK f \in Fds, c \in Clients :
           f = clients[i] /\ c = fdtab[f] /\ RecvData(f)
    BY <1>6, <1>t DEF ScanRecv, Scanned, RecvData, Connected
  <2>2. InStep(c, <<>>) /\ Prefix(c)
    BY <1>6 DEF ScanRecv, Scanned, Waiting, Sending, Streams
  <2>3. /\ Prefix(c)' /\ UNCHANGED fdtab
        /\ \A d \in Clients \ {c} : conn'[d] = conn[d]
    BY <1>t, <2>1, <2>2, RecvInStep
  <2>4. PICK r \in Seq(Bytes) : r = RecvBytes(f) /\ InStep(c, r)'
    BY <1>t, <2>1, <2>2, RecvInStep
  <2>5. Waiting(c)' = r
    BY <1>6, <2>1, <2>3, <2>4 DEF ScanRecv, Waiting, Sending
  <2>6. InStep(c, Waiting(c))'
    BY <2>4, <2>5 DEF InStep, Owed
  <2>7. \A d \in Clients \ {c} : Prefix(d)' /\ InStep(d, Waiting(d))'
    BY <1>6, <2>1, <2>3, OthersInStep DEF ScanRecv
  <2>8. \A d \in Clients : Prefix(d)' /\ InStep(d, Waiting(d))'
    BY <2>3, <2>6, <2>7
  <2> QED
    BY <1>6, <2>8 DEF ScanRecv, Streams
<1>7. CASE ScanRecvEnds
  <2>1. PICK f \in Fds, c \in Clients :
           f = clients[i] /\ c = fdtab[f] /\ RecvEnds(f) /\ Connected(f)
    BY <1>7, <1>t
       DEF ScanRecvEnds, Scanned, SlotsAreConnections, Held, Running, Connected
  <2>2. InStep(c, <<>>)
    BY <1>7 DEF ScanRecvEnds, Scanned, Waiting, Sending, Streams
  <2>3. (\A d \in Clients : Quiet(d)) /\ Settled(c)'
    BY <1>t, <2>1, <2>2, RecvEndsInv, RecvEndsSettled
  <2>4. UNCHANGED <<fdtab, clients, i>>
        /\ \A d \in Clients : Waiting(d)' = Waiting(d)
    BY <1>7 DEF ScanRecvEnds, Scanned, RecvEnds, Waiting, Sending
  <2>5. \A d \in Clients : Prefix(d)' /\ InStep(d, Waiting(d))'
    BY <2>3, <2>4, QuietStreams
  <2>6. Settled(fdtab[clients[i]])'
    BY <2>1, <2>3, <2>4 DEF Settled
  <2> QED
    BY <2>5, <2>6 DEF Streams
<1>8. CASE Send
  <2>1. PICK f \in Fds, c \in Clients :
           f = clients[i] /\ c = fdtab[f] /\ Connected(f)
    BY <1>8, <1>t, <1>i DEF Send, Sending
  <2>2. unsent # <<>> /\ InStep(c, unsent) /\ Prefix(c)
    BY <1>8, <2>1 DEF Send, Waiting, Sending, Streams, TypeInv
  <2>3. PICK o \in Seq(Bytes) : o = unsent
    BY <1>t
  <2>4. PICK u : u = unsent'
    OBVIOUS
  <2>5. /\ UNCHANGED fdtab
        /\ \A d \in Clients \ {c} : conn'[d] = conn[d]
        /\ InStep(c, u)' /\ Prefix(c)'
    <3>1. CASE SendByte(f, Head(o)) /\ u = Tail(o)
      BY <1>t, <2>1, <2>2, <2>3, <3>1, SendInStep
    <3>2. CASE SendCutShort(f) /\ UNCHANGED kernel
      BY <1>t, <2>1, <2>2, <3>2 DEF kernel, SendCutShort, InStep, Prefix
    <3> QED
      BY <1>8, <2>1, <2>3, <2>4, <3>1, <3>2 DEF Send, SendStep
  <2>6. Waiting(c)' = u
    <3>1. CASE u = <<>>
      BY <1>8, <2>4, <3>1 DEF Send, Waiting, Sending
    <3>2. CASE u # <<>>
      BY <1>8, <2>1, <2>4, <2>5, <3>2 DEF Send, Waiting, Sending
    <3> QED
      BY <3>1, <3>2
  <2>7. InStep(c, Waiting(c))'
    BY <2>5, <2>6 DEF InStep, Owed
  <2>8. \A d \in Clients \ {c} : Prefix(d)' /\ InStep(d, Waiting(d))'
    BY <1>8, <2>1, <2>5, OthersInStep DEF Send, Sending
  <2>9. \A d \in Clients : Prefix(d)' /\ InStep(d, Waiting(d))'
    BY <2>5, <2>7, <2>8
  <2> QED
    BY <1>8, <2>9 DEF Send, Streams
<1>9. CASE SendFailed
  <2>1. PICK f \in Fds, c \in Clients :
           f = clients[i] /\ c = fdtab[f] /\ Connected(f) /\ SendFails(f)
    BY <1>9, <1>t, <1>i DEF SendFailed, Sending
  <2>2. (\A d \in Clients : Quiet(d)) /\ Settled(c)'
    BY <1>t, <2>1, SendFailsInv, SendFailsSettled
  <2>3. UNCHANGED fdtab /\ clients' = clients
    BY <1>9, <2>1 DEF SendFails, SendFailed
  <2>4. \A d \in Clients \ {c} : Prefix(d)' /\ InStep(d, Waiting(d))'
    <3>1. \A d \in Clients \ {c} : Waiting(d)' = Waiting(d)
      BY <1>9, <2>1, <2>3 DEF SendFailed, Waiting, Sending
    <3> QED
      BY <2>2, <3>1, QuietStreams
  <2>5. Prefix(c)' /\ InStep(c, Waiting(c))'
    <3>1. conn'[c].rst # "no"
      BY <2>1, <2>2 DEF SendFails, Quiet
    <3> QED
      BY <2>2, <3>1, QuietPrefix DEF InStep, Streams
  <2>6. pc' = "remove" => Settled(fdtab[clients[i]])'
    BY <1>9, <2>1, <2>2, <2>3 DEF SendFailed, Settled
  <2>7. \A d \in Clients : Prefix(d)' /\ InStep(d, Waiting(d))'
    BY <2>4, <2>5
  <2> QED
    BY <2>6, <2>7 DEF Streams
<1> QED
  BY <1>1, <1>2, <1>3, <1>4, <1>5, <1>6, <1>7, <1>8, <1>9 DEF SelectNext, Loop

LEMMA InitSelect == Init => SelectInv
<1> SUFFICES ASSUME Init PROVE SelectInv
  OBVIOUS
<1>1. KernelInit /\ KernelInv /\ TypeInv /\ pc = "start"
  BY KernelInitInv, InitTyped DEF Init
<1>2. ListenerKept /\ SlotsAreConnections /\ StillReadable
  <2>1. Valid = {} /\ ~Listening
    BY <1>1 DEF TypeInv, Valid, KernelInit, Listening
  <2> QED
    BY <1>1, <2>1
       DEF ListenerKept, Listening, SlotsAreConnections, Held, StillReadable,
           Running, Scanning
<1>3. Streams
  <2>1. \A c \in Clients : Waiting(c) = <<>>
    BY <1>1 DEF Waiting, Sending
  <2>2. \A c \in Clients : conn[c].taken = 0 /\ conn[c].sent = 0 /\ conn[c].echo = <<>>
    BY <1>1 DEF KernelInit
  <2> QED
    BY <1>1, <2>1, <2>2 DEF Streams, Prefix, InStep, Owed
<1> QED
  BY <1>1, <1>2, <1>3 DEF SelectInv

LEMMA StepSelect == SelectInv /\ [SelectNext]_vars => SelectInv'
BY StepTyped, StepKernel, StepListener, StepSlots, StepReadable, StepStreams
   DEF SelectInv

LEMMA AlwaysSelect == SelectSpec => []SelectInv
BY InitSelect, StepSelect, PTL DEF SelectSpec

-----------------------------------------------------------------------------
(* The theorems, for select_based_server() and for SelectEchoServer.       *)

\* The variables of both servers keep to their types: the table never grows
\* beyond FD_SETSIZE entries and the index of the scan stays in it.
THEOREM TypeCorrect == (Array!Spec => []TypeOK) /\ (Vector!Spec => []TypeOK)
<1>1. SelectInv => TypeOK
  BY DEF SelectInv, TypeInv
<1> QED
  BY <1>1, AlwaysSelect, ArrayImplements, VectorImplements, PTL

\* The entries of the table that hold a client are distinct open connections,
\* though entries move or are emptied in the middle of a scan.
THEOREM TableIsConnections ==
  (Array!Spec => []SlotsAreConnections) /\ (Vector!Spec => []SlotsAreConnections)
<1>1. SelectInv => SlotsAreConnections
  BY DEF SelectInv
<1> QED
  BY <1>1, AlwaysSelect, ArrayImplements, VectorImplements, PTL

\* recv() on a blocking socket always finds something: what select() reported is
\* still so when the scan gets there, whatever the scan did before.
THEOREM NeverBlocksInRecv ==
  (Array!Spec => []RecvNeverBlocks) /\ (Vector!Spec => []RecvNeverBlocks)
<1>1. SelectInv => RecvNeverBlocks
  <2> SUFFICES ASSUME StillReadable, Scanned PROVE Readable(clients[i])
    BY DEF SelectInv, RecvNeverBlocks
  <2>1. i \in Ahead /\ clients[i] \in read_set /\ Scanning
    BY DEF Scanned, Ahead, Scanning
  <2> QED
    BY <2>1 DEF StillReadable
<1> QED
  BY <1>1, AlwaysSelect, ArrayImplements, VectorImplements, PTL

\* A client gets its own bytes back, each once and in order, though send() may
\* be cut short and the result is not looked at.
THEOREM EchoIsPrefix == (Array!Spec => []EchoPrefix) /\ (Vector!Spec => []EchoPrefix)
<1>1. SelectInv => EchoPrefix
  BY DEF SelectInv, Streams, Prefix, EchoPrefix
<1> QED
  BY <1>1, AlwaysSelect, ArrayImplements, VectorImplements, PTL

\* Only the removal of the scanned client closes a connection that was accepted
\* while the server runs on.
LEMMA ClosedBy ==
  ASSUME SelectInv, SelectNext, Running', NEW c \in Clients,
         conn[c].sv = "accepted", conn'[c].sv = "closed"
  PROVE  Removes /\ Settled(c)
<1>1. KernelTypeOK /\ KernelInv /\ conn' # conn
  BY Known DEF SelectInv
<1>2. ~Environment
  BY <1>1, KeepsOpen DEF Environment
<1>3. ~UNCHANGED kernel /\ ~Start
  BY <1>1 DEF kernel, Start, Listen
<1>4. /\ ~BuildCorruptsStack /\ ~SendKills /\ ~MainEnds
      /\ ~ListenerCloses /\ ~CloseClient
  BY DEF BuildCorruptsStack, SendKills, MainEnds, Terminate, ListenerCloses,
     CloseClient, Step, Running
<1>5. ~AcceptClient /\ ~Forgets /\ ~ScanRecv /\ ~ScanRecvEnds /\ ~SendFailed
  BY <1>1, KeepsOpen
     DEF AcceptClient, Forgets, ScanRecv, ScanRecvEnds, SendFailed
<1>6. ~Send
  BY <1>1, <1>3, KeepsOpen DEF Send, SendStep
<1>7. ~Refuses
  <2>1. ASSUME NEW d \in Pending, conn' = [conn EXCEPT ![d].sv = "closed"]
        PROVE  conn'[c] = conn[c]
    BY <1>1, <2>1 DEF Pending, KernelTypeOK
  <2>2. conn'[c] # conn[c]
    OBVIOUS
  <2> QED
    BY <2>1, <2>2 DEF Refuses
<1>8. Removes
  BY <1>2, <1>3, <1>4, <1>5, <1>6, <1>7 DEF SelectNext, Loop, StartFails,
     BuildReadSet, SelectReady, SelectTimeout, AcceptNothing, ScanSkips,
     ScanEnds, LoopFails, SelectFails, ClientsGone
<1>9. fdtab[clients[i]] = c /\ pc = "remove"
  BY <1>1, <1>8, CloseFdInv DEF Removes, Step
<1> QED
  BY <1>8, <1>9 DEF SelectInv, Streams

\* A running server closes a client it tracks only after the client closed, and
\* with every byte of an orderly leaver echoed.
THEOREM ClosesLeaversOnly ==
  (Array!Spec => CloseIsJustified) /\ (Vector!Spec => CloseIsJustified)
<1> DEFINE A == \A c \in Clients :
                  conn[c].sv = "accepted" /\ conn'[c].sv = "closed" /\ Running' =>
                     /\ conn[c].cl = "closed"
                     /\ conn[c].rst = "no" => Len(conn[c].echo) = conn[c].sent
<1>1. SelectInv /\ [SelectNext]_vars => [A]_vars
  <2> SUFFICES ASSUME SelectInv, SelectNext PROVE A
    OBVIOUS
  <2>1. \A c \in Clients :
           conn[c].sv = "accepted" /\ conn'[c].sv = "closed" /\ Running' => Settled(c)
    BY ClosedBy
  <2> QED
    BY <2>1 DEF Settled
<1> QED
  BY <1>1, AlwaysSelect, ArrayImplements, VectorImplements, PTL
     DEF SelectSpec, CloseIsJustified

\* A running server forgets no connection: one that it does not track found the
\* table full when it was accepted.
THEOREM NothingForgotten ==
  (Array!Spec => EveryConnectionTracked) /\ (Vector!Spec => EveryConnectionTracked)
<1> DEFINE A == \A f \in Fds :
                  /\ Running /\ Running'
                  /\ fdtab'[f] \in Clients
                  /\ f \notin Tracked'
                  => \/ ~Connected(f) /\ Len(clients) = FdSetSize
                     \/ Connected(f) /\ f \notin Tracked
<1>1. SelectInv /\ [SelectNext]_vars => [A]_vars
  <2> SUFFICES ASSUME SelectInv, SelectNext, Running, Running', NEW f \in Fds,
                      fdtab'[f] \in Clients, f \notin Tracked'
               PROVE  \/ ~Connected(f) /\ Len(clients) = FdSetSize
                      \/ Connected(f) /\ f \notin Tracked
    OBVIOUS
  <2>t. KernelTypeOK /\ KernelInv /\ clients \in Seq(Entries)
    BY Known DEF SelectInv
  <2>1. CASE UNCHANGED <<fdtab, clients>>
    BY <2>1 DEF Connected, Tracked, Valid
  <2>2. CASE AcceptClient \/ Forgets
    <3>1. PICK g \in Fds : /\ Accept(g)
                          /\ \/ clients' = Append(clients, g)
                             \/ clients' = clients /\ Len(clients) = FdSetSize
      BY <2>2 DEF AcceptClient, Forgets
    <3>2. /\ \A h \in Fds \ {g} : fdtab'[h] = fdtab[h]
          /\ fdtab[g] = "free"
      BY <2>t, <3>1, AcceptInv DEF Accept, LowestFree
    <3>3. ~Connected(g)
      BY <3>2, ClientsAssumption DEF Connected
    <3>4. CASE clients' = Append(clients, g)
      <4>1. /\ Valid' = Valid \cup {Len(clients')} /\ clients'[Len(clients')] = g
            /\ \A k \in Valid : clients'[k] = clients[k]
        BY <2>t, <3>4, AppendedSlots
      <4>2. f # g /\ f \notin Tracked
        BY <4>1 DEF Tracked
      <4> QED
        BY <3>2, <4>2 DEF Connected
    <3>5. CASE clients' = clients /\ Len(clients) = FdSetSize
      <4>1. f \notin Tracked
        BY <3>5 DEF Tracked, Valid
      <4> QED
        BY <3>2, <3>3, <3>5, <4>1 DEF Connected
    <3> QED
      BY <3>1, <3>4, <3>5
  <2>3. CASE Removes
    <3>1. i \in Valid /\ \A k \in Valid \ {i} : \E l \in Valid' : clients'[l] = clients[k]
      <4>1. i \in Valid
        BY <2>3 DEF Removes, Step, SelectInv, TypeInv
      <4> QED
        BY <2>3, <2>t, <4>1, RemovedSlots
    <3>2. \A g \in Fds : fdtab'[g] = IF g = clients[i] THEN "free" ELSE fdtab[g]
      BY <2>3 DEF Removes, CloseFd
    <3>3. f # clients[i] /\ fdtab'[f] = fdtab[f]
      BY <3>2, ClientsAssumption
    <3>4. f \notin Tracked
      BY <3>1, <3>3 DEF Tracked
    <3> QED
      BY <3>3, <3>4 DEF Connected
  <2> QED
    BY <2>1, <2>2, <2>3
       DEF SelectNext, Loop, Start, StartFails, BuildReadSet,
           BuildCorruptsStack,
       SelectReady, SelectTimeout, LoopFails, SelectFails, ListenerCloses,
       CloseClient, ClientsGone, MainEnds, AcceptNothing, ScanSkips, ScanEnds,
       ScanRecv, RecvData, ScanRecvEnds, RecvEnds, Send, SendStep, SendByte,
       SendKills,
       SendFailed, SendFails, Refuses, Terminate, Running, Step, kernel,
       Environment,
       ClientStep, Connect, ClientSend, ClientRecv, ClientClose, ClientAbort,
       ResetArrives, process
<1> QED
  BY <1>1, AlwaysSelect, ArrayImplements, VectorImplements, PTL
     DEF SelectSpec, EveryConnectionTracked

-----------------------------------------------------------------------------
(* The refinement.                                                         *)

LEMMA InitRefines == Init => Service!Init
BY PhaseValues DEF Init, KernelInit, Service!Init

LEMMA StepRefines == SelectInv /\ [SelectNext]_vars => [Service!Next]_(Service!vars)
<1> SUFFICES ASSUME SelectInv, [SelectNext]_vars
             PROVE  Service!Next \/ UNCHANGED Service!vars
  OBVIOUS
<1>1. KernelTypeOK /\ KernelInv
  BY Known DEF SelectInv
<1>2. CASE UNCHANGED conn
  BY <1>2, NothingSeen DEF Seen
<1>3. CASE UNCHANGED vars \/ Start \/ StartFails \/ BuildReadSet \/ SelectReady
           \/ SelectTimeout \/ AcceptNothing \/ ScanSkips \/ ScanEnds
           \/ LoopFails \/ ClientsGone
  BY <1>2, <1>3 DEF vars, kernel, Start, Listen, StartFails, BuildReadSet,
     SelectReady, SelectTimeout, AcceptNothing, ScanSkips, ScanEnds, LoopFails,
     SelectFails, ClientsGone
<1>4. CASE Environment
  BY <1>1, <1>4, ClientStepSeen DEF Environment
<1>5. CASE BuildCorruptsStack \/ SendKills \/ MainEnds
  BY <1>1, <1>5, CloseAllInv, ClosingLeaves
     DEF BuildCorruptsStack, SendKills, MainEnds, Terminate
<1>6. CASE AcceptClient \/ Forgets
  BY <1>1, <1>6, AcceptSeen DEF AcceptClient, Forgets
<1>7. CASE Refuses
  BY <1>1, <1>7, RefuseInv, ClosingLeaves DEF Refuses
<1>8. CASE ScanRecv \/ ScanRecvEnds \/ SendFailed
  BY <1>1, <1>8, CallUnseen DEF ScanRecv, ScanRecvEnds, SendFailed
<1>9. CASE Send
  <2>1. PICK f \in Fds, c \in Clients : f = clients[i] /\ c = fdtab[f]
    BY <1>9 DEF Send, SelectInv, TypeInv, SlotsAreConnections, Held, Running,
                Sending, Connected
  <2>2. PICK o \in Seq(Bytes) : o = unsent
    BY DEF SelectInv, TypeInv, TypeOK
  <2>3. o # <<>> /\ InStep(c, o) /\ Prefix(c)
    BY <1>9, <2>1, <2>2 DEF Send, Waiting, Sending, SelectInv, Streams, TypeInv
  <2>4. CASE SendByte(f, Head(o))
    <3>1. Head(o) = <<c, Len(conn[c].echo) + 1>> /\ Len(conn[c].echo) < conn[c].sent
      BY <1>1, <2>1, <2>3, <2>4, SendInStep
    <3> QED
      BY <1>1, <2>1, <2>4, <3>1, EchoSeen
  <2>5. CASE UNCHANGED kernel
    BY <1>2, <2>5 DEF kernel
  <2> QED
    BY <1>9, <2>1, <2>2, <2>4, <2>5 DEF Send, SendStep
<1>10. CASE Removes \/ ListenerCloses
  BY <1>1, <1>10, CloseFdInv, ClosingLeaves DEF Removes, ListenerCloses
<1>11. CASE CloseClient
  BY <1>1, <1>2, <1>11, CloseFdInv, ClosingLeaves DEF CloseClient, kernel
<1> QED
  BY <1>3, <1>4, <1>5, <1>6, <1>7, <1>8, <1>9, <1>10, <1>11 DEF SelectNext, Loop

\* Both servers implement the echo service: each of their steps is one of the
\* service or one that no client sees.
THEOREM Refinement ==
  (Array!Spec => ImplementsEchoService) /\ (Vector!Spec => ImplementsEchoService)
BY InitRefines, StepRefines, AlwaysSelect, ArrayImplements, VectorImplements,
   PTL
   DEF SelectSpec, ImplementsEchoService, Service!Spec

-----------------------------------------------------------------------------
(* The three servers on one kernel.  What is proved of simple_echo_server() *)
(* by itself is used here under the prefix OfSimple; the operators are the  *)
(* same, under three names.                                                 *)

OfSimple == INSTANCE SimpleEchoServerProofs
              WITH pc <- simple_pc, unsent <- simple_unsent

LEMMA SameServer == OfSimple!Server <=> Simple!Server
BY DEF OfSimple!Server, Simple!Server, OfSimple!Start, Simple!Start,
   OfSimple!StartFails, Simple!StartFails, OfSimple!AcceptClient,
   Simple!AcceptClient, OfSimple!AcceptFails, Simple!AcceptFails,
   OfSimple!Recv, Simple!Recv, OfSimple!RecvStops, Simple!RecvStops,
   OfSimple!Send, Simple!Send, OfSimple!SendStep, Simple!SendStep,
   OfSimple!SendError, Simple!SendError, OfSimple!SendKills,
   Simple!SendKills, OfSimple!CloseClient, Simple!CloseClient,
   OfSimple!Terminate, Simple!Terminate, OfSimple!Step, Simple!Step,
   OfSimple!Fds, Simple!Fds, OfSimple!Bytes, Simple!Bytes, OfSimple!kernel,
   Simple!kernel, OfSimple!process, Simple!process, OfSimple!Listening,
   Simple!Listening, OfSimple!Unread, Simple!Unread, OfSimple!LowestFree,
   Simple!LowestFree, OfSimple!NoFreeFd, Simple!NoFreeFd, OfSimple!Pending,
   Simple!Pending, OfSimple!Listen, Simple!Listen, OfSimple!Accept,
   Simple!Accept, OfSimple!Connected, Simple!Connected, OfSimple!Available,
   Simple!Available, OfSimple!RecvCount, Simple!RecvCount,
   OfSimple!RecvBytes, Simple!RecvBytes, OfSimple!RecvData,
   Simple!RecvData, OfSimple!RecvEnds, Simple!RecvEnds, OfSimple!SendByte,
   Simple!SendByte, OfSimple!SendFails, Simple!SendFails,
   OfSimple!SendRaisesSigpipe, Simple!SendRaisesSigpipe,
   OfSimple!SendCutShort, Simple!SendCutShort, OfSimple!CloseFd,
   Simple!CloseFd, OfSimple!CloseAll, Simple!CloseAll

LEMMA SameClients ==
  ASSUME NEW c
  PROVE  OfSimple!ClientStep(c) <=> ClientStep(c)
BY DEF OfSimple!ClientStep, ClientStep, OfSimple!Connect, Connect,
   OfSimple!ClientSend, ClientSend, OfSimple!ClientRecv, ClientRecv,
   OfSimple!MayClose, MayClose, OfSimple!ClientClose, ClientClose,
   OfSimple!ClientAbort, ClientAbort, OfSimple!ResetArrives, ResetArrives,
   OfSimple!Fds, Fds, OfSimple!Listening, Listening, OfSimple!Unread,
   Unread, OfSimple!kernel, kernel, OfSimple!Connected, Connected,
   OfSimple!Pending, Pending

LEMMA SameInit == OfSimple!Init <=> Simple!Init
BY DEF OfSimple!Init, Simple!Init, OfSimple!KernelInit, Simple!KernelInit,
   OfSimple!Fds, Simple!Fds

LEMMA SameTypes ==
  /\ OfSimple!TypeOK <=> Simple!TypeOK
  /\ OfSimple!KernelTypeOK <=> KernelTypeOK
BY
   DEF OfSimple!TypeOK, Simple!TypeOK, OfSimple!KernelTypeOK,
       Simple!KernelTypeOK,
   KernelTypeOK, OfSimple!Conn, Simple!Conn, Conn, OfSimple!Bytes, Simple!Bytes,
   Bytes, OfSimple!Resets, Simple!Resets, Resets, OfSimple!Fds, Simple!Fds, Fds

LEMMA SameSize ==
  ASSUME NEW S
  PROVE  OfSimple!Cardinality(S) = Simple!Cardinality(S)
BY DEF OfSimple!Cardinality, Simple!Cardinality

\* Only the server that was started moves; its own types, and for the simple
\* server all that is known of it, hold beside those of the others.
OneThreadInv ==
    /\ TypeInv
    /\ OfSimple!TypeInv
    /\ IF program = "simple" THEN OfSimple!SimpleInv ELSE simple_pc = "start"

LEMMA InitOneThread == OneThreadInit => OneThreadInv
<1> SUFFICES ASSUME OneThreadInit PROVE OneThreadInv
  OBVIOUS
<1>1. TypeInv
  BY InitTyped DEF OneThreadInit
<1>2. OfSimple!SimpleInv /\ simple_pc = "start"
  BY SameInit, ClientsAssumption, SizesAssumption, OfSimple!InitSimple
     DEF OneThreadInit, Simple!Init
<1> QED
  BY <1>1, <1>2 DEF OneThreadInv, OfSimple!SimpleInv

LEMMA StepOneThread ==
  ASSUME OneThreadInv, [OneThreadNext]_all_vars
  PROVE  /\ OneThreadInv'
         /\ program = "simple" => [OfSimple!Next]_(OfSimple!vars)
<1>k. KernelTypeOK /\ TypeInv /\ OfSimple!TypeInv
  BY Known DEF OneThreadInv
<1>1. ASSUME UNCHANGED simple_process, KernelTypeOK' PROVE OfSimple!TypeInv'
  <2>1. (OfSimple!KernelTypeOK <=> KernelTypeOK)'
    BY SameTypes, PTL
  <2>2. OfSimple!TypeOK'
    BY <1>k, <1>1, <2>1
       DEF simple_process, OfSimple!TypeInv, OfSimple!TypeOK
  <2> QED
    BY <1>k, <1>1, <2>2 DEF simple_process, OfSimple!TypeInv, OfSimple!Sending
<1>2. ASSUME UNCHANGED process, KernelTypeOK' PROVE TypeInv'
  BY <1>k, <1>2 DEF process, TypeInv, TypeOK, Running, Sending, Valid
<1>3. ASSUME program \in {"array", "vector"}, UNCHANGED <<program, simple_process>>,
             SelectNext
      PROVE  OneThreadInv' /\ program # "simple"
  <2>1. TypeInv' /\ KernelTypeOK'
    BY <1>k, <1>3, StepTyped DEF TypeInv, TypeOK
  <2> QED
    BY <1>1, <1>3, <2>1 DEF OneThreadInv, simple_process
<1>4. ASSUME OfSimple!Next \/ UNCHANGED OfSimple!vars, UNCHANGED <<program, process>>
      PROVE  /\ OneThreadInv' \/ program # "simple"
             /\ program = "simple" => [OfSimple!Next]_(OfSimple!vars)
  <2>1. [OfSimple!Next]_(OfSimple!vars)
    BY <1>4
  <2>2. OfSimple!TypeInv'
    BY <1>k, <2>1, ClientsAssumption, SizesAssumption, OfSimple!StepTyped
  <2>3. KernelTypeOK'
    <3>1. (OfSimple!KernelTypeOK <=> KernelTypeOK)'
      BY SameTypes, PTL
    <3> QED
      BY <2>2, <3>1 DEF OfSimple!TypeInv, OfSimple!TypeOK
  <2>4. program = "simple" => OfSimple!SimpleInv'
    BY <2>1, ClientsAssumption, SizesAssumption, OfSimple!StepSimple
       DEF OneThreadInv
  <2> QED
    BY <1>2, <1>4, <2>1, <2>2, <2>3, <2>4 DEF OneThreadInv
<1>5. CASE InSelect("array") /\ Array!Server
  BY <1>3, <1>5, ArrayLoop, ArrayOwn DEF Array!Server, SelectNext, InSelect
<1>6. CASE InSelect("vector") /\ Vector!Server
  BY <1>3, <1>6, VectorLoop, VectorOwn DEF Vector!Server, SelectNext, InSelect
<1>7. CASE InSimple /\ Simple!Server
  BY <1>4, <1>7, SameServer DEF InSimple, OfSimple!Next
<1>8. CASE ByKernel(\E c \in Clients : ClientStep(c))
  <2>1. PICK c \in Clients : ClientStep(c)
    BY <1>8 DEF ByKernel
  <2>2. KernelTypeOK'
    BY <1>k, <2>1, ClientStepTyped
  <2>3. OfSimple!TypeInv' /\ TypeInv'
    BY <1>1, <1>2, <1>8, <2>2 DEF ByKernel
  <2>4. OfSimple!Next
    BY <1>8, <2>1, SameClients
       DEF ByKernel, OfSimple!Next, OfSimple!Environment, OfSimple!process,
           simple_process
  <2> QED
    BY <1>4, <1>8, <2>3, <2>4 DEF ByKernel, OneThreadInv, simple_process
<1>9. CASE UNCHANGED all_vars
  <2>1. KernelTypeOK'
    BY <1>k, <1>9 DEF all_vars, vars, kernel, KernelTypeOK
  <2>2. OfSimple!TypeInv' /\ TypeInv'
    BY <1>1, <1>2, <1>9, <2>1 DEF all_vars, vars
  <2>3. UNCHANGED OfSimple!vars
    BY <1>9 DEF all_vars, vars, kernel, simple_process, OfSimple!vars,
       OfSimple!kernel, OfSimple!process
  <2> QED
    BY <1>4, <1>9, <2>2, <2>3 DEF all_vars, vars, simple_process, OneThreadInv
<1> QED
  BY <1>5, <1>6, <1>7, <1>8, <1>9 DEF OneThreadNext

LEMMA AlwaysOneThread == OneThreadSpec => []OneThreadInv
BY InitOneThread, StepOneThread, PTL DEF OneThreadSpec

\* Whichever of the three servers is started, its variables and the kernel's keep
\* to their types, and those of the other two stay as they were.
THEOREM AllTypesCorrect == OneThreadSpec => []TypesOK
<1>1. OneThreadInv => TypesOK
  BY SameTypes DEF OneThreadInv, TypeInv, OfSimple!TypeInv, TypesOK
<1> QED
  BY <1>1, AlwaysOneThread, PTL

\* The simple server has one connection at most, and ends it only after the
\* client did, with every byte of an orderly leaver echoed.
THEOREM SimpleServesOneAtATime == OneThreadSpec => OneAtATime
<1> DEFINE A == Simple!Running' =>
                  /\ Simple!Cardinality({c \in Clients : conn'[c].sv = "accepted"}) <= 1
                  /\ \A c \in Clients :
                        conn[c].sv = "accepted" /\ conn'[c].sv = "closed" =>
                           /\ conn[c].cl = "closed"
                           /\ conn[c].rst = "no" =>
                                 Len(conn[c].echo) = conn[c].sent
<1>1. OneThreadInv /\ OneThreadInv' /\ [OneThreadNext]_all_vars => [A]_(Simple!vars)
  <2> SUFFICES ASSUME OneThreadInv, OneThreadInv', [OneThreadNext]_all_vars,
                      Simple!Running'
               PROVE  A
    OBVIOUS
  <2>1. program' = program
    BY DEF OneThreadNext, InSelect, InSimple, ByKernel, all_vars
  <2>2. program = "simple"
    BY <2>1 DEF OneThreadInv, Simple!Running
  <2>3. OfSimple!SimpleInv /\ OfSimple!SimpleInv'
    BY <2>1, <2>2 DEF OneThreadInv
  <2>4. [OfSimple!Next]_(OfSimple!vars) /\ OfSimple!Running'
    BY <2>2, StepOneThread DEF OfSimple!Running, Simple!Running
  <2>5. /\ OfSimple!Cardinality({c \in Clients : conn'[c].sv = "accepted"}) <= 1
        /\ \A c \in Clients :
              conn[c].sv = "accepted" /\ conn'[c].sv = "closed" => OfSimple!Settled(c)
    BY <2>3, <2>4, ClientsAssumption, SizesAssumption, OfSimple!OneAtATimeStep
  <2> QED
    BY <2>5, SameSize DEF OfSimple!Settled
<1> QED
  BY <1>1, AlwaysOneThread, PTL DEF OneThreadSpec, OneAtATime, Simple!OneAtATime
=============================================================================
