---------------------------- MODULE ProgramsProofs ----------------------------
(***************************************************************************)
(* The programs of MCPrograms, proved for any number of failures, kills,   *)
(* crashes and restarts and any order of what happens around them.         *)
(***************************************************************************)
EXTENDS MCPrograms, SignalHandlingProofs, SequenceTheorems

\* A step of the composition is a step of one program, and the others stand.
LEMMA EachProgram ==
  ASSUME [ProgramsNext]_all_vars
  PROVE  /\ [Next]_signal_vars
         /\ [Pipe!Next]_pipe_vars
         /\ [Fork!Next]_fork_vars
         /\ [Udp!Next]_udp_vars
         /\ [Session!SessionNext]_session_vars
         /\ [Bandwidth!Next]_bandwidth_vars
         /\ [Nonblocking!Next]_connect_vars
         /\ [File!Next]_file_vars
         /\ [Memory!Next]_memory_vars
         /\ [Directory!Next]_dir_vars
BY DEF ProgramsNext, In, all_vars

-----------------------------------------------------------------------------
(* The session of simple_echo_server() with its clients.  What is proved    *)
(* in EchoSessionProofs is used under the prefix OfSession; the operators   *)
(* are the same, under two names.                                           *)

OfSession == INSTANCE EchoSessionProofs
               WITH pc <- echo_pc, client <- tcp_client, ClientBuf <- MaxBytes,
                    Patient <- {}, Stalled <- {}

LEMMA SameSession == OfSession!SessionNext <=> Session!SessionNext
BY DEF OfSession!SessionNext, Session!SessionNext, OfSession!SessionServer,
   Session!SessionServer, OfSession!ClientRuns, Session!ClientRuns,
   OfSession!NetworkRuns, Session!NetworkRuns, OfSession!TcpClient,
   Session!TcpClient, OfSession!Arrives, Session!Arrives,
   OfSession!ConnectFails, Session!ConnectFails, OfSession!ClientConnects,
   Session!ClientConnects, OfSession!SendRefused, Session!SendRefused,
   OfSession!SendsMessage, Session!SendsMessage, OfSession!CopiesByte,
   Session!CopiesByte, OfSession!RecvReturns, Session!RecvReturns,
   OfSession!RecvEndsEmpty, Session!RecvEndsEmpty, OfSession!ClientAt,
   Session!ClientAt, OfSession!ClientEnded, Session!ClientEnded,
   OfSession!Delivered, Session!Delivered, OfSession!Disconnects,
   Session!Disconnects, OfSession!Connect, Session!Connect,
   OfSession!ClientSend, Session!ClientSend, OfSession!ClientRecv,
   Session!ClientRecv, OfSession!MayClose, Session!MayClose,
   OfSession!ClientClose, Session!ClientClose, OfSession!ClientAbort,
   Session!ClientAbort, OfSession!ResetArrives, Session!ResetArrives,
   OfSession!Server, Session!Server, OfSession!Start, Session!Start,
   OfSession!StartFails, Session!StartFails, OfSession!AcceptClient,
   Session!AcceptClient, OfSession!AcceptFails, Session!AcceptFails,
   OfSession!Recv, Session!Recv, OfSession!RecvStops, Session!RecvStops,
   OfSession!Send, Session!Send, OfSession!SendStep, Session!SendStep,
   OfSession!SendError, Session!SendError, OfSession!SendKills,
   Session!SendKills, OfSession!CloseClient, Session!CloseClient,
   OfSession!Terminate, Session!Terminate, OfSession!Step, Session!Step,
   OfSession!Fds, Session!Fds, OfSession!Bytes, Session!Bytes,
   OfSession!kernel, Session!kernel, OfSession!process, Session!process,
   OfSession!Listening, Session!Listening, OfSession!Unread, Session!Unread,
   OfSession!LowestFree, Session!LowestFree, OfSession!NoFreeFd,
   Session!NoFreeFd, OfSession!Pending, Session!Pending, OfSession!Listen,
   Session!Listen, OfSession!Accept, Session!Accept, OfSession!Connected,
   Session!Connected, OfSession!Available, Session!Available,
   OfSession!RecvCount, Session!RecvCount, OfSession!RecvBytes,
   Session!RecvBytes, OfSession!RecvData, Session!RecvData,
   OfSession!RecvEnds, Session!RecvEnds, OfSession!SendByte, Session!SendByte,
   OfSession!SendFails, Session!SendFails, OfSession!SendRaisesSigpipe,
   Session!SendRaisesSigpipe, OfSession!SendCutShort, Session!SendCutShort,
   OfSession!CloseFd, Session!CloseFd, OfSession!CloseAll, Session!CloseAll

LEMMA SameSessionVars ==
  (UNCHANGED OfSession!sessionVars) <=> (UNCHANGED session_vars)
BY DEF session_vars, OfSession!sessionVars, OfSession!vars, OfSession!kernel,
   OfSession!process

LEMMA SameSessionInit == OfSession!SessionInit <=> Session!SessionInit
BY DEF OfSession!SessionInit, Session!SessionInit, OfSession!Init,
   Session!Init, OfSession!KernelInit, Session!KernelInit, OfSession!Fds,
   Session!Fds

LEMMA SameSessionTypes ==
  /\ OfSession!SessionTypeOK <=> Session!SessionTypeOK
  /\ OfSession!ServerSurvives <=> Session!ServerSurvives
  /\ OfSession!AnswerIsOwn <=> Session!AnswerIsOwn
BY DEF OfSession!SessionTypeOK, Session!SessionTypeOK, OfSession!TypeOK,
   Session!TypeOK, OfSession!KernelTypeOK, Session!KernelTypeOK,
   OfSession!Conn, Session!Conn, OfSession!Bytes, Session!Bytes,
   OfSession!Resets, Session!Resets, OfSession!Fds, Session!Fds,
   OfSession!ServerSurvives, Session!ServerSurvives, OfSession!AnswerIsOwn,
   Session!AnswerIsOwn, OfSession!ClientEnded, Session!ClientEnded

SessionOK == OfSession!SimpleInv /\ OfSession!SessionInv

LEMMA InitSession == Session!SessionInit => SessionOK
BY SameSessionInit, OfSession!InitSession, SessionAssumption DEF SessionOK

LEMMA StepSession ==
  SessionOK /\ [Session!SessionNext]_session_vars => SessionOK'
BY SameSession, SameSessionVars, OfSession!StepSession, SessionAssumption
   DEF SessionOK

LEMMA SessionKnown ==
  SessionOK => Session!SessionTypeOK /\ ServerSurvives /\ Session!AnswerIsOwn
BY SameSessionTypes, OfSession!OwnAnswers, SessionAssumption
   DEF SessionOK, OfSession!SessionInv, OfSession!SimpleInv, OfSession!TypeInv,
       OfSession!SessionTypeOK, ServerSurvives


-----------------------------------------------------------------------------
(* nonblocking_connect()                                                   *)

\* The socket is in non-blocking mode from the connect() on, and nothing is
\* returned before the end.
ConnectOK ==
    /\ Nonblocking!TypeOK
    /\ attempt = "socket" => sockfd = "none"
    /\ attempt \in {"connect", "select", "getsockopt"} => sockfd = "nonblocking"

LEMMA InitConnect == Nonblocking!Init => ConnectOK
BY BoundsAssumption DEF Nonblocking!Init, ConnectOK, Nonblocking!TypeOK

LEMMA StepConnect ==
  ASSUME ConnectOK, [Nonblocking!Next]_connect_vars
  PROVE  /\ ConnectOK'
         /\ result' # result =>
              /\ result' = "fd" => sockfd = "nonblocking" /\ link = "established"
              /\ result' = "-1" => sockfd' \in {"none", "closed"}
<1> USE DEF ConnectOK, Nonblocking!TypeOK, Nonblocking!Step
<1>1. CASE Nonblocking!Socket \/ Nonblocking!SetNonblocking \/ Nonblocking!Connect
  BY <1>1
     DEF Nonblocking!Socket, Nonblocking!SetNonblocking, Nonblocking!Connect
<1>2. CASE Nonblocking!Select \/ Nonblocking!GetSockOpt \/ Nonblocking!Close
  BY <1>2 DEF Nonblocking!Select, Nonblocking!GetSockOpt, Nonblocking!Close
<1>3. CASE Nonblocking!Network \/ UNCHANGED connect_vars
  BY <1>3 DEF Nonblocking!Network, connect_vars
<1>4. CASE Nonblocking!Tick
  BY <1>4, BoundsAssumption DEF Nonblocking!Tick
<1> QED
  BY <1>1, <1>2, <1>3, <1>4 DEF Nonblocking!Next, Nonblocking!Function

-----------------------------------------------------------------------------
(* file_io                                                                 *)

Chunks == {"data", "part", "append"}
Contents == UNION {[1..n -> Chunks] : n \in 0..2}

\* What the file holds at each call: nothing before the write(), then what it
\* wrote, and all of that if no call has failed.
Written == {"open", "read", "open_seek", "read_5", "open_append", "append"}

FileOK ==
    /\ File!TypeOK
    /\ file_pc = "write" => file = <<>>
    /\ file_pc \in Written => file = <<>> \/ \E w \in {"data", "part"} : file = <<w>>
    /\ file_pc \in Written /\ ~file_failed => file = <<"data">>
    /\ File!FileIsWhole

LEMMA AppendToOne ==
  ASSUME NEW v \in Chunks, NEW w \in Chunks
  PROVE  Append(<<v>>, w) = <<v, w>>
<1>1. <<v>> \in Seq(Chunks) /\ Len(<<v>>) = 1 /\ <<v>>[1] = v
  OBVIOUS
<1>2. /\ Append(<<v>>, w) \in Seq(Chunks)
      /\ Len(Append(<<v>>, w)) = 2
      /\ Append(<<v>>, w)[1] = v
      /\ Append(<<v>>, w)[2] = w
  BY <1>1, AppendProperties
<1>3. /\ <<v, w>> \in Seq(Chunks)
      /\ Len(<<v, w>>) = 2
      /\ <<v, w>>[1] = v /\ <<v, w>>[2] = w
  OBVIOUS
<1>4. \A j \in 1..2 : Append(<<v>>, w)[j] = <<v, w>>[j]
  BY <1>2, <1>3
<1> QED
  BY <1>2, <1>3, <1>4, SeqEqual, Zenon

LEMMA ShortContents ==
  /\ <<>> \in Contents
  /\ \A w \in Chunks : <<w>> \in Contents
  /\ \A w \in Chunks : Append(<<>>, w) \in Contents
  /\ \A v, w \in Chunks : Append(<<v>>, w) \in Contents
<1>1. <<>> \in [1..0 -> Chunks]
  OBVIOUS
<1>2. ASSUME NEW w \in Chunks PROVE <<w>> \in [1..1 -> Chunks]
  OBVIOUS
<1>3. ASSUME NEW w \in Chunks PROVE Append(<<>>, w) \in [1..1 -> Chunks]
  OBVIOUS
<1>4. ASSUME NEW v \in Chunks, NEW w \in Chunks
      PROVE  Append(<<v>>, w) \in [1..2 -> Chunks]
  <2>1. <<v, w>> \in [1..2 -> Chunks]
    OBVIOUS
  <2> QED
    BY <2>1, AppendToOne
<1>5. \A n \in 0..2 : [1..n -> Chunks] \subseteq Contents
  BY DEF Contents
<1>6. 0 \in 0..2 /\ 1 \in 0..2 /\ 2 \in 0..2
  OBVIOUS
<1> QED
  BY <1>1, <1>2, <1>3, <1>4, <1>5, <1>6, Zenon

\* write() goes over an empty file.
LEMMA WriteFirst ==
  ASSUME NEW w \in Chunks
  PROVE  <<w>> \o SubSeq(<<>>, 2, Len(<<>>)) = <<w>>
<1>1. SubSeq(<<>>, 2, Len(<<>>)) = <<>>
  OBVIOUS
<1>2. <<w>> \in Seq(Chunks)
  OBVIOUS
<1> QED
  BY <1>1, <1>2, ConcatEmptySeq, Zenon

FilePcs == {"create", "write", "open", "read", "open_seek", "read_5",
            "open_append", "append", "ended", "exit", "killed"}

LEMMA FileTyped ==
  File!TypeOK <=>
    /\ file_pc \in FilePcs
    /\ fd \in {"open", "-1"}
    /\ file \in Contents
    /\ file_failed \in BOOLEAN
    /\ underrun \in BOOLEAN
    /\ file_crashes \in 0..MaxCrashes
BY DEF File!TypeOK, Contents, Chunks, FilePcs

LEMMA InitFile == File!Init => FileOK
<1> SUFFICES ASSUME File!Init PROVE FileOK
  OBVIOUS
<1>1. file \in Contents
  BY ShortContents DEF File!Init
<1>2. file_crashes \in 0..MaxCrashes
  BY BoundsAssumption DEF File!Init
<1>3. file_pc \in FilePcs /\ file_pc \notin Written /\ file_pc \notin {"write", "ended", "killed"}
  BY DEF File!Init, FilePcs, Written
<1>4. File!TypeOK
  BY <1>1, <1>2, <1>3, FileTyped DEF File!Init
<1>5. File!FileIsWhole
  BY <1>3 DEF File!Init, File!FileIsWhole
<1> QED
  BY <1>3, <1>4, <1>5 DEF FileOK

LEMMA StepFile == FileOK /\ [File!Next]_file_vars => FileOK'
<1> SUFFICES ASSUME FileOK, [File!Next]_file_vars PROVE FileOK'
  OBVIOUS
<1>1. /\ file_pc \in FilePcs
      /\ fd \in {"open", "-1"}
      /\ file \in Contents
      /\ file_failed \in BOOLEAN
      /\ underrun \in BOOLEAN
      /\ file_crashes \in 0..MaxCrashes
  BY FileTyped DEF FileOK
<1>2. /\ file_pc = "write" => file = <<>>
      /\ file_pc \in Written => file = <<>> \/ \E w \in {"data", "part"} : file = <<w>>
      /\ file_pc \in Written /\ ~file_failed => file = <<"data">>
      /\ file_pc = "ended" /\ ~file_failed => file = <<"data", "append">>
      /\ underrun \/ file_pc = "killed" => file_failed
  BY DEF FileOK, File!FileIsWhole
<1>3. ASSUME /\ file_pc' \in FilePcs
             /\ fd' \in {"open", "-1"}
             /\ file' \in Contents
             /\ file_failed' \in BOOLEAN
             /\ underrun' \in BOOLEAN
             /\ file_crashes' \in 0..MaxCrashes,
             file_pc' = "write" => file' = <<>>,
             file_pc' \in Written => file' = <<>> \/ \E w \in {"data", "part"} : file' = <<w>>,
             file_pc' \in Written /\ ~file_failed' => file' = <<"data">>,
             file_pc' = "ended" /\ ~file_failed' => file' = <<"data", "append">>,
             underrun' \/ file_pc' = "killed" => file_failed'
      PROVE  FileOK'
  <2>1. File!TypeOK'
    BY <1>3 DEF File!TypeOK, Contents, Chunks, FilePcs
  <2>2. File!FileIsWhole'
    BY <1>3 DEF File!FileIsWhole
  <2> QED
    BY <1>3, <2>1, <2>2 DEF FileOK
<1>4. CASE File!Create
  <2>1. /\ file_pc = "create" /\ file_crashes' = file_crashes /\ underrun' = underrun
        /\ \/ file_pc' = "write" /\ fd' = "open" /\ file' = <<>> /\ file_failed' = file_failed
           \/ file_pc' = "exit" /\ fd' = fd /\ file' = file /\ file_failed' = TRUE
    BY <1>4 DEF File!Create, File!Step, File!Works, File!Fails
  <2>2. file' \in Contents /\ file_pc' \in FilePcs /\ file_pc' \notin Written
    BY <1>1, <2>1, ShortContents DEF FilePcs, Written
  <2> QED
    BY <1>1, <1>2, <1>3, <2>1, <2>2
<1>5. CASE File!Write
  <2>1. /\ file = <<>> /\ file_pc = "write" /\ file_pc' = "open"
        /\ fd' = fd /\ underrun' = underrun /\ file_crashes' = file_crashes
    BY <1>2, <1>5 DEF File!Write, File!Step
  <2>2. \/ file' = <<"data">> /\ file_failed' = file_failed
        \/ (file' = <<"part">> \/ file' = <<>>) /\ file_failed' = TRUE
    <3>1. "data" \in Chunks /\ "part" \in Chunks
      BY DEF Chunks
    <3> QED
      BY <1>5, <2>1, <3>1, WriteFirst DEF File!Write, File!Works, File!Fails
  <2>3. file' \in Contents
    BY <2>2, ShortContents DEF Chunks
  <2>4. file_pc' \in FilePcs
    BY <2>1 DEF FilePcs
  <2> QED
    BY <1>1, <1>2, <1>3, <2>1, <2>2, <2>3, <2>4
<1>6. CASE File!Opens
  <2>1. /\ file_pc \in {"open", "open_seek", "open_append"}
        /\ file_pc' \in {"read", "read_5", "append", "exit"}
        /\ fd' \in {"open", "-1"}
        /\ UNCHANGED <<file, underrun, file_crashes>>
        /\ file_failed' = file_failed \/ file_failed' = TRUE
    BY <1>6 DEF File!Opens, File!Open, File!Step, File!Works, File!Fails
  <2>2. file_pc \in Written /\ file_pc' \in FilePcs
    BY <2>1 DEF Written, FilePcs
  <2>3. file_pc' \notin {"write", "ended", "killed"}
    BY <2>1
  <2>4. file' = file /\ (~file_failed' => ~file_failed)
    BY <1>1, <2>1
  <2>5. /\ file' = <<>> \/ \E w \in {"data", "part"} : file' = <<w>>
        /\ ~file_failed' => file' = <<"data">>
    BY <1>2, <2>2, <2>4, Zenon
  <2>6. file_failed' \in BOOLEAN
    BY <1>1, <2>1
  <2>9. underrun' \in BOOLEAN
    BY <1>1, <2>1
  <2>12. underrun' = underrun
    BY <2>1
  <2>13. file_failed' = file_failed \/ file_failed' = TRUE
    BY <2>1
  <2>10. underrun' => file_failed'
    BY <1>2, <2>12, <2>13, Zenon
  <2>11. file_pc' = "killed" => file_failed'
    BY <1>1, <1>2, <2>1, <2>3
  <2>7. fd' \in {"open", "-1"} /\ file' \in Contents /\ file_crashes' \in 0..MaxCrashes
    BY <1>1, <2>1
  <2>8. /\ file_pc' # "write"
        /\ file_pc' = "ended" /\ ~file_failed' => file' = <<"data", "append">>
    BY <2>3
  <2> QED
    BY <1>3, <2>2, <2>5, <2>6, <2>7, <2>8, <2>9, <2>10, <2>11, Zenon
<1>7. CASE File!Read
  <2>1. /\ file_pc = "read" /\ file_pc' = "open_seek"
        /\ UNCHANGED <<fd, file, underrun, file_crashes>>
        /\ file_failed' = file_failed \/ file_failed' = TRUE
    BY <1>7 DEF File!Read, File!Step, File!Works, File!Fails
  <2>2. file_pc \in Written /\ file_pc' \in FilePcs
    BY <2>1 DEF Written, FilePcs
  <2> QED
    BY <1>1, <1>2, <1>3, <2>1, <2>2
<1>8. CASE File!Read5
  <2>1. /\ file_pc = "read_5" /\ file_pc' \in {"open_append", "killed"}
        /\ UNCHANGED <<fd, file, file_crashes>>
        /\ \/ file_failed' = file_failed /\ underrun' = underrun /\ file_pc' = "open_append"
           \/ file_failed' = TRUE /\ underrun' = TRUE
    BY <1>8 DEF File!Read5, File!Step, File!Works, File!Fails
  <2>2. file_pc \in Written /\ file_pc' \in FilePcs
    BY <2>1 DEF Written, FilePcs
  <2>3. file_pc' \notin {"write", "ended"}
    BY <2>1
  <2>4. file' = file /\ (~file_failed' => ~file_failed)
    BY <1>1, <2>1
  <2>5. /\ file' = <<>> \/ \E w \in {"data", "part"} : file' = <<w>>
        /\ ~file_failed' => file' = <<"data">>
    BY <1>2, <2>2, <2>4, Zenon
  <2>6. file_failed' \in BOOLEAN
    BY <1>1, <2>1
  <2>9. underrun' \in BOOLEAN
    BY <1>1, <2>1
  <2>13. (file_failed' = file_failed /\ underrun' = underrun) \/ file_failed' = TRUE
    BY <2>1
  <2>10. underrun' => file_failed'
    BY <1>2, <2>13, Zenon
  <2>11. file_pc' = "killed" => file_failed'
    BY <1>1, <1>2, <2>1
  <2>7. fd' \in {"open", "-1"} /\ file' \in Contents /\ file_crashes' \in 0..MaxCrashes
    BY <1>1, <2>1
  <2>8. /\ file_pc' # "write"
        /\ file_pc' = "ended" /\ ~file_failed' => file' = <<"data", "append">>
    BY <2>3
  <2> QED
    BY <1>3, <2>2, <2>5, <2>6, <2>7, <2>8, <2>9, <2>10, <2>11, Zenon
<1>9. CASE File!AppendLine
  <2>1. /\ file_pc = "append" /\ file_pc' = "ended"
        /\ UNCHANGED <<fd, underrun, file_crashes>>
        /\ \/ file' = Append(file, "append") /\ file_failed' = file_failed
           \/ (file' = Append(file, "part") \/ file' = file) /\ file_failed' = TRUE
    BY <1>9 DEF File!AppendLine, File!Step, File!Works, File!Fails
  <2>2. /\ "append" \in Chunks /\ "part" \in Chunks /\ {"data", "part"} \subseteq Chunks
        /\ "append" \in Written /\ "ended" \in FilePcs \ Written
    BY DEF Chunks, Written, FilePcs
  <2>3. \A w \in {"append", "part"} : Append(file, w) \in Contents
    BY <1>2, <2>1, <2>2, ShortContents, Zenon
  <2>4. Append(<<"data">>, "append") = <<"data", "append">>
    BY <2>2, AppendToOne
  <2>5. file_pc' = "ended" /\ ~file_failed' => file' = <<"data", "append">>
    BY <1>1, <1>2, <2>1, <2>2, <2>4
  <2>6. file' \in Contents
    BY <1>1, <2>1, <2>3
  <2> QED
    BY <1>1, <1>2, <1>3, <2>1, <2>2, <2>5, <2>6
<1>10. CASE File!Crash
  <2>1. /\ file_pc' = "create" /\ fd' = "-1" /\ file' = file
        /\ file_failed' = FALSE /\ underrun' = FALSE
    BY <1>10 DEF File!Crash
  <2>2. file_crashes' \in 0..MaxCrashes
    BY <1>1, <1>10, BoundsAssumption DEF File!Crash
  <2>3. file_pc' \in FilePcs \ Written
    BY <2>1 DEF FilePcs, Written
  <2> QED
    BY <1>1, <1>3, <2>1, <2>2, <2>3
<1>11. CASE UNCHANGED file_vars
  <2>1. UNCHANGED <<file_pc, fd, file, file_failed, underrun, file_crashes>>
    BY <1>11 DEF file_vars
  <2> QED
    BY <1>1, <1>2, <1>3, <2>1
<1> QED
  BY <1>4, <1>5, <1>6, <1>7, <1>8, <1>9, <1>10, <1>11 DEF File!Next

-----------------------------------------------------------------------------
(* memory_management                                                       *)

\* What the program has taken and not given back, at each call.  Only the calls
\* that go on after a failure may have less, and a NULL that is written to is
\* the failure that ends the program.
MemoryHeld ==
    /\ memory_pc \in {"malloc", "calloc", "stack", "open", "verify", "memalign",
                      "ended", "exit"} => live = {}
    /\ memory_pc \in {"realloc", "free_arr", "realloc_failed"} => live = {"arr"}
    /\ memory_pc = "free_buffer" => live = {"buffer"}
    /\ memory_pc = "store" => live = {"heap_ptr"} \/ (live = {} /\ memory_failed = TRUE)
    /\ memory_pc = "free_heap_ptr" => live = {"heap_ptr"}
    /\ memory_pc \in {"write", "mmap", "mmap_failed", "close"} => live = {"fd"}
    /\ memory_pc \in {"print", "memcpy", "msync", "munmap"} => live = {"fd", "addr"}
    /\ memory_pc \in {"read", "close_verify"} => live \subseteq {"fd"}
    /\ memory_pc = "free_aligned" => live = {"aligned_ptr"}
    /\ memory_pc = "killed" => memory_failed = TRUE

\* The file has all that was written to it, and then all of the change.
MemoryDisk ==
    /\ memory_pc = "write" => copied = 0
    /\ memory_pc \in {"mmap", "print", "memcpy"} /\ memory_failed = FALSE => length = "full"
    /\ memory_pc \in {"msync", "munmap", "close", "verify", "read"} /\ memory_failed = FALSE =>
          length = "full" /\ copied = 2

MemoryOK == Memory!TypeOK /\ MemoryHeld /\ MemoryDisk

MemoryPcs ==
    {"malloc", "realloc", "free_arr", "calloc", "free_buffer", "stack",
     "store", "free_heap_ptr", "open", "write", "mmap", "print",
     "memcpy", "msync", "munmap", "close", "verify", "read",
     "close_verify", "memalign", "free_aligned", "realloc_failed",
     "mmap_failed", "ended", "exit", "killed"}

LEMMA MemoryTyped ==
  Memory!TypeOK <=>
    /\ memory_pc \in MemoryPcs
    /\ live \subseteq Memory!Resources
    /\ length \in {"none", "short", "full"}
    /\ copied \in 0..2
    /\ memory_failed \in BOOLEAN
    /\ memory_crashes \in 0..MaxCrashes
BY DEF Memory!TypeOK, MemoryPcs

LEMMA InitMemory == Memory!Init => MemoryOK
<1> SUFFICES ASSUME Memory!Init PROVE MemoryOK
  OBVIOUS
<1>1. Memory!TypeOK
  <2>1. memory_pc \in MemoryPcs /\ live \subseteq Memory!Resources
    BY DEF Memory!Init, MemoryPcs
  <2>2. length \in {"none", "short", "full"} /\ copied \in 0..2
    BY DEF Memory!Init
  <2>3. memory_failed \in BOOLEAN
    BY DEF Memory!Init
  <2>4. memory_crashes \in 0..MaxCrashes
    BY BoundsAssumption DEF Memory!Init
  <2> QED
    BY <2>1, <2>2, <2>3, <2>4, MemoryTyped
<1>2. MemoryHeld /\ MemoryDisk
  BY DEF Memory!Init, MemoryHeld, MemoryDisk
<1> QED
  BY <1>1, <1>2 DEF MemoryOK

LEMMA MemoryKnown == MemoryOK => HeapDiscipline /\ Memory!MappedPersists
<1> SUFFICES ASSUME MemoryOK PROVE HeapDiscipline /\ Memory!MappedPersists
  OBVIOUS
<1>1. HeapDiscipline
  BY DEF MemoryOK, MemoryHeld, HeapDiscipline, Memory!HeapDiscipline
<1>2. Memory!MappedPersists
  BY DEF MemoryOK, MemoryDisk, Memory!TypeOK, Memory!MappedPersists
<1> QED
  BY <1>1, <1>2

LEMMA StepMemory == MemoryOK /\ [Memory!Next]_memory_vars => MemoryOK'
<1> SUFFICES ASSUME MemoryOK, [Memory!Next]_memory_vars PROVE MemoryOK'
  OBVIOUS
<1>0. Memory!TypeOK /\ MemoryHeld /\ MemoryDisk
  BY DEF MemoryOK
<1> USE DEF Memory!Step, Memory!Take, Memory!Give, Memory!disk
<1>1. CASE Memory!Heap
  <2>1. Memory!TypeOK'
    <3>1. memory_pc' \in MemoryPcs
      BY <1>0, <1>1, MemoryTyped DEF Memory!Heap, MemoryPcs
    <3>2. live' \subseteq Memory!Resources
      BY <1>0, <1>1, MemoryTyped DEF Memory!Heap, Memory!Resources
    <3>3. length' \in {"none", "short", "full"} /\ copied' \in 0..2
      BY <1>0, <1>1, MemoryTyped DEF Memory!Heap
    <3>4. memory_failed' \in BOOLEAN
      BY <1>0, <1>1, MemoryTyped DEF Memory!Heap
    <3>5. memory_crashes' \in 0..MaxCrashes
      BY <1>0, <1>1, MemoryTyped DEF Memory!Heap
    <3> QED
      BY <3>1, <3>2, <3>3, <3>4, <3>5 DEF Memory!TypeOK, MemoryPcs
  <2>2. MemoryHeld'
    <3>1. CASE memory_pc \in {"malloc", "realloc", "free_arr"}
      <4>1. \/ memory_pc' \in {"exit", "calloc"} /\ live' = {}
            \/ memory_pc' \in {"realloc", "free_arr", "realloc_failed"} /\ live' = {"arr"}
        BY <1>0, <1>1, <3>1 DEF Memory!Heap, MemoryHeld
      <4> QED
        BY <4>1 DEF MemoryHeld
    <3>2. CASE memory_pc \in {"calloc", "free_buffer"}
      <4>1. \/ memory_pc' \in {"exit", "stack"} /\ live' = {}
            \/ memory_pc' = "free_buffer" /\ live' = {"buffer"}
        BY <1>0, <1>1, <3>2 DEF Memory!Heap, MemoryHeld
      <4> QED
        BY <4>1 DEF MemoryHeld
    <3>3. CASE memory_pc \in {"stack", "free_heap_ptr"}
      <4>1. \/ memory_pc' = "open" /\ live' = {}
            \/ /\ memory_pc' = "store"
               /\ live' = {"heap_ptr"} \/ (live' = {} /\ memory_failed' = TRUE)
        BY <1>0, <1>1, <3>3 DEF Memory!Heap, MemoryHeld
      <4> QED
        BY <4>1 DEF MemoryHeld
    <3> QED
      BY <1>1, <3>1, <3>2, <3>3 DEF Memory!Heap
  <2>3. MemoryDisk'
    BY <1>0, <1>1 DEF Memory!Heap, Memory!TypeOK, MemoryDisk
  <2> QED
    BY <2>1, <2>2, <2>3 DEF MemoryOK
<1>2. CASE Memory!ReallocFailed \/ Memory!Store \/ Memory!OpenFile
  <2>1. Memory!TypeOK'
    <3>1. memory_pc' \in MemoryPcs
      BY <1>0, <1>2, MemoryTyped
         DEF Memory!ReallocFailed, Memory!Store, Memory!OpenFile, MemoryPcs
    <3>2. live' \subseteq Memory!Resources
      BY <1>0, <1>2, MemoryTyped
         DEF Memory!ReallocFailed, Memory!Store, Memory!OpenFile,
             Memory!Resources
    <3>3. length' \in {"none", "short", "full"} /\ copied' \in 0..2
      BY <1>0, <1>2, MemoryTyped
         DEF Memory!ReallocFailed, Memory!Store, Memory!OpenFile
    <3>4. memory_failed' \in BOOLEAN
      BY <1>0, <1>2, MemoryTyped
         DEF Memory!ReallocFailed, Memory!Store, Memory!OpenFile
    <3>5. memory_crashes' \in 0..MaxCrashes
      BY <1>0, <1>2, MemoryTyped
         DEF Memory!ReallocFailed, Memory!Store, Memory!OpenFile
    <3> QED
      BY <3>1, <3>2, <3>3, <3>4, <3>5 DEF Memory!TypeOK, MemoryPcs
  <2>2. MemoryHeld'
    BY <1>0, <1>2
       DEF Memory!ReallocFailed, Memory!Store, Memory!OpenFile, Memory!TypeOK,
           MemoryHeld
  <2>3. MemoryDisk'
    BY <1>0, <1>2
       DEF Memory!ReallocFailed, Memory!Store, Memory!OpenFile, Memory!TypeOK,
           MemoryDisk
  <2> QED
    BY <2>1, <2>2, <2>3 DEF MemoryOK
<1>3. CASE Memory!WriteFile \/ Memory!Map \/ Memory!MapFailed \/ Memory!PrintMapped
  <2>1. Memory!TypeOK'
    <3>1. memory_pc' \in MemoryPcs
      BY <1>0, <1>3, MemoryTyped
         DEF Memory!WriteFile, Memory!Map, Memory!MapFailed,
             Memory!PrintMapped, MemoryPcs
    <3>2. live' \subseteq Memory!Resources
      BY <1>0, <1>3, MemoryTyped
         DEF Memory!WriteFile, Memory!Map, Memory!MapFailed,
             Memory!PrintMapped, Memory!Resources
    <3>3. length' \in {"none", "short", "full"} /\ copied' \in 0..2
      BY <1>0, <1>3, MemoryTyped
         DEF Memory!WriteFile, Memory!Map, Memory!MapFailed, Memory!PrintMapped
    <3>4. memory_failed' \in BOOLEAN
      BY <1>0, <1>3, MemoryTyped
         DEF Memory!WriteFile, Memory!Map, Memory!MapFailed, Memory!PrintMapped
    <3>5. memory_crashes' \in 0..MaxCrashes
      BY <1>0, <1>3, MemoryTyped
         DEF Memory!WriteFile, Memory!Map, Memory!MapFailed, Memory!PrintMapped
    <3> QED
      BY <3>1, <3>2, <3>3, <3>4, <3>5 DEF Memory!TypeOK, MemoryPcs
  <2>2. MemoryHeld'
    BY <1>0, <1>3
       DEF Memory!WriteFile, Memory!Map, Memory!MapFailed, Memory!PrintMapped,
           Memory!TypeOK, MemoryHeld, MemoryDisk
  <2>3. MemoryDisk'
    BY <1>0, <1>3
       DEF Memory!WriteFile, Memory!Map, Memory!MapFailed, Memory!PrintMapped,
           Memory!TypeOK, MemoryDisk
  <2> QED
    BY <2>1, <2>2, <2>3 DEF MemoryOK
<1>4. CASE Memory!CopyInto \/ Memory!Unmap
  <2>1. Memory!TypeOK'
    <3>1. memory_pc' \in MemoryPcs
      BY <1>0, <1>4, MemoryTyped DEF Memory!CopyInto, Memory!Unmap, MemoryPcs
    <3>2. live' \subseteq Memory!Resources
      BY <1>0, <1>4, MemoryTyped
         DEF Memory!CopyInto, Memory!Unmap, Memory!Resources
    <3>3. length' \in {"none", "short", "full"} /\ copied' \in 0..2
      <4>1. length' = length
        BY <1>4 DEF Memory!CopyInto, Memory!Unmap
      <4>2. copied' = copied \/ copied' = 1 \/ copied' = 2 \/ copied' \in 0..2
        BY <1>4 DEF Memory!CopyInto, Memory!Unmap
      <4> QED
        BY <1>0, <4>1, <4>2, MemoryTyped
    <3>4. memory_failed' \in BOOLEAN
      BY <1>0, <1>4, MemoryTyped DEF Memory!CopyInto, Memory!Unmap
    <3>5. memory_crashes' \in 0..MaxCrashes
      BY <1>0, <1>4, MemoryTyped DEF Memory!CopyInto, Memory!Unmap
    <3> QED
      BY <3>1, <3>2, <3>3, <3>4, <3>5 DEF Memory!TypeOK, MemoryPcs
  <2>2. MemoryHeld'
    BY <1>0, <1>4 DEF Memory!CopyInto, Memory!Unmap, Memory!TypeOK, MemoryHeld
  <2>3. MemoryDisk'
    BY <1>0, <1>4 DEF Memory!CopyInto, Memory!Unmap, Memory!TypeOK, MemoryDisk
  <2> QED
    BY <2>1, <2>2, <2>3 DEF MemoryOK
<1>5. CASE Memory!Verify \/ Memory!Aligned
  <2>1. Memory!TypeOK'
    <3>1. memory_pc' \in MemoryPcs
      BY <1>0, <1>5, MemoryTyped DEF Memory!Verify, Memory!Aligned, MemoryPcs
    <3>2. live' \subseteq Memory!Resources
      BY <1>0, <1>5, MemoryTyped
         DEF Memory!Verify, Memory!Aligned, Memory!Resources
    <3>3. length' \in {"none", "short", "full"} /\ copied' \in 0..2
      BY <1>0, <1>5, MemoryTyped DEF Memory!Verify, Memory!Aligned
    <3>4. memory_failed' \in BOOLEAN
      BY <1>0, <1>5, MemoryTyped DEF Memory!Verify, Memory!Aligned
    <3>5. memory_crashes' \in 0..MaxCrashes
      BY <1>0, <1>5, MemoryTyped DEF Memory!Verify, Memory!Aligned
    <3> QED
      BY <3>1, <3>2, <3>3, <3>4, <3>5 DEF Memory!TypeOK, MemoryPcs
  <2>2. MemoryHeld'
    BY <1>0, <1>5 DEF Memory!Verify, Memory!Aligned, Memory!TypeOK, MemoryHeld
  <2>3. MemoryDisk'
    BY <1>0, <1>5 DEF Memory!Verify, Memory!Aligned, Memory!TypeOK, MemoryDisk
  <2> QED
    BY <2>1, <2>2, <2>3 DEF MemoryOK
<1>6. CASE Memory!Crash \/ UNCHANGED memory_vars
  <2>1. Memory!TypeOK'
    <3>1. memory_pc' \in MemoryPcs
      BY <1>0, <1>6, MemoryTyped DEF Memory!Crash, memory_vars, MemoryPcs
    <3>2. live' \subseteq Memory!Resources
      BY <1>0, <1>6, MemoryTyped DEF Memory!Crash, memory_vars, Memory!Resources
    <3>3. length' \in {"none", "short", "full"} /\ copied' \in 0..2
      BY <1>0, <1>6, MemoryTyped DEF Memory!Crash, memory_vars
    <3>4. memory_failed' \in BOOLEAN
      BY <1>0, <1>6, MemoryTyped DEF Memory!Crash, memory_vars
    <3>5. memory_crashes' \in 0..MaxCrashes
      BY <1>0, <1>6, MemoryTyped, BoundsAssumption DEF Memory!Crash, memory_vars
    <3> QED
      BY <3>1, <3>2, <3>3, <3>4, <3>5 DEF Memory!TypeOK, MemoryPcs
  <2>2. MemoryHeld'
    BY <1>0, <1>6 DEF Memory!Crash, memory_vars, Memory!TypeOK, MemoryHeld
  <2>3. MemoryDisk'
    BY <1>0, <1>6 DEF Memory!Crash, memory_vars, Memory!TypeOK, MemoryDisk
  <2> QED
    BY <2>1, <2>2, <2>3 DEF MemoryOK
<1> QED
  BY <1>1, <1>2, <1>3, <1>4, <1>5, <1>6 DEF Memory!Next

-----------------------------------------------------------------------------
(* directory_ops                                                           *)

\* What there is has all that it lies in, and only a run that is in a directory
\* it did not mean makes a link there.
DirTree ==
    /\ "subdir1" \in fs \/ "inner_link" \in fs => "test_directory" \in fs
    /\ "subdir2" \in fs \/ "foreign" \in fs => "subdir1" \in fs
    /\ "inner_link" \in fs => strayed = TRUE

\* It is in the tree only as long as the tree is there.
DirPlace ==
    /\ strayed = FALSE => cwd = "top" \/ (dir_pc = "back" /\ cwd = "test_directory")
    /\ dir_pc = "back" => cwd = "test_directory"
    /\ cwd = "test_directory" => "test_directory" \in fs

\* One after the other is removed, up to the directory of a foreign file.
DirRemoved ==
    strayed = FALSE =>
        /\ dir_pc \in {"rmdir_2", "rmdir_1", "rmdir", "cleaned_up"} => "test_link" \notin fs
        /\ dir_pc \in {"rmdir_1", "rmdir", "cleaned_up"} => "subdir2" \notin fs
        /\ dir_pc \in {"rmdir", "cleaned_up"} /\ "foreign" \notin fs => "subdir1" \notin fs
        /\ dir_pc = "cleaned_up" /\ "foreign" \notin fs => "test_directory" \notin fs

DirOK == Directory!TypeOK /\ DirTree /\ DirPlace /\ DirRemoved

LEMMA WithinIs ==
  /\ Directory!Within["test_directory"] = {"subdir1", "inner_link"}
  /\ Directory!Within["subdir1"] = {"subdir2", "foreign"}
  /\ Directory!Within["subdir2"] = {}
BY DEF Directory!Within, Directory!Paths, Directory!Tree

LEMMA LinkIs ==
  /\ cwd = "top" => Directory!Link = "test_link"
  /\ cwd = "test_directory" => Directory!Link = "inner_link"
  /\ cwd = "elsewhere" => Directory!Link = "none"
BY DEF Directory!Link

DirPcs == {"list", "mkdir", "mkdir_0", "mkdir_1", "mkdir_2", "walk", "getcwd",
           "chdir", "back", "symlink", "temp", "unlink", "rmdir_2",
           "rmdir_1", "rmdir", "cleaned_up", "exit"}

LEMMA DirTyped ==
  Directory!TypeOK <=>
    /\ dir_pc \in DirPcs
    /\ fs \subseteq Directory!Paths
    /\ cwd \in Directory!Places
    /\ original \in {"top", "unset"}
    /\ strayed \in BOOLEAN
    /\ dir_crashes \in 0..MaxCrashes
BY DEF Directory!TypeOK, DirPcs

LEMMA InitDir == Directory!Init => DirOK
<1> SUFFICES ASSUME Directory!Init PROVE DirOK
  OBVIOUS
<1>1. dir_pc \in DirPcs /\ fs \subseteq Directory!Paths
  BY DEF Directory!Init, DirPcs
<1>2. cwd \in Directory!Places /\ original \in {"top", "unset"}
  BY DEF Directory!Init, Directory!Places
<1>3. strayed \in BOOLEAN
  BY DEF Directory!Init
<1>4. dir_crashes \in 0..MaxCrashes
  BY BoundsAssumption DEF Directory!Init
<1>5. DirTree /\ DirPlace /\ DirRemoved
  BY DEF Directory!Init, DirTree, DirPlace, DirRemoved
<1> QED
  BY <1>1, <1>2, <1>3, <1>4, <1>5, DirTyped DEF DirOK

LEMMA DirKnown == DirOK => CleanedUp
<1> SUFFICES ASSUME DirOK PROVE CleanedUp
  OBVIOUS
<1>1. ASSUME dir_pc = "cleaned_up", strayed = FALSE, "foreign" \notin fs
      PROVE  fs = {}
  BY <1>1, DirTyped
     DEF DirOK, DirTree, DirRemoved, Directory!Paths, Directory!Tree
<1>2. strayed = TRUE \/ strayed = FALSE
  BY DirTyped DEF DirOK
<1>3. "foreign" \in fs => {"test_directory", "subdir1"} \subseteq fs
  BY DEF DirOK, DirTree
<1> QED
  BY <1>1, <1>2, <1>3 DEF CleanedUp, Directory!CleanedUp

LEMMA StepDir == DirOK /\ [Directory!Next]_dir_vars => DirOK'
<1> SUFFICES ASSUME DirOK, [Directory!Next]_dir_vars PROVE DirOK'
  OBVIOUS
<1>0. DirTree /\ DirPlace /\ DirRemoved
  BY DEF DirOK
<1>1. /\ dir_pc \in DirPcs
      /\ fs \subseteq Directory!Paths
      /\ cwd \in Directory!Places
      /\ original \in {"top", "unset"}
      /\ strayed \in BOOLEAN
      /\ dir_crashes \in 0..MaxCrashes
  BY DirTyped DEF DirOK
<1>2. ASSUME /\ dir_pc' \in DirPcs
             /\ fs' \subseteq Directory!Paths
             /\ cwd' \in Directory!Places
             /\ original' \in {"top", "unset"}
             /\ strayed' \in BOOLEAN
             /\ dir_crashes' \in 0..MaxCrashes,
             DirTree', DirPlace', DirRemoved'
      PROVE  DirOK'
  <2>1. Directory!TypeOK'
    BY <1>2 DEF Directory!TypeOK, DirPcs
  <2> QED
    BY <1>2, <2>1 DEF DirOK
<1> USE DEF Directory!Step, Directory!Still
<1>3. CASE Directory!List \/ Directory!MakeTree \/ Directory!Walk
  <2>1. /\ dir_pc \in {"list", "mkdir", "mkdir_0", "mkdir_1", "mkdir_2", "walk"}
        /\ dir_pc' \in {"mkdir", "mkdir_0", "mkdir_1", "mkdir_2", "walk", "getcwd", "exit"}
        /\ UNCHANGED <<cwd, original, strayed, dir_crashes>>
    BY <1>3
       DEF Directory!List, Directory!MakeTree, Directory!Walk, Directory!Mkdir
  <2>2. \/ fs' = fs
        \/ fs' = fs \cup {"test_directory"}
        \/ fs' = fs \cup {"subdir1"} /\ "test_directory" \in fs
        \/ fs' = fs \cup {"subdir2"} /\ "subdir1" \in fs
    BY <1>3
       DEF Directory!List, Directory!MakeTree, Directory!Walk, Directory!Mkdir
  <2>3. fs' \subseteq Directory!Paths
    BY <1>1, <2>2 DEF Directory!Paths, Directory!Tree
  <2>4. DirTree'
    BY <1>0, <2>1, <2>2 DEF DirTree
  <2>5. DirPlace' /\ DirRemoved'
    BY <1>0, <2>1, <2>2 DEF DirPlace, DirRemoved
  <2>6. dir_pc' \in DirPcs
    BY <2>1 DEF DirPcs
  <2> QED
    BY <1>1, <1>2, <2>1, <2>3, <2>4, <2>5, <2>6
<1>4. CASE Directory!GetCwd \/ Directory!ChangeDir \/ Directory!ChangeBack
  <2>1. /\ dir_pc \in {"getcwd", "chdir", "back"}
        /\ dir_pc' \in {"chdir", "back", "symlink"}
        /\ UNCHANGED <<fs, dir_crashes>>
    BY <1>4 DEF Directory!GetCwd, Directory!ChangeDir, Directory!ChangeBack
  <2>2. /\ strayed' = strayed \/ strayed' = TRUE
        /\ original' \in {"top", "unset"}
    BY <1>1, <1>4
       DEF Directory!GetCwd, Directory!ChangeDir, Directory!ChangeBack
  <2>3. cwd' \in Directory!Places
    BY <1>1, <1>4
       DEF Directory!GetCwd, Directory!ChangeDir, Directory!ChangeBack,
       Directory!Places
  <2>4. DirTree' /\ DirRemoved'
    BY <1>0, <1>1, <2>1, <2>2 DEF DirTree, DirRemoved
  <2>5. DirPlace'
    <3>1. CASE Directory!GetCwd
      BY <1>0, <3>1 DEF DirPlace, Directory!GetCwd
    <3>2. CASE Directory!ChangeDir
      BY <1>0, <3>2 DEF DirPlace, Directory!ChangeDir, Directory!Exists
    <3>3. CASE Directory!ChangeBack
      BY <1>0, <3>3 DEF DirPlace, Directory!ChangeBack
    <3> QED
      BY <1>4, <3>1, <3>2, <3>3
  <2>6. dir_pc' \in DirPcs
    BY <2>1 DEF DirPcs
  <2>7. strayed' \in BOOLEAN
    BY <1>1, <2>2
  <2> QED
    BY <1>1, <1>2, <2>1, <2>2, <2>3, <2>4, <2>5, <2>6, <2>7
<1>5. CASE Directory!Symlink \/ Directory!TempFile \/ Directory!UnlinkLink
  <2>1. /\ dir_pc \in {"symlink", "temp", "unlink"}
        /\ dir_pc' \in {"temp", "unlink", "rmdir_2"}
        /\ UNCHANGED <<cwd, original, strayed, dir_crashes>>
    BY <1>5 DEF Directory!Symlink, Directory!TempFile, Directory!UnlinkLink
  <2>2. \/ fs' = fs /\ dir_pc' # "rmdir_2"
        \/ fs' = fs \cup ({Directory!Link} \cap Directory!Paths) /\ dir_pc' # "rmdir_2"
        \/ fs' = fs \ {Directory!Link}
    BY <1>5 DEF Directory!Symlink, Directory!TempFile, Directory!UnlinkLink
  <2>3. fs' \subseteq Directory!Paths
    BY <1>1, <2>2
  <2>4. \/ cwd = "top" /\ Directory!Link = "test_link"
        \/ /\ cwd = "test_directory" /\ Directory!Link = "inner_link"
           /\ "test_directory" \in fs /\ strayed = TRUE
        \/ cwd = "elsewhere" /\ Directory!Link = "none" /\ strayed = TRUE
    BY <1>0, <1>1, <2>1, LinkIs DEF DirPlace, Directory!Places
  <2>5. "none" \notin Directory!Paths
    BY DEF Directory!Paths, Directory!Tree
  <2>6. DirTree'
    BY <1>0, <2>1, <2>2, <2>4, <2>5 DEF DirTree
  <2>7. DirPlace'
    BY <1>0, <2>1, <2>2, <2>4 DEF DirPlace
  <2>8. DirRemoved'
    BY <1>0, <2>1, <2>2, <2>4 DEF DirRemoved
  <2>9. dir_pc' \in DirPcs
    BY <2>1 DEF DirPcs
  <2> QED
    BY <1>1, <1>2, <2>1, <2>3, <2>6, <2>7, <2>8, <2>9
<1>6. CASE Directory!RemoveTree
  <2>1. /\ UNCHANGED <<cwd, original, strayed, dir_crashes>>
        /\ fs' \subseteq fs
        /\ \/ /\ dir_pc = "rmdir_2" /\ dir_pc' = "rmdir_1"
              /\ fs' = IF cwd = "top" /\ "subdir2" \in fs THEN fs \ {"subdir2"} ELSE fs
           \/ /\ dir_pc = "rmdir_1" /\ dir_pc' = "rmdir"
              /\ fs' = IF /\ cwd = "top" /\ "subdir1" \in fs
                          /\ "subdir2" \notin fs /\ "foreign" \notin fs
                       THEN fs \ {"subdir1"} ELSE fs
           \/ /\ dir_pc = "rmdir" /\ dir_pc' = "cleaned_up"
              /\ fs' = IF /\ cwd = "top" /\ "test_directory" \in fs
                          /\ "subdir1" \notin fs /\ "inner_link" \notin fs
                       THEN fs \ {"test_directory"} ELSE fs
    BY <1>6, WithinIs
       DEF Directory!RemoveTree, Directory!Rmdir, Directory!Exists
  <2>2. fs' \subseteq Directory!Paths /\ dir_pc' \in DirPcs
    BY <1>1, <2>1 DEF DirPcs
  <2>3. DirTree'
    BY <1>0, <2>1 DEF DirTree
  <2>4. DirPlace'
    BY <1>0, <2>1 DEF DirPlace
  <2>5. DirRemoved'
    BY <1>0, <2>1 DEF DirRemoved, DirTree, DirPlace
  <2> QED
    BY <1>1, <1>2, <2>1, <2>2, <2>3, <2>4, <2>5
<1>7. CASE Directory!Crash
  <2>1. /\ dir_pc' = "list" /\ cwd' = "top" /\ original' = "unset"
        /\ fs' = fs /\ strayed' = strayed
    BY <1>7 DEF Directory!Crash
  <2>2. dir_crashes' \in 0..MaxCrashes
    BY <1>1, <1>7, BoundsAssumption DEF Directory!Crash
  <2>3. DirTree' /\ DirPlace' /\ DirRemoved'
    BY <1>0, <2>1 DEF DirTree, DirPlace, DirRemoved
  <2>4. dir_pc' \in DirPcs /\ cwd' \in Directory!Places
    BY <2>1 DEF DirPcs, Directory!Places
  <2> QED
    BY <1>1, <1>2, <2>1, <2>2, <2>3, <2>4
<1>8. CASE Directory!ForeignFile
  <2>1. /\ "subdir1" \in fs /\ fs' = fs \cup {"foreign"}
        /\ UNCHANGED <<dir_pc, cwd, original, strayed, dir_crashes>>
    BY <1>8 DEF Directory!ForeignFile
  <2>2. fs' \subseteq Directory!Paths
    BY <1>1, <2>1 DEF Directory!Paths
  <2>3. DirTree' /\ DirPlace' /\ DirRemoved'
    BY <1>0, <2>1 DEF DirTree, DirPlace, DirRemoved
  <2> QED
    BY <1>1, <1>2, <2>1, <2>2, <2>3
<1>9. CASE UNCHANGED dir_vars
  <2>1. UNCHANGED <<dir_pc, fs, cwd, original, strayed, dir_crashes>>
    BY <1>9 DEF dir_vars
  <2>2. DirTree' /\ DirPlace' /\ DirRemoved'
    BY <1>0, <2>1 DEF DirTree, DirPlace, DirRemoved
  <2> QED
    BY <1>1, <1>2, <2>1, <2>2
<1> QED
  BY <1>3, <1>4, <1>5, <1>6, <1>7, <1>8, <1>9
     DEF Directory!Next, Directory!Program

-----------------------------------------------------------------------------
(* udp_echo                                                                *)

\* What the server makes of the message of run q, which has sent it from p.
Sent(q, p) == client[q] # "start" /\ port[q] = p
Echo(q) == Udp!Cut(Udp!Message(q), ServerBuf)

\* Every datagram is of a run that had the port it comes from or goes to.
UdpNet ==
    /\ \A d \in net : d.to = "server" =>
          \E q \in Runs : Sent(q, d.port) /\ d.text = Udp!Message(q)
    /\ \A d \in net : d.to = "client" =>
          \E q \in Runs : Sent(q, d.port) /\ d.text = Echo(q)
    /\ server = "sendto" =>
          \E q \in Runs : Sent(q, buffer.port) /\ buffer.text = Echo(q)

\* Two runs that wait have two ports.
UdpPorts ==
    \A q, r \in Runs : client[q] = "recvfrom" /\ client[r] = "recvfrom" /\ q # r =>
        port[q] # port[r]

UdpOK == Udp!TypeOK /\ UdpNet /\ UdpPorts /\ Udp!AnswersAreEchoes

LEMMA CutTyped ==
  ASSUME NEW text \in Udp!Text, NEW n \in Nat
  PROVE  Udp!Cut(text, n) \in Udp!Text
BY DEF Udp!Cut, Udp!Text

LEMMA MessageTyped == \A q \in Runs : Udp!Message(q) \in Udp!Text
BY UdpAssumption DEF Udp!Message, Udp!Text

LEMMA DatagramTyped ==
  ASSUME NEW to \in {"server", "client"}, NEW p \in Ports, NEW text \in Udp!Text
  PROVE  [to |-> to, port |-> p, text |-> text] \in Udp!Datagram
BY DEF Udp!Datagram

LEMMA InitUdp == Udp!Init => UdpOK
<1> SUFFICES ASSUME Udp!Init PROVE UdpOK
  OBVIOUS
<1>1. Udp!NoPort \in Ports
  BY UdpAssumption DEF Udp!NoPort
<1>2. Udp!Empty \in Udp!Text
  <2>1. (CHOOSE r \in Runs : TRUE) \in Runs
    BY UdpAssumption
  <2> QED
    BY <2>1 DEF Udp!Empty, Udp!Text
<1>3. Udp!TypeOK
  BY <1>1, <1>2 DEF Udp!Init, Udp!TypeOK
<1>4. UdpNet /\ UdpPorts /\ Udp!AnswersAreEchoes
  BY DEF Udp!Init, UdpNet, UdpPorts, Udp!AnswersAreEchoes
<1> QED
  BY <1>3, <1>4 DEF UdpOK

\* A run that has started keeps its port; one that waits no more never does
\* again, and so what was received stays what it was.
LEMMA AnswersStay ==
  ASSUME UdpOK,
         \A q \in Runs : client[q] # "start" => client'[q] # "start" /\ port'[q] = port[q],
         \A q \in Runs : client[q] \notin {"start", "recvfrom"} =>
             client'[q] = client[q] /\ answer'[q] = answer[q],
         NEW r \in Runs, client[r] = "received"
  PROVE  \E q \in Runs :
            /\ port'[q] = port'[r]
            /\ client'[q] # "start"
            /\ q # r => client'[q] # "recvfrom"
            /\ answer'[r] = Udp!Cut(Udp!Cut(Udp!Message(q), ServerBuf), ClientBuf)
<1>1. PICK q \in Runs :
         /\ port[q] = port[r]
         /\ client[q] # "start"
         /\ q # r => client[q] # "recvfrom"
         /\ answer[r] = Udp!Cut(Udp!Cut(Udp!Message(q), ServerBuf), ClientBuf)
  BY DEF UdpOK, Udp!AnswersAreEchoes
<1>2. q # r => client'[q] # "recvfrom"
  BY <1>1
<1> QED
  BY <1>1, <1>2

LEMMA StepUdp == UdpOK /\ [Udp!Next]_udp_vars => UdpOK'
<1> SUFFICES ASSUME UdpOK, [Udp!Next]_udp_vars PROVE UdpOK'
  OBVIOUS
<1>0. Udp!TypeOK /\ UdpNet /\ UdpPorts /\ Udp!AnswersAreEchoes
  BY DEF UdpOK
<1>1. CASE Udp!Server \/ UNCHANGED udp_vars
  <2>1. UNCHANGED <<client, port, answer>>
    BY <1>1
       DEF Udp!Server, Udp!Start, Udp!RecvFrom, Udp!SendTo, Udp!SendToFails,
           udp_vars
  <2>2. UdpPorts' /\ Udp!AnswersAreEchoes'
    BY <1>0, <2>1 DEF UdpPorts, Udp!AnswersAreEchoes
  <2>3. Udp!TypeOK' /\ UdpNet'
    <3>1. CASE Udp!Start \/ Udp!SendToFails \/ UNCHANGED udp_vars
      <4>1. Udp!TypeOK'
        BY <1>0, <3>1 DEF Udp!TypeOK, Udp!Start, Udp!SendToFails, udp_vars
      <4>2. net' = net /\ buffer' = buffer /\ (server' = "sendto" => server = "sendto")
        BY <3>1 DEF Udp!Start, Udp!SendToFails, udp_vars
      <4> QED
        BY <1>0, <2>1, <4>1, <4>2 DEF UdpNet, Sent
    <3>2. CASE Udp!RecvFrom
      <4>1. PICK d \in net :
               /\ d.to = "server"
               /\ buffer' = [port |-> d.port, text |-> Udp!Cut(d.text, ServerBuf)]
        BY <3>2 DEF Udp!RecvFrom
      <4>2. /\ net' = net /\ server' = "sendto"
            /\ d.port \in Ports /\ d.text \in Udp!Text
        BY <1>0, <3>2 DEF Udp!RecvFrom, Udp!TypeOK, Udp!Datagram
      <4>3. Udp!Cut(d.text, ServerBuf) \in Udp!Text
        BY <4>2, CutTyped, UdpAssumption
      <4>4. Udp!TypeOK'
        BY <1>0, <2>1, <4>1, <4>2, <4>3 DEF Udp!TypeOK
      <4>5. PICK q \in Runs : Sent(q, d.port) /\ d.text = Udp!Message(q)
        BY <1>0, <4>1 DEF UdpNet
      <4>6. buffer'.port = d.port /\ buffer'.text = Echo(q)
        BY <4>1, <4>5 DEF Echo
      <4>7. client'[q] # "start" /\ port'[q] = buffer'.port
        BY <2>1, <4>5, <4>6 DEF Sent
      <4> QED
        BY <1>0, <2>1, <4>2, <4>4, <4>6, <4>7 DEF UdpNet, Sent
    <3>3. CASE Udp!SendTo
      <4>1. /\ server = "sendto" /\ server' = "recvfrom" /\ buffer' = buffer
            /\ net' = net \cup {[to |-> "client", port |-> buffer.port, text |-> buffer.text]}
        BY <3>3 DEF Udp!SendTo
      <4>2. buffer.port \in Ports /\ buffer.text \in Udp!Text
        BY <1>0 DEF Udp!TypeOK
      <4>3. net' \subseteq Udp!Datagram
        BY <1>0, <4>1, <4>2, DatagramTyped DEF Udp!TypeOK
      <4>4. Udp!TypeOK'
        BY <1>0, <2>1, <4>1, <4>3 DEF Udp!TypeOK
      <4>5. PICK q \in Runs : Sent(q, buffer.port) /\ buffer.text = Echo(q)
        BY <1>0, <4>1 DEF UdpNet
      <4>6. ASSUME NEW d \in net', d \notin net
            PROVE  d.to = "client" /\ d.port = buffer.port /\ d.text = buffer.text
        BY <4>1, <4>6
      <4> QED
        BY <1>0, <2>1, <4>1, <4>4, <4>5, <4>6 DEF UdpNet, Sent
    <3> QED
      BY <1>1, <3>1, <3>2, <3>3 DEF Udp!Server
  <2> QED
    BY <2>2, <2>3 DEF UdpOK
<1>2. ASSUME NEW r \in Runs, Udp!ClientSends(r) PROVE UdpOK'
  <2>1. PICK p \in Ports :
           /\ \A q \in Runs : client[q] = "recvfrom" => port[q] # p
           /\ port' = [port EXCEPT ![r] = p]
           /\ net' = net \cup {[to |-> "server", port |-> p, text |-> Udp!Message(r)]}
    BY <1>2 DEF Udp!ClientSends
  <2>2. /\ client[r] = "start" /\ client' = [client EXCEPT ![r] = "recvfrom"]
        /\ UNCHANGED <<server, buffer, answer>>
    BY <1>2 DEF Udp!ClientSends
  <2>3. net' \subseteq Udp!Datagram
    BY <1>0, <2>1, DatagramTyped, MessageTyped DEF Udp!TypeOK
  <2>4. Udp!TypeOK'
    BY <1>0, <2>1, <2>2, <2>3 DEF Udp!TypeOK
  <2>5. /\ client'[r] = "recvfrom" /\ port'[r] = p
        /\ \A q \in Runs \ {r} : client'[q] = client[q] /\ port'[q] = port[q]
    BY <1>0, <2>1, <2>2 DEF Udp!TypeOK
  <2>6. \A q \in Runs, x \in Ports : Sent(q, x) => Sent(q, x)'
    BY <2>2, <2>5 DEF Sent
  <2>7. UdpPorts'
    BY <1>0, <2>1, <2>5 DEF UdpPorts
  <2>8. UdpNet'
    <3>1. \A d \in net : d.port \in Ports
      BY <1>0 DEF Udp!TypeOK, Udp!Datagram
    <3>2. buffer.port \in Ports
      BY <1>0 DEF Udp!TypeOK
    <3>3. ASSUME NEW d \in net', d \notin net
          PROVE  d.to = "server" /\ d.port = p /\ d.text = Udp!Message(r)
      BY <2>1, <3>3
    <3>4. Sent(r, p)'
      BY <2>5 DEF Sent
    <3>5. \A d \in net' : d.to = "server" =>
             \E q \in Runs : Sent(q, d.port)' /\ d.text = Udp!Message(q)
      BY <1>0, <2>6, <3>1, <3>3, <3>4 DEF UdpNet
    <3>6. \A d \in net' : d.to = "client" =>
             \E q \in Runs : Sent(q, d.port)' /\ d.text = Echo(q)
      BY <1>0, <2>6, <3>1, <3>3 DEF UdpNet
    <3>7. server' = "sendto" =>
             \E q \in Runs : Sent(q, buffer.port)' /\ buffer.text = Echo(q)
      BY <1>0, <2>2, <2>6, <3>2 DEF UdpNet
    <3> QED
      BY <2>2, <3>5, <3>6, <3>7 DEF UdpNet, Sent
  <2>9. Udp!AnswersAreEchoes'
    <3> SUFFICES ASSUME NEW s \in Runs, client'[s] = "received"
                 PROVE  \E q \in Runs :
                           /\ port'[q] = port'[s]
                           /\ client'[q] # "start"
                           /\ q # s => client'[q] # "recvfrom"
                           /\ answer'[s] = Udp!Cut(Udp!Cut(Udp!Message(q), ServerBuf), ClientBuf)
      BY DEF Udp!AnswersAreEchoes
    <3>1. client[s] = "received"
      BY <2>5
    <3> QED
      BY <2>2, <2>5, <3>1, AnswersStay
  <2> QED
    BY <2>4, <2>7, <2>8, <2>9 DEF UdpOK
<1>3. ASSUME NEW r \in Runs,
             Udp!ClientFails(r) \/ Udp!ClientTimesOut(r) \/ Udp!ClientReceives(r)
      PROVE  UdpOK'
  <2>1. /\ UNCHANGED <<net, server, buffer, port>>
        /\ client[r] \in {"start", "recvfrom"}
        /\ \/ client' = [client EXCEPT ![r] = "failed"] /\ answer' = answer
           \/ /\ client' = [client EXCEPT ![r] = "received"] /\ client[r] = "recvfrom"
              /\ \E d \in net :
                    /\ d.to = "client"
                    /\ d.port = port[r]
                    /\ answer' = [answer EXCEPT ![r] = Udp!Cut(d.text, ClientBuf)]
    BY <1>3 DEF Udp!ClientFails, Udp!ClientTimesOut, Udp!ClientReceives
  <2>2. \A d \in net : Udp!Cut(d.text, ClientBuf) \in Udp!Text
    <3>1. \A d \in net : d.text \in Udp!Text
      BY <1>0 DEF Udp!TypeOK, Udp!Datagram
    <3> QED
      BY <3>1, CutTyped, UdpAssumption
  <2>3. Udp!TypeOK'
    <3>1. client' \in [Runs -> {"start", "recvfrom", "received", "failed"}]
      BY <1>0, <2>1 DEF Udp!TypeOK
    <3>2. answer' \in [Runs -> Udp!Text]
      BY <1>0, <2>1, <2>2 DEF Udp!TypeOK
    <3> QED
      BY <1>0, <2>1, <3>1, <3>2 DEF Udp!TypeOK
  <2>4. /\ client'[r] \in {"failed", "received"}
        /\ \A q \in Runs \ {r} : client'[q] = client[q] /\ answer'[q] = answer[q]
    BY <1>0, <2>1 DEF Udp!TypeOK
  <2>5. UdpPorts'
    BY <1>0, <2>1, <2>4 DEF UdpPorts
  <2>6. \A q \in Runs : client[q] # "start" => client'[q] # "start"
    BY <2>4
  <2>7. UdpNet'
    <3>1. \A q \in Runs, x \in Ports : Sent(q, x) => Sent(q, x)'
      BY <2>1, <2>6 DEF Sent
    <3>2. \A d \in net : d.port \in Ports
      BY <1>0 DEF Udp!TypeOK, Udp!Datagram
    <3>3. buffer.port \in Ports
      BY <1>0 DEF Udp!TypeOK
    <3>4. \A d \in net : d.to = "server" =>
             \E q \in Runs : Sent(q, d.port)' /\ d.text = Udp!Message(q)
      BY <1>0, <3>1, <3>2 DEF UdpNet
    <3>5. \A d \in net : d.to = "client" =>
             \E q \in Runs : Sent(q, d.port)' /\ d.text = Echo(q)
      BY <1>0, <3>1, <3>2 DEF UdpNet
    <3>6. server' = "sendto" =>
             \E q \in Runs : Sent(q, buffer.port)' /\ buffer.text = Echo(q)
      BY <1>0, <2>1, <3>1, <3>3 DEF UdpNet
    <3> QED
      BY <2>1, <3>4, <3>5, <3>6 DEF UdpNet, Sent
  <2>8. Udp!AnswersAreEchoes'
    <3> SUFFICES ASSUME NEW s \in Runs, client'[s] = "received"
                 PROVE  \E q \in Runs :
                           /\ port'[q] = port'[s]
                           /\ client'[q] # "start"
                           /\ q # s => client'[q] # "recvfrom"
                           /\ answer'[s] = Udp!Cut(Udp!Cut(Udp!Message(q), ServerBuf), ClientBuf)
      BY DEF Udp!AnswersAreEchoes
    <3>1. CASE s # r
      <4>1. client[s] = "received"
        BY <2>4, <3>1
      <4> QED
        BY <2>1, <2>4, <2>6, <4>1, AnswersStay
    <3>2. CASE s = r
      <4>1. client[r] = "recvfrom"
        BY <1>0, <2>1, <3>2 DEF Udp!TypeOK
      <4>2. PICK d \in net :
               /\ d.to = "client"
               /\ d.port = port[r]
               /\ answer' = [answer EXCEPT ![r] = Udp!Cut(d.text, ClientBuf)]
        BY <1>0, <2>1, <3>2 DEF Udp!TypeOK
      <4>3. answer'[r] = Udp!Cut(d.text, ClientBuf)
        BY <1>0, <4>2 DEF Udp!TypeOK
      <4>4. PICK q \in Runs : Sent(q, d.port) /\ d.text = Echo(q)
        BY <1>0, <4>2 DEF UdpNet
      <4>5. q # r => client'[q] # "recvfrom"
        BY <1>0, <2>4, <4>1, <4>2, <4>4 DEF UdpPorts, Sent
      <4>6. client'[q] # "start" /\ port'[q] = port'[r]
        BY <2>1, <2>6, <4>2, <4>4 DEF Sent
      <4> QED
        BY <3>2, <4>3, <4>4, <4>5, <4>6 DEF Echo
    <3> QED
      BY <3>1, <3>2
  <2> QED
    BY <2>3, <2>5, <2>7, <2>8 DEF UdpOK
<1> QED
  BY <1>1, <1>2, <1>3 DEF Udp!Next, Udp!Client

-----------------------------------------------------------------------------
(* process_management                                                      *)

\* A child that is not there, or has been waited for.
Settled(k) == children[k] \in {"unborn", "reaped"}

\* A child has a code when it has ended; the first one exits with 42 or is killed.
ForkCodes ==
    /\ \A k \in Fork!Children : children[k] \in {"zombie", "reaped"} => code[k] # Fork!Unset
    /\ code["first"] \in {Fork!Unset, Fork!Signaled, 42}

\* The first child is waited for before the second is made, and that one before
\* the three.
ForkFirstTwo ==
    /\ parent \in {"fork_1", "failed"} => children["first"] = "unborn"
    /\ parent \in {"fork_1", "wait_1", "report", "fork_2"} => children["ls"] = "unborn"
    /\ parent = "wait_1" => children["first"] # "unborn"
    /\ parent \in {"report", "fork_2", "wait_2", "fork_4", "wait_4", "completed"} =>
          children["first"] = "reaped"
    /\ parent = "report" => wstatus = code["first"]
    /\ parent = "wait_2" /\ pid = "none" => children["ls"] = "unborn"
    /\ parent \in {"fork_4", "wait_4", "completed"} => Settled("ls")
    /\ parent \in {"fork_1", "wait_1", "report"} => reported = Fork!Unset

\* Of the three as many are settled as there were rounds of wait().
ForkThree ==
    /\ parent \in {"fork_1", "wait_1", "report", "fork_2", "wait_2"} =>
          /\ i = 0
          /\ \A k \in Fork!Multiple : children[k] = "unborn"
    /\ parent = "fork_4" => \A n \in 0..2 : n >= i => children[Fork!Child(n)] = "unborn"
    /\ parent = "wait_4" /\ i = 1 => \E k \in Fork!Multiple : Settled(k)
    /\ parent = "wait_4" /\ i = 2 =>
          \E k, l \in Fork!Multiple : k # l /\ Settled(k) /\ Settled(l)
    /\ parent \in {"wait_4", "completed"} /\ i = 3 => \A k \in Fork!Multiple : Settled(k)
    /\ parent = "completed" => i = 3

ForkOK ==
    Fork!TypeOK /\ ForkCodes /\ ForkFirstTwo /\ ForkThree /\ Fork!StatusIsTrue

LEMMA ChildIs ==
  Fork!Child(0) = "child0" /\ Fork!Child(1) = "child1" /\ Fork!Child(2) = "child2"
BY DEF Fork!Child

LEMMA InitFork == Fork!Init => ForkOK
<1> SUFFICES ASSUME Fork!Init PROVE ForkOK
  OBVIOUS
<1>1. Fork!TypeOK
  <2>1. /\ parent \in {"fork_1", "wait_1", "report", "fork_2", "wait_2", "fork_4",
                       "wait_4", "completed", "failed"}
        /\ children \in [Fork!Children -> {"unborn", "running", "zombie", "reaped"}]
        /\ pid \in {"none", "ls"}
    BY DEF Fork!Init
  <2>2. code \in [Fork!Children -> Fork!Codes] /\ wstatus \in Fork!Codes
        /\ reported \in Fork!Codes /\ i \in 0..3
    BY DEF Fork!Init, Fork!Codes, Fork!Unset, Fork!Signaled
  <2> QED
    BY <2>1, <2>2 DEF Fork!TypeOK
<1>2. ForkCodes /\ ForkFirstTwo /\ ForkThree /\ Fork!StatusIsTrue
  <2>1. \A n \in 0..2 : Fork!Child(n) \in Fork!Multiple
    BY ChildIs DEF Fork!Multiple
  <2> QED
    BY <2>1
       DEF Fork!Init, ForkCodes, ForkFirstTwo, ForkThree, Fork!StatusIsTrue,
       Fork!Children, Fork!Multiple, Settled
<1> QED
  BY <1>1, <1>2 DEF ForkOK

LEMMA ForkKnown == ForkOK => Fork!CompletedIsTrue /\ Fork!StatusIsTrue
BY DEF ForkOK, ForkFirstTwo, ForkThree, Fork!CompletedIsTrue, Fork!NoChildLeft,
   Fork!Children, Settled

\* The step of a child.
LEMMA StepExit ==
  ASSUME ForkOK, NEW k \in Fork!Children, NEW n \in Fork!Codes \ {Fork!Unset},
         k = "first" => n \in {Fork!Signaled, 42}, Fork!Exit(k, n)
  PROVE  ForkOK'
<1>0. Fork!TypeOK /\ ForkCodes /\ ForkFirstTwo /\ ForkThree /\ Fork!StatusIsTrue
  BY DEF ForkOK
<1>1. /\ children[k] = "running"
      /\ children' = [children EXCEPT ![k] = "zombie"]
      /\ code' = [code EXCEPT ![k] = n]
      /\ UNCHANGED <<parent, wstatus, pid, i, reported>>
  BY DEF Fork!Exit
<1>2. /\ children'[k] = "zombie" /\ code'[k] = n
      /\ \A l \in Fork!Children \ {k} : children'[l] = children[l] /\ code'[l] = code[l]
  BY <1>0, <1>1 DEF Fork!TypeOK
<1>3. {"first", "ls"} \subseteq Fork!Children /\ Fork!Multiple \subseteq Fork!Children
      /\ {"first", "ls"} \cap Fork!Multiple = {}
  BY DEF Fork!Children, Fork!Multiple
<1>4. Fork!TypeOK'
  <2>1. children' \in [Fork!Children -> {"unborn", "running", "zombie", "reaped"}]
    BY <1>0, <1>1 DEF Fork!TypeOK
  <2>2. code' \in [Fork!Children -> Fork!Codes]
    BY <1>0, <1>1 DEF Fork!TypeOK
  <2> QED
    BY <1>0, <1>1, <2>1, <2>2 DEF Fork!TypeOK
<1>5. ForkCodes'
  <2>1. \A l \in Fork!Children : children'[l] \in {"zombie", "reaped"} => code'[l] # Fork!Unset
    BY <1>0, <1>2 DEF ForkCodes
  <2>2. code'["first"] \in {Fork!Unset, Fork!Signaled, 42}
    BY <1>0, <1>2, <1>3 DEF ForkCodes
  <2> QED
    BY <2>1, <2>2 DEF ForkCodes
<1>6. ForkFirstTwo'
  BY <1>0, <1>1, <1>2, <1>3 DEF ForkFirstTwo, Settled
<1>7. \A l \in Fork!Children : Settled(l) => l # k /\ Settled(l)'
  BY <1>1, <1>2 DEF Settled
<1>8. ForkThree'
  <2>1. \A l \in Fork!Children : children[l] = "unborn" => children'[l] = "unborn"
    BY <1>1, <1>2
  <2>2. \A m \in 0..2 : Fork!Child(m) \in Fork!Children
    BY <1>3, ChildIs DEF Fork!Multiple
  <2> QED
    BY <1>0, <1>1, <1>3, <1>7, <2>1, <2>2 DEF ForkThree
<1>9. Fork!StatusIsTrue'
  <2>1. k = "first" => reported = Fork!Unset
    BY <1>0, <1>1 DEF ForkFirstTwo, Fork!TypeOK
  <2>2. CASE k = "first"
    BY <1>1, <2>1, <2>2 DEF Fork!StatusIsTrue
  <2>3. CASE k # "first"
    BY <1>0, <1>1, <1>2, <1>3, <2>3 DEF Fork!StatusIsTrue
  <2> QED
    BY <2>2, <2>3
<1> QED
  BY <1>4, <1>5, <1>6, <1>8, <1>9 DEF ForkOK

ForkPcs == {"fork_1", "wait_1", "report", "fork_2", "wait_2", "fork_4",
            "wait_4", "completed", "failed"}

\* The steps of the parent.
LEMMA StepParent == ForkOK /\ Fork!Parent => ForkOK'
<1> SUFFICES ASSUME ForkOK, Fork!Parent PROVE ForkOK'
  OBVIOUS
<1>0. Fork!TypeOK /\ ForkCodes /\ ForkFirstTwo /\ ForkThree /\ Fork!StatusIsTrue
  BY DEF ForkOK
<1>1. /\ children \in [Fork!Children -> {"unborn", "running", "zombie", "reaped"}]
      /\ code \in [Fork!Children -> Fork!Codes]
      /\ wstatus \in Fork!Codes
      /\ pid \in {"none", "ls"}
      /\ i \in 0..3
      /\ reported \in Fork!Codes
  BY <1>0 DEF Fork!TypeOK
<1>2. {"first", "ls"} \subseteq Fork!Children /\ Fork!Multiple \subseteq Fork!Children
      /\ {"first", "ls"} \cap Fork!Multiple = {}
      /\ Fork!Children = {"first", "ls"} \cup Fork!Multiple
  BY DEF Fork!Children, Fork!Multiple
<1>3. code' = code
  BY
     DEF Fork!Parent, Fork!ForkFirst, Fork!ForkFirstFails, Fork!WaitFirst,
         Fork!Report,
     Fork!ForkLs, Fork!WaitLs, Fork!ForkNext, Fork!ForkDone, Fork!WaitNext,
     Fork!WaitDone,
     Fork!Round
<1>4. ASSUME parent' \in ForkPcs,
             children' \in [Fork!Children -> {"unborn", "running", "zombie", "reaped"}],
             \A k \in Fork!Children : children'[k] \in {"zombie", "reaped"} =>
                 children[k] \in {"zombie", "reaped"},
             wstatus' \in Fork!Codes, pid' \in {"none", "ls"}, i' \in 0..3,
             reported' \in Fork!Codes,
             ForkFirstTwo', ForkThree', Fork!StatusIsTrue'
      PROVE  ForkOK'
  <2>1. Fork!TypeOK'
    BY <1>1, <1>3, <1>4 DEF Fork!TypeOK, ForkPcs
  <2>2. ForkCodes'
    BY <1>0, <1>3, <1>4 DEF ForkCodes
  <2> QED
    BY <1>4, <2>1, <2>2 DEF ForkOK
<1>5. reported' = reported => Fork!StatusIsTrue'
  BY <1>0, <1>3 DEF Fork!StatusIsTrue
<1>6. ASSUME NEW k \in Fork!Children, Fork!Fork(k)
      PROVE  /\ children[k] = "unborn" /\ children'[k] = "running"
             /\ \A l \in Fork!Children \ {k} : children'[l] = children[l]
             /\ children' \in [Fork!Children -> {"unborn", "running", "zombie", "reaped"}]
  BY <1>1, <1>6 DEF Fork!Fork
<1>7. ASSUME NEW k \in Fork!Children, Fork!Reap(k)
      PROVE  /\ children[k] = "zombie" /\ children'[k] = "reaped"
             /\ \A l \in Fork!Children \ {k} : children'[l] = children[l]
             /\ children' \in [Fork!Children -> {"unborn", "running", "zombie", "reaped"}]
  BY <1>1, <1>7 DEF Fork!Reap
<1>8. \A n \in 0..2 : Fork!Child(n) \in Fork!Multiple
  BY ChildIs DEF Fork!Multiple
<1>9. CASE Fork!ForkFirst
  <2>1. /\ parent = "fork_1" /\ parent' = "wait_1" /\ Fork!Fork("first")
        /\ UNCHANGED <<wstatus, pid, i, reported>>
    BY <1>9 DEF Fork!ForkFirst, Fork!Step
  <2>2. /\ children'["first"] = "running"
        /\ \A l \in Fork!Children \ {"first"} : children'[l] = children[l]
        /\ children' \in [Fork!Children -> {"unborn", "running", "zombie", "reaped"}]
    BY <1>2, <1>6, <2>1
  <2>3. ForkFirstTwo'
    BY <1>0, <1>2, <2>1, <2>2 DEF ForkFirstTwo
  <2>4. ForkThree'
    BY <1>0, <1>2, <2>1, <2>2 DEF ForkThree
  <2> QED
    BY <1>1, <1>4, <1>5, <2>1, <2>2, <2>3, <2>4 DEF ForkPcs
<1>10. CASE Fork!ForkFirstFails
  <2>1. /\ parent = "fork_1" /\ parent' = "failed"
        /\ UNCHANGED <<children, wstatus, pid, i, reported>>
    BY <1>10 DEF Fork!ForkFirstFails, Fork!Step
  <2>2. ForkFirstTwo' /\ ForkThree'
    BY <1>0, <2>1 DEF ForkFirstTwo, ForkThree
  <2> QED
    BY <1>1, <1>4, <1>5, <2>1, <2>2 DEF ForkPcs
<1>11. CASE Fork!WaitFirst
  <2>1. PICK k \in Fork!Children : Fork!Reap(k) /\ wstatus' = code[k]
    BY <1>11 DEF Fork!WaitFirst
  <2>2. /\ parent = "wait_1" /\ parent' = "report"
        /\ UNCHANGED <<pid, i, reported>>
    BY <1>11 DEF Fork!WaitFirst, Fork!Step
  <2>3. k = "first"
    BY <1>0, <1>2, <1>7, <2>1, <2>2 DEF ForkFirstTwo, ForkThree
  <2>4. /\ children'["first"] = "reaped" /\ wstatus' = code["first"]
        /\ \A l \in Fork!Children \ {"first"} : children'[l] = children[l]
        /\ children["first"] = "zombie"
        /\ children' \in [Fork!Children -> {"unborn", "running", "zombie", "reaped"}]
    BY <1>7, <2>1, <2>3
  <2>5. ForkFirstTwo'
    BY <1>0, <1>2, <1>3, <2>2, <2>4 DEF ForkFirstTwo
  <2>6. ForkThree'
    BY <1>0, <1>2, <2>2, <2>4 DEF ForkThree
  <2>7. wstatus' \in Fork!Codes
    BY <1>1, <1>2, <2>4
  <2> QED
    BY <1>1, <1>4, <1>5, <2>2, <2>4, <2>5, <2>6, <2>7 DEF ForkPcs
<1>12. CASE Fork!Report
  <2>1. /\ parent = "report" /\ parent' = "fork_2"
        /\ reported' = IF wstatus = Fork!Signaled THEN reported ELSE wstatus
        /\ UNCHANGED <<children, wstatus, pid, i>>
    BY <1>12 DEF Fork!Report, Fork!Step
  <2>2. /\ children["first"] = "reaped" /\ wstatus = code["first"] /\ reported = Fork!Unset
        /\ code["first"] \in {Fork!Signaled, 42}
    BY <1>0, <1>2, <2>1 DEF ForkFirstTwo, ForkCodes
  <2>3. ForkFirstTwo' /\ ForkThree'
    BY <1>0, <2>1 DEF ForkFirstTwo, ForkThree, Settled
  <2>4. reported' \in Fork!Codes
    BY <1>1, <2>1
  <2>5. Fork!StatusIsTrue'
    BY <1>3, <2>1, <2>2 DEF Fork!StatusIsTrue
  <2> QED
    BY <1>1, <1>4, <2>1, <2>3, <2>4, <2>5 DEF ForkPcs
<1>13. CASE Fork!ForkLs
  <2>1. /\ parent = "fork_2" /\ parent' = "wait_2"
        /\ (Fork!Fork("ls") /\ pid' = "ls") \/ (children' = children /\ pid' = pid)
        /\ UNCHANGED <<wstatus, i, reported>>
    BY <1>13 DEF Fork!ForkLs, Fork!Step
  <2>2. /\ \A l \in Fork!Children \ {"ls"} : children'[l] = children[l]
        /\ children'["ls"] \in {"running", "unborn"}
        /\ pid' = "none" => children'["ls"] = "unborn"
        /\ children' \in [Fork!Children -> {"unborn", "running", "zombie", "reaped"}]
    BY <1>0, <1>1, <1>2, <1>6, <2>1 DEF ForkFirstTwo
  <2>3. ForkFirstTwo'
    BY <1>0, <1>2, <2>1, <2>2 DEF ForkFirstTwo
  <2>4. ForkThree'
    BY <1>0, <1>2, <2>1, <2>2 DEF ForkThree
  <2>5. \A k \in Fork!Children : children'[k] \in {"zombie", "reaped"} =>
            children[k] \in {"zombie", "reaped"}
    BY <2>2
  <2> QED
    BY <1>1, <1>4, <1>5, <2>1, <2>2, <2>3, <2>4, <2>5 DEF ForkPcs
<1>14. CASE Fork!WaitLs
  <2>1. /\ parent = "wait_2" /\ parent' = "fork_4"
        /\ (pid = "ls" /\ Fork!Reap("ls")) \/ (pid = "none" /\ Fork!WaitAny)
        /\ UNCHANGED <<wstatus, pid, i, reported>>
    BY <1>14 DEF Fork!WaitLs, Fork!Step
  <2>2. pid = "none" => \A k \in Fork!Children : ~Fork!Reap(k)
    BY <1>0, <1>2, <1>7, <2>1 DEF ForkFirstTwo, ForkThree
  <2>3. /\ \A l \in Fork!Children \ {"ls"} : children'[l] = children[l]
        /\ children'["ls"] \in {"reaped", "unborn"}
        /\ children'["ls"] = "reaped" => children["ls"] = "zombie"
        /\ children' \in [Fork!Children -> {"unborn", "running", "zombie", "reaped"}]
    BY <1>0, <1>1, <1>2, <1>7, <2>1, <2>2 DEF Fork!WaitAny, ForkFirstTwo
  <2>4. ForkFirstTwo'
    BY <1>0, <1>2, <2>1, <2>3 DEF ForkFirstTwo, Settled
  <2>5. ForkThree'
    BY <1>0, <1>2, <1>8, <2>1, <2>3 DEF ForkThree
  <2> QED
    BY <1>1, <1>4, <1>5, <2>1, <2>3, <2>4, <2>5 DEF ForkPcs
<1>15. CASE Fork!ForkNext
  <2>1. /\ parent = "fork_4" /\ parent' = parent /\ i < 3 /\ i' = i + 1
        /\ Fork!Fork(Fork!Child(i)) \/ children' = children
        /\ UNCHANGED <<wstatus, pid, reported>>
    BY <1>15 DEF Fork!ForkNext, Fork!Round
  <2>2. i \in 0..2 /\ Fork!Child(i) \in Fork!Multiple
    BY <1>1, <1>8, <2>1
  <2>3. /\ \A l \in Fork!Children \ {Fork!Child(i)} : children'[l] = children[l]
        /\ children'[Fork!Child(i)] \in {"running", "unborn"}
        /\ children' \in [Fork!Children -> {"unborn", "running", "zombie", "reaped"}]
    <3>1. i >= i
      BY <2>2
    <3>2. children[Fork!Child(i)] = "unborn"
      BY <1>0, <2>1, <2>2, <3>1 DEF ForkThree
    <3>3. CASE Fork!Fork(Fork!Child(i))
      BY <1>2, <1>6, <2>2, <3>3
    <3>4. CASE children' = children
      BY <1>1, <3>2, <3>4
    <3> QED
      BY <2>1, <3>3, <3>4
  <2>4. \A n \in 0..2 : n > i => Fork!Child(n) # Fork!Child(i)
    BY <2>2, ChildIs
  <2>5. \A n \in 0..2 : n >= i' => n >= i /\ n > i
    BY <2>1, <2>2
  <2>6. ForkThree'
    BY <1>0, <1>2, <1>8, <2>1, <2>3, <2>4, <2>5 DEF ForkThree
  <2>7. children'["first"] = children["first"] /\ children'["ls"] = children["ls"]
    BY <1>2, <2>2, <2>3
  <2>8. ForkFirstTwo'
    BY <1>0, <2>1, <2>7 DEF ForkFirstTwo, Settled
  <2>9. i' \in 0..3
    BY <2>1, <2>2
  <2>10. \A k \in Fork!Children : children'[k] \in {"zombie", "reaped"} =>
            children[k] \in {"zombie", "reaped"}
    BY <2>3
  <2> QED
    BY <1>1, <1>4, <1>5, <2>1, <2>3, <2>6, <2>8, <2>9, <2>10 DEF ForkPcs
<1>16. CASE Fork!ForkDone
  <2>1. /\ parent = "fork_4" /\ parent' = "wait_4" /\ i' = 0
        /\ UNCHANGED <<children, wstatus, pid, reported>>
    BY <1>16 DEF Fork!ForkDone, Fork!Step
  <2>2. ForkFirstTwo' /\ ForkThree'
    BY <1>0, <2>1 DEF ForkFirstTwo, ForkThree, Settled
  <2> QED
    BY <1>1, <1>4, <1>5, <2>1, <2>2 DEF ForkPcs
<1>17. CASE Fork!WaitNext
  <2>1. /\ parent = "wait_4" /\ parent' = parent /\ i < 3 /\ i' = i + 1
        /\ Fork!WaitAny
        /\ UNCHANGED <<wstatus, pid, reported>>
    BY <1>17 DEF Fork!WaitNext, Fork!Round
  <2>2. i \in 0..2 /\ i' \in 1..3
    BY <1>1, <2>1
  <2>3. CASE \E k \in Fork!Children : Fork!Reap(k)
    <3>1. PICK k \in Fork!Children : Fork!Reap(k)
      BY <2>3
    <3>2. /\ children[k] = "zombie" /\ children'[k] = "reaped"
          /\ \A l \in Fork!Children \ {k} : children'[l] = children[l]
          /\ children' \in [Fork!Children -> {"unborn", "running", "zombie", "reaped"}]
      BY <1>7, <3>1
    <3>3. k \in Fork!Multiple
      BY <1>0, <1>2, <2>1, <3>2 DEF ForkFirstTwo, Settled
    <3>4. \A l \in Fork!Multiple : Settled(l) => l # k /\ Settled(l)'
      BY <1>2, <3>2 DEF Settled
    <3>5. Settled(k)'
      BY <3>2 DEF Settled
    <3>6. ForkThree'
      <4>1. CASE i = 0
        BY <1>0, <2>1, <3>3, <3>5, <4>1 DEF ForkThree
      <4>2. CASE i = 1
        <5>1. PICK l \in Fork!Multiple : Settled(l)
          BY <1>0, <2>1, <4>2 DEF ForkThree
        <5>2. l # k /\ Settled(l)'
          BY <3>4, <5>1
        <5> QED
          BY <1>0, <2>1, <3>3, <3>5, <4>2, <5>2 DEF ForkThree
      <4>3. CASE i = 2
        <5>1. PICK l \in Fork!Multiple, m \in Fork!Multiple : l # m /\ Settled(l) /\ Settled(m)
          BY <1>0, <2>1, <4>3 DEF ForkThree
        <5>2. l # k /\ m # k /\ Settled(l)' /\ Settled(m)'
          BY <3>4, <5>1
        <5>3. \A x \in Fork!Multiple : x = k \/ x = l \/ x = m
          BY <3>3, <5>1, <5>2 DEF Fork!Multiple
        <5>4. \A x \in Fork!Multiple : Settled(x)'
          BY <3>5, <5>2, <5>3
        <5> QED
          BY <2>1, <4>3, <5>4 DEF ForkThree
      <4> QED
        BY <2>2, <4>1, <4>2, <4>3
    <3>7. children'["first"] = children["first"] /\ children'["ls"] = children["ls"]
      BY <1>2, <3>2, <3>3
    <3>8. ForkFirstTwo'
      BY <1>0, <2>1, <3>7 DEF ForkFirstTwo, Settled
    <3> QED
      BY <1>1, <1>4, <1>5, <2>1, <2>2, <3>2, <3>6, <3>8 DEF ForkPcs
  <2>4. CASE Fork!NoChildLeft /\ children' = children
    <3>1. \A l \in Fork!Multiple : Settled(l)'
      BY <1>2, <2>4 DEF Fork!NoChildLeft, Settled
    <3>2. "child0" \in Fork!Multiple /\ "child1" \in Fork!Multiple
      BY DEF Fork!Multiple
    <3>3. ForkThree'
      BY <2>1, <3>1, <3>2 DEF ForkThree
    <3>4. ForkFirstTwo'
      BY <1>0, <2>1, <2>4 DEF ForkFirstTwo, Settled
    <3> QED
      BY <1>1, <1>4, <1>5, <2>1, <2>2, <2>4, <3>3, <3>4 DEF ForkPcs
  <2> QED
    BY <2>1, <2>3, <2>4 DEF Fork!WaitAny
<1>18. CASE Fork!WaitDone
  <2>1. /\ parent = "wait_4" /\ parent' = "completed" /\ i = 3
        /\ UNCHANGED <<children, wstatus, pid, i, reported>>
    BY <1>18 DEF Fork!WaitDone, Fork!Step
  <2>2. ForkFirstTwo' /\ ForkThree'
    BY <1>0, <2>1 DEF ForkFirstTwo, ForkThree, Settled
  <2> QED
    BY <1>1, <1>4, <1>5, <2>1, <2>2 DEF ForkPcs
<1> QED
  BY <1>9, <1>10, <1>11, <1>12, <1>13, <1>14, <1>15, <1>16, <1>17, <1>18
     DEF Fork!Parent

LEMMA StepFork == ForkOK /\ [Fork!Next]_fork_vars => ForkOK'
<1> SUFFICES ASSUME ForkOK, [Fork!Next]_fork_vars PROVE ForkOK'
  OBVIOUS
<1>1. {"first", "ls"} \subseteq Fork!Children /\ Fork!Multiple \subseteq Fork!Children
      /\ "first" \notin Fork!Multiple
  BY DEF Fork!Children, Fork!Multiple
<1>2. {Fork!Signaled, 0, 1, 42} \subseteq Fork!Codes \ {Fork!Unset}
  BY DEF Fork!Codes, Fork!Signaled, Fork!Unset
<1>3. CASE Fork!Parent
  BY <1>3, StepParent
<1>4. CASE Fork!ChildStep
  <2>1. CASE Fork!Exit("first", 42)
    BY <1>1, <1>2, <2>1, StepExit
  <2>2. ASSUME NEW n \in {0, 1}, Fork!Exit("ls", n) PROVE ForkOK'
    BY <1>1, <1>2, <2>2, StepExit
  <2>3. ASSUME NEW k \in Fork!Multiple, Fork!Exit(k, 0) PROVE ForkOK'
    BY <1>1, <1>2, <2>3, StepExit
  <2> QED
    BY <1>4, <2>1, <2>2, <2>3 DEF Fork!ChildStep
<1>5. ASSUME NEW k \in Fork!Children, Fork!Kill(k) PROVE ForkOK'
  <2>1. Fork!Exit(k, Fork!Signaled)
    BY <1>5 DEF Fork!Kill
  <2> QED
    BY <1>2, <2>1, StepExit
<1>6. CASE UNCHANGED fork_vars
  <2>1. UNCHANGED <<parent, children, code, wstatus, pid, i, reported>>
    BY <1>6 DEF fork_vars
  <2>2. Fork!TypeOK'
    BY <2>1 DEF ForkOK, Fork!TypeOK
  <2>3. ForkCodes' /\ Fork!StatusIsTrue'
    BY <2>1 DEF ForkOK, ForkCodes, Fork!StatusIsTrue
  <2>4. ForkFirstTwo' /\ ForkThree'
    BY <2>1 DEF ForkOK, ForkFirstTwo, ForkThree, Settled
  <2> QED
    BY <2>2, <2>3, <2>4 DEF ForkOK
<1> QED
  BY <1>3, <1>4, <1>5, <1>6 DEF Fork!Next

-----------------------------------------------------------------------------
(* bandwidth_test                                                          *)

\* The client is ahead of the server by no less than what is on the wire, but
\* for the part of a send() that has not returned; by just that unless there was
\* a reset.
BandwidthGap ==
    /\ gap >= wire - taken
    /\ rst = "no" => gap = wire - taken
    /\ sender # "sending" => taken = 0

BandwidthOK == Bandwidth!TypeOK /\ BandwidthGap

ReceiverPcs == {"start", "accept", "begin", "test", "recv", "report", "closed", "returned"}
SenderPcs == {"start", "begin", "test", "send", "sending", "report", "ended",
              "failed", "killed"}

LEMMA BandwidthTyped ==
  Bandwidth!TypeOK <=>
    /\ lang \in {"c", "cpp"}
    /\ duration \in Durations
    /\ receiver \in ReceiverPcs
    /\ sender \in SenderPcs
    /\ age \in [{"server", "client"} -> 0..Bandwidth!Oldest]
    /\ wire \in 0..Cap
    /\ rst \in {"no", "ECONNRESET", "EPIPE"}
    /\ taken \in 0..(Buffer - 1)
    /\ gap \in Int
    /\ printed \subseteq {"server", "client"}
BY DEF Bandwidth!TypeOK, ReceiverPcs, SenderPcs

LEMMA OldestIsNat == Bandwidth!Oldest \in Nat \ {0}
<1> DEFINE T == Durations \cup {Limit}
           Longest(n) == \A m \in T : m <= n
<1>1. \E n \in T : Longest(n)
  BY BandwidthAssumption
<1>2. (CHOOSE n \in T : Longest(n)) \in T
  BY <1>1
<1>3. T \subseteq Nat
  BY BandwidthAssumption
<1>4. (CHOOSE n \in T : Longest(n)) \in Nat
  BY <1>2, <1>3
<1>5. Bandwidth!Oldest = 1 + (CHOOSE n \in T : Longest(n))
  BY DEF Bandwidth!Oldest
<1> HIDE DEF T, Longest
<1> QED
  BY <1>4, <1>5

LEMMA InitBandwidth == Bandwidth!Init => BandwidthOK
<1> SUFFICES ASSUME Bandwidth!Init PROVE BandwidthOK
  OBVIOUS
<1>1. receiver \in ReceiverPcs /\ sender \in SenderPcs /\ printed \subseteq {"server", "client"}
  BY DEF Bandwidth!Init, ReceiverPcs, SenderPcs
<1>2. wire \in 0..Cap /\ taken \in 0..(Buffer - 1) /\ gap \in Int
  BY BandwidthAssumption DEF Bandwidth!Init
<1>3. age \in [{"server", "client"} -> 0..Bandwidth!Oldest]
  BY OldestIsNat DEF Bandwidth!Init
<1>4. BandwidthGap
  BY DEF Bandwidth!Init, BandwidthGap
<1> QED
  BY <1>1, <1>2, <1>3, <1>4, BandwidthTyped DEF Bandwidth!Init, BandwidthOK

LEMMA BandwidthKnown == BandwidthOK => ReportsAgree
BY BandwidthTyped
   DEF BandwidthOK, BandwidthGap, ReportsAgree, Bandwidth!ReportsAgree

LEMMA StepBandwidth == BandwidthOK /\ [Bandwidth!Next]_bandwidth_vars => BandwidthOK'
<1> SUFFICES ASSUME BandwidthOK, [Bandwidth!Next]_bandwidth_vars PROVE BandwidthOK'
  OBVIOUS
<1>0. /\ lang \in {"c", "cpp"}
      /\ duration \in Durations
      /\ receiver \in ReceiverPcs
      /\ sender \in SenderPcs
      /\ age \in [{"server", "client"} -> 0..Bandwidth!Oldest]
      /\ wire \in 0..Cap
      /\ rst \in {"no", "ECONNRESET", "EPIPE"}
      /\ taken \in 0..(Buffer - 1)
      /\ gap \in Int
      /\ printed \subseteq {"server", "client"}
  BY BandwidthTyped DEF BandwidthOK
<1>1. BandwidthGap
  BY DEF BandwidthOK
<1>2. ASSUME lang' \in {"c", "cpp"}, duration' \in Durations,
             receiver' \in ReceiverPcs, sender' \in SenderPcs,
             age' \in [{"server", "client"} -> 0..Bandwidth!Oldest],
             wire' \in 0..Cap, rst' \in {"no", "ECONNRESET", "EPIPE"},
             taken' \in 0..(Buffer - 1), gap' \in Int,
             printed' \subseteq {"server", "client"},
             BandwidthGap'
      PROVE  BandwidthOK'
  <2>1. Bandwidth!TypeOK'
    BY <1>2 DEF Bandwidth!TypeOK, ReceiverPcs, SenderPcs
  <2> QED
    BY <1>2, <2>1 DEF BandwidthOK
<1> USE DEF Bandwidth!ServerStep, Bandwidth!ClientStep, Bandwidth!counts, Bandwidth!peers
\* Steps that receive nothing and send nothing.
<1>3. ASSUME UNCHANGED <<lang, duration, wire, taken, gap>>,
             receiver' \in ReceiverPcs, sender' \in SenderPcs,
             age' \in [{"server", "client"} -> 0..Bandwidth!Oldest],
             rst' = rst \/ rst' \in {"ECONNRESET", "EPIPE"},
             printed' \subseteq {"server", "client"},
             sender' # "sending" => taken = 0
      PROVE  BandwidthOK'
  <2>1. BandwidthGap'
    BY <1>1, <1>3 DEF BandwidthGap
  <2>2. rst' \in {"no", "ECONNRESET", "EPIPE"}
    BY <1>0, <1>3
  <2> QED
    BY <1>0, <1>2, <1>3, <2>1, <2>2
<1>4. \A p \in {"server", "client"} :
          [age EXCEPT ![p] = 0] \in [{"server", "client"} -> 0..Bandwidth!Oldest]
  BY <1>0, OldestIsNat
<1>5. ASSUME NEW p \in {"server", "client"}, Bandwidth!Prints(p)
      PROVE  printed' \subseteq {"server", "client"}
  BY <1>0, <1>5 DEF Bandwidth!Prints
<1>6. CASE Bandwidth!ServerListens \/ Bandwidth!ServerAccepts \/ Bandwidth!AcceptFails
  <2>1. /\ UNCHANGED <<lang, duration, wire, taken, gap, sender, age, printed>>
        /\ receiver' \in {"accept", "returned", "begin"}
        /\ rst' = rst \/ rst' = "ECONNRESET"
    BY <1>6
       DEF Bandwidth!ServerListens, Bandwidth!ServerAccepts,
           Bandwidth!AcceptFails
  <2>2. receiver' \in ReceiverPcs
    BY <2>1 DEF ReceiverPcs
  <2>3. sender' # "sending" => taken = 0
    BY <1>1, <2>1 DEF BandwidthGap
  <2> QED
    BY <1>0, <1>3, <2>1, <2>2, <2>3
<1>7. CASE Bandwidth!ServerBegins \/ Bandwidth!ServerTest \/ Bandwidth!ServerEof
  <2>1. /\ UNCHANGED <<lang, duration, wire, taken, gap, sender, rst, printed>>
        /\ receiver' \in {"test", "recv", "report"}
        /\ age' = age \/ age' = [age EXCEPT !["server"] = 0]
    BY <1>7
       DEF Bandwidth!ServerBegins, Bandwidth!ServerTest, Bandwidth!ServerEof
  <2>2. receiver' \in ReceiverPcs
    BY <2>1 DEF ReceiverPcs
  <2>3. sender' # "sending" => taken = 0
    BY <1>1, <2>1 DEF BandwidthGap
  <2>4. age' \in [{"server", "client"} -> 0..Bandwidth!Oldest]
    BY <1>0, <1>4, <2>1
  <2> QED
    BY <1>0, <1>3, <2>1, <2>2, <2>3, <2>4
<1>8. CASE Bandwidth!ServerRecv
  <2>1. /\ UNCHANGED <<lang, duration, age, taken, sender, rst, printed>>
        /\ receiver' = "test" /\ wire > 0
    BY <1>8 DEF Bandwidth!ServerRecv
  <2>2. PICK n \in {wire, Buffer} : n <= wire /\ wire' = wire - n /\ gap' = gap - n
    <3>1. CASE wire < Buffer
      BY <1>0, <1>8, <3>1, BandwidthAssumption DEF Bandwidth!ServerRecv
    <3>2. CASE ~(wire < Buffer)
      BY <1>0, <1>8, <3>2, BandwidthAssumption DEF Bandwidth!ServerRecv
    <3> QED
      BY <3>1, <3>2
  <2>3. n \in Nat
    BY <1>0, <2>2, BandwidthAssumption
  <2>4. BandwidthGap'
    BY <1>0, <1>1, <2>1, <2>2, <2>3, BandwidthAssumption DEF BandwidthGap
  <2>5. wire' \in 0..Cap /\ gap' \in Int
    BY <1>0, <2>2, <2>3, BandwidthAssumption
  <2>6. receiver' \in ReceiverPcs
    BY <2>1 DEF ReceiverPcs
  <2> QED
    BY <1>0, <1>2, <2>1, <2>4, <2>5, <2>6
<1>9. CASE Bandwidth!ServerReports \/ Bandwidth!ResetArrives
  <2>1. /\ UNCHANGED <<lang, duration, wire, taken, gap, sender, age>>
        /\ receiver' \in {"closed", receiver}
        /\ rst' = rst \/ rst' \in {"ECONNRESET", "EPIPE"}
        /\ printed' = printed \/ Bandwidth!Prints("server")
    BY <1>9 DEF Bandwidth!ServerReports, Bandwidth!ResetArrives
  <2>2. receiver' \in ReceiverPcs
    BY <1>0, <2>1 DEF ReceiverPcs
  <2>3. sender' # "sending" => taken = 0
    BY <1>1, <2>1 DEF BandwidthGap
  <2> QED
    BY <1>0, <1>3, <1>5, <2>1, <2>2, <2>3
<1>10. CASE Bandwidth!Tick
  <2>1. /\ UNCHANGED <<lang, duration, wire, taken, gap, sender, receiver, rst, printed>>
        /\ age' = [p \in DOMAIN age |->
                     IF age[p] < Bandwidth!Oldest THEN age[p] + 1 ELSE Bandwidth!Oldest]
    BY <1>10 DEF Bandwidth!Tick
  <2>2. age' \in [{"server", "client"} -> 0..Bandwidth!Oldest]
    <3>1. DOMAIN age = {"server", "client"}
      BY <1>0
    <3>2. \A p \in {"server", "client"} :
             (IF age[p] < Bandwidth!Oldest THEN age[p] + 1 ELSE Bandwidth!Oldest)
                 \in 0..Bandwidth!Oldest
      BY <1>0, OldestIsNat
    <3> QED
      BY <2>1, <3>1, <3>2
  <2>3. sender' # "sending" => taken = 0
    BY <1>1, <2>1 DEF BandwidthGap
  <2> QED
    BY <1>0, <1>3, <2>1, <2>2, <2>3
<1>11. CASE \/ Bandwidth!ClientConnects \/ Bandwidth!ClientFails \/ Bandwidth!ClientBegins
            \/ Bandwidth!ClientTest
  <2>1. /\ UNCHANGED <<lang, duration, wire, taken, gap, receiver, rst, printed>>
        /\ sender \in {"start", "begin", "test"}
        /\ sender' \in {"begin", "failed", "test", "send", "report"}
        /\ age' = age \/ age' = [age EXCEPT !["client"] = 0]
    BY <1>11
       DEF Bandwidth!ClientConnects, Bandwidth!ClientFails,
           Bandwidth!ClientBegins,
       Bandwidth!ClientTest
  <2>2. sender' \in SenderPcs
    BY <2>1 DEF SenderPcs
  <2>3. taken = 0
    BY <1>1, <2>1 DEF BandwidthGap
  <2>4. age' \in [{"server", "client"} -> 0..Bandwidth!Oldest]
    BY <1>0, <1>4, <2>1
  <2> QED
    BY <1>0, <1>3, <2>1, <2>2, <2>3, <2>4
<1>12. CASE Bandwidth!SendFails \/ Bandwidth!SendKills \/ Bandwidth!ClientReports
  <2>1. /\ UNCHANGED <<lang, duration, wire, taken, gap, receiver, rst, age>>
        /\ sender \in {"send", "report"}
        /\ sender' \in {"report", "killed", "ended"}
        /\ printed' = printed \/ Bandwidth!Prints("client")
    BY <1>12
       DEF Bandwidth!SendFails, Bandwidth!SendKills, Bandwidth!ClientReports
  <2>2. sender' \in SenderPcs
    BY <2>1 DEF SenderPcs
  <2>3. taken = 0
    BY <1>1, <2>1 DEF BandwidthGap
  <2> QED
    BY <1>0, <1>3, <1>5, <2>1, <2>2, <2>3
<1>13. CASE Bandwidth!SendTakes
  <2>1. /\ rst = "no" /\ rst' = rst /\ wire < Cap /\ wire' = wire + 1
        /\ UNCHANGED <<lang, duration, receiver, age, printed>>
        /\ \/ /\ taken + 1 < Buffer /\ sender' = "sending"
              /\ taken' = taken + 1 /\ gap' = gap
           \/ /\ ~(taken + 1 < Buffer) /\ sender' = "test"
              /\ taken' = 0 /\ gap' = gap + Buffer
    BY <1>13 DEF Bandwidth!SendTakes, Bandwidth!SendReturns
  <2>2. wire' \in 0..Cap /\ taken' \in 0..(Buffer - 1) /\ gap' \in Int
    BY <1>0, <2>1, BandwidthAssumption
  <2>3. BandwidthGap'
    BY <1>0, <1>1, <2>1, BandwidthAssumption DEF BandwidthGap
  <2>4. sender' \in SenderPcs
    BY <2>1 DEF SenderPcs
  <2> QED
    BY <1>0, <1>2, <2>1, <2>2, <2>3, <2>4
<1>14. CASE Bandwidth!SendCutShort
  <2>1. /\ rst # "no" /\ sender' = "test" /\ taken' = 0
        /\ UNCHANGED <<lang, duration, receiver, age, wire, rst, printed>>
        /\ gap' = gap + taken \/ gap' = gap + Buffer
    BY <1>14 DEF Bandwidth!SendCutShort, Bandwidth!SendReturns
  <2>2. taken' \in 0..(Buffer - 1) /\ gap' \in Int
    BY <1>0, <2>1, BandwidthAssumption
  <2>3. BandwidthGap'
    BY <1>0, <1>1, <2>1, BandwidthAssumption DEF BandwidthGap
  <2>4. sender' \in SenderPcs
    BY <2>1 DEF SenderPcs
  <2> QED
    BY <1>0, <1>2, <2>1, <2>2, <2>3, <2>4
<1>15. CASE UNCHANGED bandwidth_vars
  <2>1. UNCHANGED <<lang, duration, receiver, sender, age, wire, rst, taken, gap, printed>>
    BY <1>15 DEF bandwidth_vars
  <2>2. sender' # "sending" => taken = 0
    BY <1>1, <2>1 DEF BandwidthGap
  <2> QED
    BY <1>0, <1>3, <2>1, <2>2
<1> QED
  BY <1>6, <1>7, <1>8, <1>9, <1>10, <1>11, <1>12, <1>13, <1>14, <1>15
     DEF Bandwidth!Next, Bandwidth!Server, Bandwidth!Client

-----------------------------------------------------------------------------
(* pipes_ipc                                                               *)

Kids == {"reader", "callee", "generator", "squarer"}

Over(p) == pc[p] \in {"done", "killed", "shot"}
Missing(p) == pc[p] \in {"none", "unforked"}
Gone(k) == life[k] \in {"unborn", "reaped"}

\* Where each process can be.
PipePlaces ==
    /\ pc["parent"] \in
          {"pipe_1", "fork_1", "close_1", "write_1", "shut_1", "wait_1",
          "pipe_2",
           "fork_2", "close_2", "write_2", "read_2", "shut_2", "wait_2",
           "pipe_3",
           "fork_gen", "fork_sq", "close_3", "read_3", "print_3", "shut_3",
           "wait_3", "wait_4", "exit", "done", "killed", "shot"}
    /\ pc["reader"] \in
          {"none", "unforked", "begin", "read", "close", "exit", "done",
          "killed", "shot"}
    /\ pc["callee"] \in
          {"none", "unforked", "begin", "read", "write", "close", "exit",
           "done", "killed", "shot"}
    /\ pc["generator"] \in
          {"none", "unforked", "begin", "write", "exit", "done", "killed",
          "shot"}
    /\ pc["squarer"] \in
          {"none", "unforked", "begin", "read", "print", "close", "flush",
          "exit",
           "done", "killed", "shot"}

\* What wait() sees of it.
PipeLife ==
    \A p \in AllProcesses :
        /\ life[p] = "unborn" <=> Missing(p)
        /\ life[p] \in {"zombie", "reaped"} <=> Over(p)

\* The children come one after the other, and are waited for before the next
\* example: the last two by two calls of wait().
PipeOrder ==
    /\ pc["parent"] \in {"pipe_1", "fork_1"} => \A k \in Kids : pc[k] = "none"
    /\ pc["parent"] \in {"close_1", "write_1", "shut_1", "wait_1"} =>
          /\ ~Missing("reader")
          /\ pc["callee"] = "none" /\ pc["generator"] = "none" /\ pc["squarer"] = "none"
    /\ pc["parent"] \in {"pipe_2", "fork_2"} =>
          /\ Gone("reader")
          /\ pc["callee"] = "none" /\ pc["generator"] = "none" /\ pc["squarer"] = "none"
    /\ pc["parent"] \in {"close_2", "write_2", "read_2", "shut_2", "wait_2"} =>
          /\ Gone("reader") /\ pc["callee"] # "none"
          /\ pc["generator"] = "none" /\ pc["squarer"] = "none"
    /\ pc["parent"] \in {"pipe_3", "fork_gen"} =>
          /\ Gone("reader") /\ Gone("callee")
          /\ pc["generator"] = "none" /\ pc["squarer"] = "none"
    /\ pc["parent"] = "fork_sq" =>
          /\ Gone("reader") /\ Gone("callee")
          /\ pc["generator"] # "none" /\ pc["squarer"] = "none"
    /\ pc["parent"] \in {"close_3", "read_3", "print_3", "shut_3", "wait_3"} =>
          /\ Gone("reader") /\ Gone("callee")
          /\ pc["generator"] # "none" /\ pc["squarer"] # "none"
    /\ pc["parent"] = "wait_4" =>
          /\ Gone("reader") /\ Gone("callee")
          /\ Gone("generator") \/ Gone("squarer")
    /\ pc["parent"] \in {"exit", "done"} => \A k \in Kids : Gone(k)

Both(x) == {<<x, "r">>, <<x, "w">>}
Sq(n) == n * n

\* The ends that each process has open, by where it is: the parent may leave
\* with some only if the first fork failed.
ParentHeld ==
    /\ pc["parent"] \in {"pipe_1", "wait_1", "pipe_2", "wait_2", "pipe_3", "wait_3", "wait_4",
                         "done", "killed", "shot"} => held["parent"] = {}
    /\ pc["parent"] \in {"fork_1", "close_1"} => held["parent"] = Both("pipefd")
    /\ pc["parent"] \in {"write_1", "shut_1"} => held["parent"] = {<<"pipefd", "w">>}
    /\ pc["parent"] \in {"fork_2", "close_2"} =>
          held["parent"] = Both("pipe_p2c") \cup Both("pipe_c2p")
    /\ pc["parent"] \in {"write_2", "read_2", "shut_2"} =>
          held["parent"] = {<<"pipe_p2c", "w">>, <<"pipe_c2p", "r">>}
    /\ pc["parent"] \in {"fork_gen", "fork_sq", "close_3"} =>
          held["parent"] = Both("pipe1") \cup Both("pipe2")
    /\ pc["parent"] \in {"read_3", "print_3", "shut_3"} => held["parent"] = {<<"pipe2", "r">>}

ReaderHeld ==
    /\ pc["reader"] \in {"none", "unforked", "exit", "done", "killed", "shot"} =>
          held["reader"] = {}
    /\ pc["reader"] = "begin" => held["reader"] = Both("pipefd")
    /\ pc["reader"] \in {"read", "close"} => held["reader"] = {<<"pipefd", "r">>}

CalleeHeld ==
    /\ pc["callee"] \in {"none", "unforked", "exit", "done", "killed", "shot"} =>
          held["callee"] = {}
    /\ pc["callee"] = "begin" => held["callee"] = Both("pipe_p2c") \cup Both("pipe_c2p")
    /\ pc["callee"] \in {"read", "write", "close"} =>
          held["callee"] = {<<"pipe_p2c", "r">>, <<"pipe_c2p", "w">>}

GeneratorHeld ==
    /\ pc["generator"] \in {"none", "unforked", "done", "killed", "shot"} =>
          held["generator"] = {}
    /\ pc["generator"] = "begin" => held["generator"] = Both("pipe1") \cup Both("pipe2")
    /\ pc["generator"] = "write" =>
          held["generator"] = {<<"pipe1", "w">>} \cup Both("pipe2")
    /\ pc["generator"] = "exit" => held["generator"] = Both("pipe2")

SquarerHeld ==
    /\ pc["squarer"] \in {"none", "unforked", "exit", "done", "killed", "shot"} =>
          held["squarer"] = {}
    /\ pc["squarer"] = "begin" => held["squarer"] = Both("pipe1") \cup Both("pipe2")
    /\ pc["squarer"] \in {"read", "print", "close"} =>
          held["squarer"] = {<<"pipe1", "r">>, <<"pipe2", "w">>}
    /\ pc["squarer"] = "flush" => held["squarer"] = {<<"pipe2", "w">>}

PipeHeld == ParentHeld /\ ReaderHeld /\ CalleeHeld /\ GeneratorHeld /\ SquarerHeld

\* Numbers the squarer's squares of which are printed, read, or in the pipe.
Out == Len(results) + (IF pc["parent"] = "print_3" THEN 1 ELSE 0)
Through == Out + Len(content["pipe2"])
Squared == Through + Len(wp)
Taken == Squared + (IF pc["squarer"] = "print" THEN 1 ELSE 0)

SquaresFrom(s, n) == \A k \in 1..Len(s) : s[k] = Sq(n + k)
NumbersFrom(s, n) == \A k \in 1..Len(s) : s[k] = n + k

\* The numbers flow in order and none is missing, up to the process that died:
\* behind it nobody reads.
FlowPrinted == Len(results) <= Lines /\ SquaresFrom(results, 0)

FlowBefore ==
    ~Over("parent") =>
        /\ Through <= Lines
        /\ pc["parent"] = "print_3" => line["parent"] = Sq(Out)
        /\ SquaresFrom(content["pipe2"], Out)

FlowBehind ==
    ~Over("parent") /\ pc["squarer"] \notin {"killed", "shot"} =>
        /\ SquaresFrom(wp, Through)
        /\ pc["squarer"] = "print" => line["squarer"] = Taken
        /\ NumbersFrom(content["pipe1"], Taken)
        /\ line["generator"] = Taken + Len(content["pipe1"])

FlowEnds ==
    /\ pc["generator"] \in {"exit", "done"} => line["generator"] = Lines
    /\ pc["squarer"] \in {"exit", "done"} => wp = <<>>

PipeFlow == FlowPrinted /\ FlowBefore /\ FlowBehind /\ FlowEnds

AllAre(s, m) == \A k \in 1..Len(s) : s[k] = m

\* The two messages of the call.
PipeCall ==
    /\ AllAre(content["pipe_p2c"], Pipe!Call)
    /\ AllAre(content["pipe_c2p"], Pipe!Answer)

NoneKilled == \A p \in AllProcesses : pc[p] # "killed"

\* The reader does not leave before the message is sent ...
QuietReader ==
    /\ pc["parent"] \in {"close_1", "write_1"} =>
          pc["reader"] \in {"begin", "read"} /\ content["pipefd"] = <<>>
    /\ pc["parent"] \in {"pipe_1", "fork_1"} => content["pipefd"] = <<>>

\* ... nor the callee before the call, nor the parent before the answer ...
QuietCallee ==
    /\ pc["parent"] \in {"close_2", "write_2"} =>
          pc["callee"] \in {"begin", "read"} /\ content["pipe_p2c"] = <<>>
    /\ pc["callee"] = "none" => content["pipe_p2c"] = <<>>
    /\ pc["callee"] \in {"none", "begin", "read", "write"} => content["pipe_c2p"] = <<>>
    /\ pc["parent"] = "read_2" /\ pc["callee"] \notin {"begin", "read", "write"} =>
          content["pipe_c2p"] # <<>>
    /\ pc["callee"] \in {"begin", "read", "write"} =>
          pc["parent"] \in {"close_2", "write_2", "read_2"}
    /\ pc["callee"] \in {"write", "close"} => line["callee"] = Pipe!Call
    /\ pc["parent"] = "shut_2" => line["parent"] = Pipe!Answer

\* ... nor anybody behind a writer of the pipeline before the writer.
QuietNumbers ==
    /\ pc["generator"] \in {"begin", "write"} =>
          \/ pc["parent"] \in {"fork_sq", "close_3"}
          \/ pc["squarer"] \in {"begin", "read", "print"}
    /\ pc["squarer"] \in {"begin", "read", "print", "close", "flush"} =>
          pc["parent"] \in {"close_3", "read_3", "print_3"}
    /\ pc["squarer"] \in {"close", "flush", "exit", "done"} =>
          pc["generator"] \in {"exit", "done"} /\ content["pipe1"] = <<>>
    /\ pc["parent"] \in {"shut_3", "wait_3"} => Len(results) = Lines

AllQuiet == NoneKilled /\ QuietReader /\ QuietCallee /\ QuietNumbers

\* Before anything fails each process that waits has somebody to wait for, and
\* each that writes somebody to write to.
PipeQuiet == Pipe!NothingFailed => AllQuiet

PipeNames == {"pipefd", "pipe_p2c", "pipe_c2p", "pipe1", "pipe2"}
Lifes == {"unborn", "alive", "zombie", "reaped"}

KernelOK ==
    /\ held \in [AllProcesses -> SUBSET Pipe!Ends]
    /\ content \in [PipeNames -> Seq(Nat)]
    /\ \A x \in PipeNames : Len(content[x]) <= PipeSize
    /\ life \in [AllProcesses -> Lifes]

Typed ==
    /\ KernelOK
    /\ pc \in [AllProcesses -> Pipe!Labels]
    /\ line \in [AllProcesses -> Nat]
    /\ line["generator"] <= Lines
    /\ wp \in Seq(Nat)
    /\ results \in Seq(Nat)

LEMMA PipeTyped == Pipe!TypeOK <=> Typed
BY DEF Pipe!TypeOK, Typed, KernelOK, PipeNames, Lifes

-----------------------------------------------------------------------------
(* The calls of the kernel.                                                *)

LEMMA OpenCall ==
  ASSUME KernelOK, NEW p \in AllProcesses, NEW S \in SUBSET PipeNames, Pipe!Open(p, S)
  PROVE  /\ KernelOK' /\ UNCHANGED <<content, life>>
         /\ held'[p] = held[p] \cup (S \X {"r", "w"})
         /\ \A q \in AllProcesses \ {p} : held'[q] = held[q]
<1>1. S \X {"r", "w"} \subseteq Pipe!Ends
  BY DEF Pipe!Ends, PipeNames
<1>2. held' \in [AllProcesses -> SUBSET Pipe!Ends]
  BY <1>1 DEF Pipe!Open, KernelOK
<1> QED
  BY <1>2 DEF Pipe!Open, KernelOK

LEMMA CloseCall ==
  ASSUME KernelOK, NEW p \in AllProcesses, NEW E, Pipe!Close(p, E)
  PROVE  /\ KernelOK' /\ UNCHANGED <<content, life>>
         /\ held'[p] = held[p] \ E
         /\ \A q \in AllProcesses \ {p} : held'[q] = held[q]
<1>1. held' \in [AllProcesses -> SUBSET Pipe!Ends]
  BY DEF Pipe!Close, KernelOK
<1> QED
  BY <1>1 DEF Pipe!Close, KernelOK

LEMMA DieCall ==
  ASSUME KernelOK, NEW p \in AllProcesses, Pipe!Die(p)
  PROVE  /\ KernelOK' /\ UNCHANGED content
         /\ held'[p] = {} /\ life'[p] = "zombie"
         /\ \A q \in AllProcesses \ {p} : held'[q] = held[q] /\ life'[q] = life[q]
<1>1. held' \in [AllProcesses -> SUBSET Pipe!Ends] /\ life' \in [AllProcesses -> Lifes]
  BY DEF Pipe!Die, KernelOK, Lifes
<1> QED
  BY <1>1 DEF Pipe!Die, KernelOK

LEMMA ForkCall ==
  ASSUME KernelOK, NEW p \in AllProcesses, NEW k \in AllProcesses, Pipe!Fork(p, k)
  PROVE  /\ KernelOK' /\ UNCHANGED content
         /\ held'[k] = held[p] /\ life[k] = "unborn" /\ life'[k] = "alive"
         /\ \A q \in AllProcesses \ {k} : held'[q] = held[q] /\ life'[q] = life[q]
<1>1. held' \in [AllProcesses -> SUBSET Pipe!Ends] /\ life' \in [AllProcesses -> Lifes]
  BY DEF Pipe!Fork, KernelOK, Lifes
<1> QED
  BY <1>1 DEF Pipe!Fork, KernelOK

\* read() of data takes the first message out.
Takes(x) ==
    /\ content[x] # <<>> /\ content'[x] = Tail(content[x])
    /\ \A y \in PipeNames \ {x} : content'[y] = content[y]

LEMMA ReadCall ==
  ASSUME KernelOK, NEW p \in AllProcesses, NEW x \in PipeNames, Pipe!Read(p, x)
  PROVE  /\ KernelOK' /\ UNCHANGED <<held, life>>
         /\ Takes(x) /\ Head(content[x]) \in Nat
<1>1. content[x] \in Seq(Nat) /\ content[x] # <<>> /\ Len(content[x]) <= PipeSize
  BY DEF Pipe!Read, KernelOK
<1>2. /\ Tail(content[x]) \in Seq(Nat) /\ Head(content[x]) \in Nat
      /\ Len(Tail(content[x])) <= PipeSize
  BY <1>1, PipesAssumption
<1>3. /\ content' \in [PipeNames -> Seq(Nat)]
      /\ content'[x] = Tail(content[x])
      /\ \A y \in PipeNames \ {x} : content'[y] = content[y]
  BY <1>2 DEF Pipe!Read, KernelOK
<1>4. \A y \in PipeNames : Len(content'[y]) <= PipeSize
  BY <1>2, <1>3 DEF KernelOK
<1> QED
  BY <1>1, <1>2, <1>3, <1>4 DEF Pipe!Read, KernelOK, Takes

\* write() puts one at the end, while somebody can read it.
Puts(x, m) ==
    /\ \E q \in AllProcesses : <<x, "r">> \in held[q]
    /\ content'[x] = Append(content[x], m)
    /\ \A y \in PipeNames \ {x} : content'[y] = content[y]

LEMMA WriteCall ==
  ASSUME KernelOK, NEW p \in AllProcesses, NEW x \in PipeNames, NEW m \in Nat,
         Pipe!Write(p, x, m)
  PROVE  KernelOK' /\ UNCHANGED <<held, life>> /\ Puts(x, m)
<1>1. content[x] \in Seq(Nat) /\ Len(content[x]) < PipeSize
  BY DEF Pipe!Write, KernelOK
<1>2. Append(content[x], m) \in Seq(Nat) /\ Len(Append(content[x], m)) <= PipeSize
  BY <1>1, PipesAssumption
<1>3. /\ content' \in [PipeNames -> Seq(Nat)]
      /\ content'[x] = Append(content[x], m)
      /\ \A y \in PipeNames \ {x} : content'[y] = content[y]
  BY <1>2 DEF Pipe!Write, KernelOK
<1>4. \A y \in PipeNames : Len(content'[y]) <= PipeSize
  BY <1>2, <1>3 DEF KernelOK
<1>5. \E q \in AllProcesses : <<x, "r">> \in held[q]
  BY DEF Pipe!Write, Pipe!Readers
<1> QED
  BY <1>3, <1>4, <1>5 DEF Pipe!Write, KernelOK, Puts

\* read() of nothing: no process can write any more.
Shut(x) == content[x] = <<>> /\ \A q \in AllProcesses : <<x, "w">> \notin held[q]
Deaf(x) == \A q \in AllProcesses : <<x, "r">> \notin held[q]

LEMMA EofCall ==
  ASSUME NEW p, NEW x, Pipe!AtEof(p, x)
  PROVE  Shut(x)
BY DEF Pipe!AtEof, Pipe!Writers, Shut

LEMMA BrokenCall ==
  ASSUME NEW x, Pipe!Broken(x)
  PROVE  Deaf(x)
BY DEF Pipe!Broken, Pipe!Readers, Deaf

LEMMA WaitCall ==
  ASSUME KernelOK, Pipe!WaitAny(Kids)
  PROVE  /\ KernelOK' /\ UNCHANGED <<held, content>>
         /\ \A q \in AllProcesses : life'[q] = life[q] \/ (life[q] = "zombie" /\ life'[q] = "reaped")
         /\ life'["parent"] = life["parent"]
         /\ \/ \E k \in Kids : life[k] = "zombie" /\ life'[k] = "reaped"
            \/ \A k \in Kids : life[k] \notin {"alive", "zombie"}
<1>1. life' \in [AllProcesses -> Lifes]
  BY DEF Pipe!WaitAny, KernelOK, Lifes
<1> QED
  BY <1>1 DEF Pipe!WaitAny, KernelOK, Kids, AllProcesses, Lifes

-----------------------------------------------------------------------------
(* The steps, each as what it does to the process that makes it and to the  *)
(* pipes; the others stand.                                                 *)

Goes(p, a, b) ==
    /\ pc[p] = a /\ pc'[p] = b
    /\ \A q \in AllProcesses \ {p} :
          pc'[q] = pc[q] /\ life'[q] = life[q] /\ held'[q] = held[q] /\ line'[q] = line[q]

Opens(p, a, S, b) ==
    /\ Goes(p, a, b)
    /\ held'[p] = held[p] \cup (S \X {"r", "w"})
    /\ life'[p] = life[p] /\ line'[p] = line[p]
    /\ UNCHANGED <<content, wp, results>>

Closes(p, a, E, b) ==
    /\ Goes(p, a, b)
    /\ held'[p] = held[p] \ E
    /\ life'[p] = life[p] /\ line'[p] = line[p]
    /\ UNCHANGED <<content, wp, results>>

Reads(p, a, x, b) ==
    /\ Goes(p, a, b) /\ Takes(x)
    /\ held'[p] = held[p] /\ life'[p] = life[p]
    /\ line'[p] = Head(content[x])
    /\ UNCHANGED <<wp, results>>

Finds(p, a, x, b) ==
    /\ Goes(p, a, b) /\ Shut(x)
    /\ held'[p] = held[p] /\ life'[p] = life[p] /\ line'[p] = line[p]
    /\ UNCHANGED <<content, wp, results>>

Writes(p, a, x, m, b) ==
    /\ Goes(p, a, b) /\ Puts(x, m)
    /\ held'[p] = held[p] /\ life'[p] = life[p] /\ line'[p] = line[p]
    /\ UNCHANGED <<wp, results>>

Dies(p, a, b) ==
    /\ Goes(p, a, b)
    /\ held'[p] = {} /\ life'[p] = "zombie" /\ line'[p] = line[p]
    /\ UNCHANGED <<content, wp, results>>

Forks(a, k, b) ==
    /\ pc["parent"] = a /\ pc'["parent"] = b /\ pc'[k] = "begin"
    /\ \A q \in AllProcesses \ {"parent", k} : pc'[q] = pc[q]
    /\ \A q \in AllProcesses \ {k} : life'[q] = life[q] /\ held'[q] = held[q]
    /\ held'[k] = held["parent"] /\ life[k] = "unborn" /\ life'[k] = "alive"
    /\ UNCHANGED <<content, line, wp, results>>

ForksNot(a, k, b) ==
    /\ pc["parent"] = a /\ pc'["parent"] = b /\ pc'[k] = "unforked"
    /\ \A q \in AllProcesses \ {"parent", k} : pc'[q] = pc[q]
    /\ UNCHANGED <<held, content, life, line, wp, results>>

Waits(a, b) ==
    /\ pc["parent"] = a /\ pc'["parent"] = b
    /\ \A q \in AllProcesses \ {"parent"} : pc'[q] = pc[q]
    /\ life'["parent"] = life["parent"]
    /\ \A q \in Kids : life'[q] = life[q] \/ (life[q] = "zombie" /\ life'[q] = "reaped")
    /\ \/ \E k \in Kids : life[k] = "zombie" /\ life'[k] = "reaped"
       \/ \A k \in Kids : life[k] \notin {"alive", "zombie"}
    /\ UNCHANGED <<held, content, line, wp, results>>

LEMMA Going ==
  ASSUME Typed, NEW p \in AllProcesses, NEW a, NEW b \in Pipe!Labels,
         Pipe!At(p, a), Pipe!Goto(p, b)
  PROVE  /\ pc' \in [AllProcesses -> Pipe!Labels]
         /\ pc[p] = a /\ pc'[p] = b
         /\ \A q \in AllProcesses \ {p} : pc'[q] = pc[q]
BY DEF Typed, Pipe!At, Pipe!Goto

LEMMA OpenStep ==
  ASSUME Typed, NEW p \in AllProcesses, NEW a, NEW b \in Pipe!Labels, NEW S \in SUBSET PipeNames,
         Pipe!Step(p, a, Pipe!Open(p, S), b)
  PROVE  Typed' /\ Opens(p, a, S, b)
<1>1. /\ Pipe!At(p, a) /\ Pipe!Open(p, S) /\ Pipe!Goto(p, b)
      /\ line' = line /\ wp' = wp /\ results' = results
  BY DEF Pipe!Step
<1>2. /\ pc' \in [AllProcesses -> Pipe!Labels]
      /\ pc[p] = a /\ pc'[p] = b
      /\ \A q \in AllProcesses \ {p} : pc'[q] = pc[q]
  BY <1>1, Going
<1>3. /\ KernelOK' /\ UNCHANGED <<content, life>>
      /\ held'[p] = held[p] \cup (S \X {"r", "w"})
      /\ \A q \in AllProcesses \ {p} : held'[q] = held[q]
  BY <1>1, OpenCall DEF Typed
<1>4. Typed'
  BY <1>1, <1>2, <1>3 DEF Typed
<1>5. Opens(p, a, S, b)
  BY <1>1, <1>2, <1>3 DEF Opens, Goes
<1> QED
  BY <1>4, <1>5

LEMMA CloseStep ==
  ASSUME Typed, NEW p \in AllProcesses, NEW a, NEW b \in Pipe!Labels, NEW E,
         Pipe!Step(p, a, Pipe!Close(p, E), b)
  PROVE  Typed' /\ Closes(p, a, E, b)
<1>1. /\ Pipe!At(p, a) /\ Pipe!Close(p, E) /\ Pipe!Goto(p, b)
      /\ line' = line /\ wp' = wp /\ results' = results
  BY DEF Pipe!Step
<1>2. /\ pc' \in [AllProcesses -> Pipe!Labels]
      /\ pc[p] = a /\ pc'[p] = b
      /\ \A q \in AllProcesses \ {p} : pc'[q] = pc[q]
  BY <1>1, Going
<1>3. /\ KernelOK' /\ UNCHANGED <<content, life>>
      /\ held'[p] = held[p] \ E
      /\ \A q \in AllProcesses \ {p} : held'[q] = held[q]
  BY <1>1, CloseCall DEF Typed
<1>4. Typed'
  BY <1>1, <1>2, <1>3 DEF Typed
<1>5. Closes(p, a, E, b)
  BY <1>1, <1>2, <1>3 DEF Closes, Goes
<1> QED
  BY <1>4, <1>5

LEMMA DieStep ==
  ASSUME Typed, NEW p \in AllProcesses, NEW a, NEW b \in Pipe!Labels,
         Pipe!Step(p, a, Pipe!Die(p), b)
  PROVE  Typed' /\ Dies(p, a, b)
<1>1. /\ Pipe!At(p, a) /\ Pipe!Die(p) /\ Pipe!Goto(p, b)
      /\ line' = line /\ wp' = wp /\ results' = results
  BY DEF Pipe!Step
<1>2. /\ pc' \in [AllProcesses -> Pipe!Labels]
      /\ pc[p] = a /\ pc'[p] = b
      /\ \A q \in AllProcesses \ {p} : pc'[q] = pc[q]
  BY <1>1, Going
<1>3. /\ KernelOK' /\ UNCHANGED content
      /\ held'[p] = {} /\ life'[p] = "zombie"
      /\ \A q \in AllProcesses \ {p} : held'[q] = held[q] /\ life'[q] = life[q]
  BY <1>1, DieCall DEF Typed
<1>4. Typed'
  BY <1>1, <1>2, <1>3 DEF Typed
<1>5. Dies(p, a, b)
  BY <1>1, <1>2, <1>3 DEF Dies, Goes
<1> QED
  BY <1>4, <1>5

LEMMA KilledStep ==
  ASSUME Typed, NEW p \in AllProcesses, NEW a, NEW x, Pipe!KilledStep(p, a, x)
  PROVE  Typed' /\ Dies(p, a, "killed") /\ Deaf(x)
<1>1. Pipe!Step(p, a, Pipe!Die(p), "killed") /\ Pipe!Broken(x)
  BY DEF Pipe!KilledStep, Pipe!Step
<1>2. "killed" \in Pipe!Labels
  BY DEF Pipe!Labels
<1> QED
  BY <1>1, <1>2, DieStep, BrokenCall

LEMMA WriteStep ==
  ASSUME Typed, NEW p \in AllProcesses, NEW a, NEW b \in Pipe!Labels, NEW x \in PipeNames,
         NEW m \in Nat, Pipe!Step(p, a, Pipe!Write(p, x, m), b)
  PROVE  Typed' /\ Writes(p, a, x, m, b)
<1>1. /\ Pipe!At(p, a) /\ Pipe!Write(p, x, m) /\ Pipe!Goto(p, b)
      /\ line' = line /\ wp' = wp /\ results' = results
  BY DEF Pipe!Step
<1>2. /\ pc' \in [AllProcesses -> Pipe!Labels]
      /\ pc[p] = a /\ pc'[p] = b
      /\ \A q \in AllProcesses \ {p} : pc'[q] = pc[q]
  BY <1>1, Going
<1>3. KernelOK' /\ UNCHANGED <<held, life>> /\ Puts(x, m)
  BY <1>1, WriteCall DEF Typed
<1>4. Typed'
  BY <1>1, <1>2, <1>3 DEF Typed
<1>5. Writes(p, a, x, m, b)
  BY <1>1, <1>2, <1>3 DEF Writes, Goes
<1> QED
  BY <1>4, <1>5

LEMMA ReadStep ==
  ASSUME Typed, NEW p \in AllProcesses, p # "generator", NEW a, NEW b \in Pipe!Labels,
         NEW x \in PipeNames, Pipe!ReadStep(p, a, x, b)
  PROVE  Typed' /\ Reads(p, a, x, b)
<1>1. /\ Pipe!At(p, a) /\ Pipe!Read(p, x) /\ Pipe!Goto(p, b)
      /\ line' = [line EXCEPT ![p] = Head(content[x])]
      /\ wp' = wp /\ results' = results
  BY DEF Pipe!ReadStep
<1>2. /\ pc' \in [AllProcesses -> Pipe!Labels]
      /\ pc[p] = a /\ pc'[p] = b
      /\ \A q \in AllProcesses \ {p} : pc'[q] = pc[q]
  BY <1>1, Going
<1>3. KernelOK' /\ UNCHANGED <<held, life>> /\ Takes(x) /\ Head(content[x]) \in Nat
  BY <1>1, ReadCall DEF Typed
<1>4. /\ line' \in [AllProcesses -> Nat]
      /\ line'[p] = Head(content[x])
      /\ \A q \in AllProcesses \ {p} : line'[q] = line[q]
  BY <1>1, <1>3 DEF Typed
<1>5. line'["generator"] = line["generator"]
  BY <1>4 DEF AllProcesses
<1>6. Typed'
  BY <1>1, <1>2, <1>3, <1>4, <1>5 DEF Typed
<1>7. Reads(p, a, x, b)
  BY <1>1, <1>2, <1>3, <1>4 DEF Reads, Goes
<1> QED
  BY <1>6, <1>7

LEMMA EofStep ==
  ASSUME Typed, NEW p \in AllProcesses, NEW a, NEW b \in Pipe!Labels, NEW x,
         Pipe!EofStep(p, a, x, b)
  PROVE  Typed' /\ Finds(p, a, x, b)
<1>1. /\ Pipe!At(p, a) /\ Pipe!AtEof(p, x) /\ Pipe!Goto(p, b)
      /\ line' = line /\ wp' = wp /\ results' = results
      /\ held' = held /\ content' = content /\ life' = life
  BY DEF Pipe!EofStep, Pipe!Step, Pipe!pipes
<1>2. /\ pc' \in [AllProcesses -> Pipe!Labels]
      /\ pc[p] = a /\ pc'[p] = b
      /\ \A q \in AllProcesses \ {p} : pc'[q] = pc[q]
  BY <1>1, Going
<1>3. Shut(x)
  BY <1>1, EofCall
<1>4. Typed'
  BY <1>1, <1>2 DEF Typed, KernelOK
<1>5. Finds(p, a, x, b)
  BY <1>1, <1>2, <1>3 DEF Finds, Goes
<1> QED
  BY <1>4, <1>5

LEMMA ForkStep ==
  ASSUME Typed, NEW a, NEW b \in Pipe!Labels, NEW k \in Kids, Pipe!ForkStep(a, k, b)
  PROVE  Typed' /\ Forks(a, k, b)
<1>1. /\ pc["parent"] = a /\ Pipe!Fork("parent", k)
      /\ pc' = [pc EXCEPT !["parent"] = b, ![k] = "begin"]
      /\ line' = line /\ wp' = wp /\ results' = results
  BY DEF Pipe!ForkStep, Pipe!At
<1>2. /\ k # "parent" /\ k \in AllProcesses /\ "parent" \in AllProcesses
      /\ "begin" \in Pipe!Labels /\ "unforked" \in Pipe!Labels
  BY DEF Kids, AllProcesses, Pipe!Labels
<1>3. /\ pc' \in [AllProcesses -> Pipe!Labels]
      /\ pc'["parent"] = b /\ pc'[k] = "begin"
      /\ \A q \in AllProcesses \ {"parent", k} : pc'[q] = pc[q]
  BY <1>1, <1>2 DEF Typed
<1>4. /\ KernelOK' /\ UNCHANGED content
      /\ held'[k] = held["parent"] /\ life[k] = "unborn" /\ life'[k] = "alive"
      /\ \A q \in AllProcesses \ {k} : held'[q] = held[q] /\ life'[q] = life[q]
  BY <1>1, <1>2, ForkCall DEF Typed
<1>5. Typed'
  BY <1>1, <1>3, <1>4 DEF Typed
<1>6. Forks(a, k, b)
  BY <1>1, <1>3, <1>4 DEF Forks
<1> QED
  BY <1>5, <1>6

LEMMA ForkFails ==
  ASSUME Typed, NEW a, NEW b \in Pipe!Labels, NEW k \in Kids, Pipe!ForkFails(a, k, b)
  PROVE  Typed' /\ ForksNot(a, k, b)
<1>1. /\ pc["parent"] = a
      /\ pc' = [pc EXCEPT !["parent"] = b, ![k] = "unforked"]
      /\ line' = line /\ wp' = wp /\ results' = results
      /\ held' = held /\ content' = content /\ life' = life
  BY DEF Pipe!ForkFails, Pipe!At, Pipe!pipes
<1>2. /\ k # "parent" /\ k \in AllProcesses /\ "parent" \in AllProcesses
      /\ "begin" \in Pipe!Labels /\ "unforked" \in Pipe!Labels
  BY DEF Kids, AllProcesses, Pipe!Labels
<1>3. /\ pc' \in [AllProcesses -> Pipe!Labels]
      /\ pc'["parent"] = b /\ pc'[k] = "unforked"
      /\ \A q \in AllProcesses \ {"parent", k} : pc'[q] = pc[q]
  BY <1>1, <1>2 DEF Typed
<1>4. Typed'
  BY <1>1, <1>3 DEF Typed, KernelOK
<1>5. ForksNot(a, k, b)
  BY <1>1, <1>3 DEF ForksNot
<1> QED
  BY <1>4, <1>5

LEMMA WaitStep ==
  ASSUME Typed, NEW a, NEW b \in Pipe!Labels, Pipe!Step("parent", a, Pipe!WaitAny(Pipe!Kids), b)
  PROVE  Typed' /\ Waits(a, b)
<1>1. /\ Pipe!At("parent", a) /\ Pipe!WaitAny(Kids) /\ Pipe!Goto("parent", b)
      /\ line' = line /\ wp' = wp /\ results' = results
  BY DEF Pipe!Step, Pipe!Kids, Kids
<1>2. /\ pc' \in [AllProcesses -> Pipe!Labels]
      /\ pc["parent"] = a /\ pc'["parent"] = b
      /\ \A q \in AllProcesses \ {"parent"} : pc'[q] = pc[q]
  BY <1>1, Going DEF AllProcesses
<1>3. /\ KernelOK' /\ UNCHANGED <<held, content>>
      /\ \A q \in AllProcesses : life'[q] = life[q] \/ (life[q] = "zombie" /\ life'[q] = "reaped")
      /\ life'["parent"] = life["parent"]
      /\ \/ \E k \in Kids : life[k] = "zombie" /\ life'[k] = "reaped"
         \/ \A k \in Kids : life[k] \notin {"alive", "zombie"}
  BY <1>1, WaitCall DEF Typed
<1>4. Typed'
  BY <1>1, <1>2, <1>3 DEF Typed
<1>5. Waits(a, b)
  BY <1>1, <1>2, <1>3 DEF Waits, Kids, AllProcesses
<1> QED
  BY <1>4, <1>5

-----------------------------------------------------------------------------
LEMMA Members ==
  /\ "unforked" \in Pipe!Labels /\ "begin" \in Pipe!Labels /\ "read" \in Pipe!Labels
  /\ "write" \in Pipe!Labels /\ "print" \in Pipe!Labels /\ "close" \in Pipe!Labels
  /\ "flush" \in Pipe!Labels /\ "exit" \in Pipe!Labels /\ "done" \in Pipe!Labels
  /\ "killed" \in Pipe!Labels /\ "shot" \in Pipe!Labels /\ "pipe_1" \in Pipe!Labels
  /\ "fork_1" \in Pipe!Labels /\ "close_1" \in Pipe!Labels /\ "write_1" \in Pipe!Labels
  /\ "shut_1" \in Pipe!Labels /\ "wait_1" \in Pipe!Labels /\ "pipe_2" \in Pipe!Labels
  /\ "fork_2" \in Pipe!Labels /\ "close_2" \in Pipe!Labels /\ "write_2" \in Pipe!Labels
  /\ "read_2" \in Pipe!Labels /\ "shut_2" \in Pipe!Labels /\ "wait_2" \in Pipe!Labels
  /\ "pipe_3" \in Pipe!Labels /\ "fork_gen" \in Pipe!Labels /\ "fork_sq" \in Pipe!Labels
  /\ "close_3" \in Pipe!Labels /\ "read_3" \in Pipe!Labels /\ "print_3" \in Pipe!Labels
  /\ "shut_3" \in Pipe!Labels /\ "wait_3" \in Pipe!Labels /\ "wait_4" \in Pipe!Labels
  /\ "parent" \in AllProcesses /\ "reader" \in AllProcesses /\ "callee" \in AllProcesses
  /\ "generator" \in AllProcesses /\ "squarer" \in AllProcesses
  /\ "reader" \in Kids /\ "callee" \in Kids /\ "generator" \in Kids /\ "squarer" \in Kids
  /\ "pipefd" \in PipeNames /\ "pipe_p2c" \in PipeNames /\ "pipe_c2p" \in PipeNames
  /\ "pipe1" \in PipeNames /\ "pipe2" \in PipeNames
  /\ {} \in SUBSET PipeNames
  /\ {"pipefd"} \in SUBSET PipeNames /\ {"pipe_p2c"} \in SUBSET PipeNames
  /\ {"pipe_p2c", "pipe_c2p"} \in SUBSET PipeNames
  /\ {"pipe1", "pipe2"} \in SUBSET PipeNames
  /\ Pipe!Message \in Nat /\ Pipe!Call \in Nat /\ Pipe!Answer \in Nat
BY
   DEF Pipe!Labels, AllProcesses, Kids, PipeNames, Pipe!Message, Pipe!Call,
       Pipe!Answer

\* The steps that are more than calls of the kernel.
Prints ==
    /\ Goes("parent", "print_3", "read_3")
    /\ results' = Append(results, line["parent"])
    /\ UNCHANGED <<held, content, life, line, wp>>

Generates ==
    /\ Goes("generator", "write", "write")
    /\ line["generator"] < Lines /\ line'["generator"] = line["generator"] + 1
    /\ Puts("pipe1", line["generator"] + 1)
    /\ UNCHANGED <<held, life, wp, results>>

GeneratesAll ==
    /\ Closes("generator", "write", {<<"pipe1", "w">>}, "exit")
    /\ line["generator"] = Lines

Squares ==
    /\ Goes("squarer", "print", "read")
    /\ wp' = Append(wp, Sq(line["squarer"]))
    /\ UNCHANGED <<held, content, life, line, results>>

Flushes ==
    /\ Goes("squarer", "flush", "flush")
    /\ wp # <<>> /\ wp' = Tail(wp)
    /\ Puts("pipe2", Head(wp))
    /\ UNCHANGED <<held, life, line, results>>

FlushesAll ==
    /\ Closes("squarer", "flush", {<<"pipe2", "w">>}, "exit")
    /\ wp = <<>>

LEMMA PrintsStep ==
  ASSUME Typed, Pipe!PrintResult
  PROVE  Typed' /\ Prints
<1>1. /\ Pipe!At("parent", "print_3") /\ Pipe!Goto("parent", "read_3")
      /\ results' = Append(results, line["parent"])
      /\ held' = held /\ content' = content /\ life' = life /\ line' = line /\ wp' = wp
  BY DEF Pipe!PrintResult, Pipe!pipes
<1>2. /\ pc' \in [AllProcesses -> Pipe!Labels]
      /\ pc["parent"] = "print_3" /\ pc'["parent"] = "read_3"
      /\ \A q \in AllProcesses \ {"parent"} : pc'[q] = pc[q]
  BY <1>1, Going, Members
<1>3. results' \in Seq(Nat)
  BY <1>1, Members DEF Typed
<1>4. Typed'
  BY <1>1, <1>2, <1>3 DEF Typed, KernelOK
<1>5. Prints
  BY <1>1, <1>2 DEF Prints, Goes
<1> QED
  BY <1>4, <1>5

LEMMA GeneratesStep ==
  ASSUME Typed, Pipe!Generate
  PROVE  Typed' /\ Generates
<1> DEFINE n == line["generator"]
<1>1. /\ pc["generator"] = "write"
      /\ n < Lines
      /\ Pipe!Write("generator", "pipe1", n + 1)
      /\ line' = [line EXCEPT !["generator"] = n + 1]
      /\ pc' = pc /\ wp' = wp /\ results' = results
  BY DEF Pipe!Generate, Pipe!At
<1>2. n \in Nat /\ n + 1 \in Nat /\ n + 1 <= Lines
  BY <1>1, Members, PipesAssumption DEF Typed
<1>3. KernelOK' /\ UNCHANGED <<held, life>> /\ Puts("pipe1", n + 1)
  BY <1>1, <1>2, WriteCall, Members DEF Typed
<1>4. /\ line' \in [AllProcesses -> Nat]
      /\ line'["generator"] = n + 1
      /\ \A q \in AllProcesses \ {"generator"} : line'[q] = line[q]
  BY <1>1, <1>2, Members DEF Typed
<1>5. Typed'
  BY <1>1, <1>2, <1>3, <1>4 DEF Typed
<1>6. Generates
  BY <1>1, <1>3, <1>4 DEF Generates, Goes
<1> QED
  BY <1>5, <1>6

LEMMA GeneratesAllStep ==
  ASSUME Typed, Pipe!GeneratorEnds
  PROVE  Typed' /\ GeneratesAll
<1>1. /\ Pipe!Step("generator", "write", Pipe!Close("generator", {<<"pipe1", "w">>}), "exit")
      /\ line["generator"] = Lines
  BY DEF Pipe!GeneratorEnds, Pipe!W
<1> QED
  BY <1>1, CloseStep, Members DEF GeneratesAll

LEMMA SquaresStep ==
  ASSUME Typed, Pipe!Square
  PROVE  Typed' /\ Squares
<1>1. /\ Pipe!At("squarer", "print") /\ Pipe!Goto("squarer", "read")
      /\ wp' = Append(wp, line["squarer"] * line["squarer"])
      /\ held' = held /\ content' = content /\ life' = life /\ line' = line
      /\ results' = results
  BY DEF Pipe!Square, Pipe!pipes
<1>2. /\ pc' \in [AllProcesses -> Pipe!Labels]
      /\ pc["squarer"] = "print" /\ pc'["squarer"] = "read"
      /\ \A q \in AllProcesses \ {"squarer"} : pc'[q] = pc[q]
  BY <1>1, Going, Members
<1>3. line["squarer"] \in Nat /\ wp \in Seq(Nat)
  BY Members DEF Typed
<1>4. line["squarer"] * line["squarer"] \in Nat
  BY <1>3
<1>5. wp' \in Seq(Nat)
  BY <1>1, <1>3, <1>4
<1>6. Typed'
  BY <1>1, <1>2, <1>5 DEF Typed, KernelOK
<1>7. Squares
  BY <1>1, <1>2 DEF Squares, Goes, Sq
<1> QED
  BY <1>6, <1>7

LEMMA FlushesStep ==
  ASSUME Typed, Pipe!Flush
  PROVE  Typed' /\ Flushes
<1>1. /\ pc["squarer"] = "flush"
      /\ wp # <<>> /\ wp' = Tail(wp)
      /\ Pipe!Write("squarer", "pipe2", Head(wp))
      /\ pc' = pc /\ line' = line /\ results' = results
  BY DEF Pipe!Flush, Pipe!At
<1>2. Head(wp) \in Nat /\ wp' \in Seq(Nat)
  BY <1>1 DEF Typed
<1>3. KernelOK' /\ UNCHANGED <<held, life>> /\ Puts("pipe2", Head(wp))
  BY <1>1, <1>2, WriteCall, Members DEF Typed
<1>4. Typed'
  BY <1>1, <1>2, <1>3 DEF Typed
<1>5. Flushes
  BY <1>1, <1>3 DEF Flushes, Goes
<1> QED
  BY <1>4, <1>5

LEMMA FlushesAllStep ==
  ASSUME Typed, Pipe!FlushEnds
  PROVE  Typed' /\ FlushesAll
<1>1. /\ Pipe!Step("squarer", "flush", Pipe!Close("squarer", {<<"pipe2", "w">>}), "exit")
      /\ wp = <<>>
  BY DEF Pipe!FlushEnds, Pipe!W
<1> QED
  BY <1>1, CloseStep, Members DEF FlushesAll

SimpleMoves ==
    \/ Opens("parent", "pipe_1", {"pipefd"}, "fork_1")
    \/ Opens("parent", "pipe_1", {}, "exit")
    \/ Closes("parent", "close_1", {<<"pipefd", "r">>}, "write_1")
    \/ Writes("parent", "write_1", "pipefd", Pipe!Message, "shut_1")
    \/ Dies("parent", "write_1", "killed") /\ Deaf("pipefd")
    \/ Closes("parent", "shut_1", {<<"pipefd", "w">>}, "wait_1")

SimpleTable ==
    \/ SimpleMoves
    \/ Forks("fork_1", "reader", "close_1")
    \/ ForksNot("fork_1", "reader", "exit")
    \/ Waits("wait_1", "pipe_2")

LEMMA SimpleSteps ==
  ASSUME Typed, Pipe!Simple
  PROVE  Typed' /\ SimpleTable
<1>1. CASE Pipe!Step("parent", "pipe_1", Pipe!Open("parent", {"pipefd"}), "fork_1")
  <2>1. Typed' /\ Opens("parent", "pipe_1", {"pipefd"}, "fork_1")
    BY <1>1, OpenStep, Members
  <2> QED
    BY <2>1 DEF SimpleTable, SimpleMoves
<1>2. CASE Pipe!ForkStep("fork_1", "reader", "close_1")
  <2>1. Typed' /\ Forks("fork_1", "reader", "close_1")
    BY <1>2, ForkStep, Members
  <2> QED
    BY <2>1 DEF SimpleTable, SimpleMoves
<1>3. CASE Pipe!ForkFails("fork_1", "reader", "exit")
  <2>1. Typed' /\ ForksNot("fork_1", "reader", "exit")
    BY <1>3, ForkFails, Members
  <2> QED
    BY <2>1 DEF SimpleTable, SimpleMoves
<1>4. CASE Pipe!Step("parent", "close_1", Pipe!Close("parent", {Pipe!R("pipefd")}), "write_1")
  <2>1. Typed' /\ Closes("parent", "close_1", {<<"pipefd", "r">>}, "write_1")
    BY <1>4, CloseStep, Members DEF Pipe!R, Pipe!W
  <2> QED
    BY <2>1 DEF SimpleTable, SimpleMoves
<1>5. CASE Pipe!Step("parent", "write_1", Pipe!Write("parent", "pipefd", Pipe!Message), "shut_1")
  <2>1. Typed' /\ Writes("parent", "write_1", "pipefd", Pipe!Message, "shut_1")
    BY <1>5, WriteStep, Members
  <2> QED
    BY <2>1 DEF SimpleTable, SimpleMoves
<1>6. CASE Pipe!KilledStep("parent", "write_1", "pipefd")
  <2>1. Typed' /\ Dies("parent", "write_1", "killed") /\ Deaf("pipefd")
    BY <1>6, KilledStep, Members
  <2> QED
    BY <2>1 DEF SimpleTable, SimpleMoves
<1>7. CASE Pipe!Step("parent", "shut_1", Pipe!Close("parent", {Pipe!W("pipefd")}), "wait_1")
  <2>1. Typed' /\ Closes("parent", "shut_1", {<<"pipefd", "w">>}, "wait_1")
    BY <1>7, CloseStep, Members DEF Pipe!R, Pipe!W
  <2> QED
    BY <2>1 DEF SimpleTable, SimpleMoves
<1>8. CASE Pipe!Step("parent", "wait_1", Pipe!WaitAny(Pipe!Kids), "pipe_2")
  <2>1. Typed' /\ Waits("wait_1", "pipe_2")
    BY <1>8, WaitStep, Members
  <2> QED
    BY <2>1 DEF SimpleTable, SimpleMoves
<1>9. CASE Pipe!PipeFails("pipe_1", {})
  <2>1. Typed' /\ Opens("parent", "pipe_1", {}, "exit")
    BY <1>9, OpenStep, Members DEF Pipe!PipeFails
  <2> QED
    BY <2>1 DEF SimpleTable, SimpleMoves
<1> QED
  BY <1>1, <1>2, <1>3, <1>4, <1>5, <1>6, <1>7, <1>8, <1>9 DEF Pipe!Simple

ReaderTable ==
    \/ Closes("reader", "begin", {<<"pipefd", "w">>}, "read")
    \/ Reads("reader", "read", "pipefd", "close")
    \/ Finds("reader", "read", "pipefd", "close")
    \/ Closes("reader", "close", {<<"pipefd", "r">>}, "exit")
    \/ Dies("reader", "exit", "done")

LEMMA ReaderSteps ==
  ASSUME Typed, Pipe!Reader
  PROVE  Typed' /\ ReaderTable
<1>1. CASE Pipe!Step("reader", "begin", Pipe!Close("reader", {Pipe!W("pipefd")}), "read")
  <2>1. Typed' /\ Closes("reader", "begin", {<<"pipefd", "w">>}, "read")
    BY <1>1, CloseStep, Members DEF Pipe!R, Pipe!W
  <2> QED
    BY <2>1 DEF ReaderTable
<1>2. CASE Pipe!ReadStep("reader", "read", "pipefd", "close")
  <2>1. Typed' /\ Reads("reader", "read", "pipefd", "close")
    BY <1>2, ReadStep, Members
  <2> QED
    BY <2>1 DEF ReaderTable
<1>3. CASE Pipe!EofStep("reader", "read", "pipefd", "close")
  <2>1. Typed' /\ Finds("reader", "read", "pipefd", "close")
    BY <1>3, EofStep, Members
  <2> QED
    BY <2>1 DEF ReaderTable
<1>4. CASE Pipe!Step("reader", "close", Pipe!Close("reader", {Pipe!R("pipefd")}), "exit")
  <2>1. Typed' /\ Closes("reader", "close", {<<"pipefd", "r">>}, "exit")
    BY <1>4, CloseStep, Members DEF Pipe!R, Pipe!W
  <2> QED
    BY <2>1 DEF ReaderTable
<1>5. CASE Pipe!Step("reader", "exit", Pipe!Die("reader"), "done")
  <2>1. Typed' /\ Dies("reader", "exit", "done")
    BY <1>5, DieStep, Members
  <2> QED
    BY <2>1 DEF ReaderTable
<1> QED
  BY <1>1, <1>2, <1>3, <1>4, <1>5 DEF Pipe!Reader

BidirectionalMoves ==
    \/ Opens("parent", "pipe_2", {"pipe_p2c", "pipe_c2p"}, "fork_2")
    \/ Opens("parent", "pipe_2", {}, "exit")
    \/ Opens("parent", "pipe_2", {"pipe_p2c"}, "exit")
    \/ Closes("parent", "close_2", {<<"pipe_p2c", "r">>, <<"pipe_c2p", "w">>}, "write_2")
    \/ Writes("parent", "write_2", "pipe_p2c", Pipe!Call, "read_2")
    \/ Dies("parent", "write_2", "killed") /\ Deaf("pipe_p2c")
    \/ Reads("parent", "read_2", "pipe_c2p", "shut_2")
    \/ Finds("parent", "read_2", "pipe_c2p", "shut_2")
    \/ Closes("parent", "shut_2", {<<"pipe_p2c", "w">>, <<"pipe_c2p", "r">>}, "wait_2")

BidirectionalTable ==
    \/ BidirectionalMoves
    \/ Forks("fork_2", "callee", "close_2")
    \/ ForksNot("fork_2", "callee", "close_2")
    \/ Waits("wait_2", "pipe_3")

LEMMA BidirectionalSteps ==
  ASSUME Typed, Pipe!Bidirectional
  PROVE  Typed' /\ BidirectionalTable
<1>1. CASE Pipe!Step("parent", "pipe_2", Pipe!Open("parent", {"pipe_p2c", "pipe_c2p"}), "fork_2")
  <2>1. Typed' /\ Opens("parent", "pipe_2", {"pipe_p2c", "pipe_c2p"}, "fork_2")
    BY <1>1, OpenStep, Members
  <2> QED
    BY <2>1 DEF BidirectionalTable, BidirectionalMoves
<1>2. CASE Pipe!ForkStep("fork_2", "callee", "close_2")
  <2>1. Typed' /\ Forks("fork_2", "callee", "close_2")
    BY <1>2, ForkStep, Members
  <2> QED
    BY <2>1 DEF BidirectionalTable, BidirectionalMoves
<1>3. CASE Pipe!ForkFails("fork_2", "callee", "close_2")
  <2>1. Typed' /\ ForksNot("fork_2", "callee", "close_2")
    BY <1>3, ForkFails, Members
  <2> QED
    BY <2>1 DEF BidirectionalTable, BidirectionalMoves
<1>4. CASE Pipe!Step("parent", "close_2", Pipe!Close("parent", {Pipe!R("pipe_p2c"), Pipe!W("pipe_c2p")}), "write_2")
  <2>1. Typed' /\ Closes("parent", "close_2", {<<"pipe_p2c", "r">>, <<"pipe_c2p", "w">>}, "write_2")
    BY <1>4, CloseStep, Members DEF Pipe!R, Pipe!W
  <2> QED
    BY <2>1 DEF BidirectionalTable, BidirectionalMoves
<1>5. CASE Pipe!Step("parent", "write_2", Pipe!Write("parent", "pipe_p2c", Pipe!Call), "read_2")
  <2>1. Typed' /\ Writes("parent", "write_2", "pipe_p2c", Pipe!Call, "read_2")
    BY <1>5, WriteStep, Members
  <2> QED
    BY <2>1 DEF BidirectionalTable, BidirectionalMoves
<1>6. CASE Pipe!KilledStep("parent", "write_2", "pipe_p2c")
  <2>1. Typed' /\ Dies("parent", "write_2", "killed") /\ Deaf("pipe_p2c")
    BY <1>6, KilledStep, Members
  <2> QED
    BY <2>1 DEF BidirectionalTable, BidirectionalMoves
<1>7. CASE Pipe!ReadStep("parent", "read_2", "pipe_c2p", "shut_2")
  <2>1. Typed' /\ Reads("parent", "read_2", "pipe_c2p", "shut_2")
    BY <1>7, ReadStep, Members
  <2> QED
    BY <2>1 DEF BidirectionalTable, BidirectionalMoves
<1>8. CASE Pipe!EofStep("parent", "read_2", "pipe_c2p", "shut_2")
  <2>1. Typed' /\ Finds("parent", "read_2", "pipe_c2p", "shut_2")
    BY <1>8, EofStep, Members
  <2> QED
    BY <2>1 DEF BidirectionalTable, BidirectionalMoves
<1>9. CASE Pipe!Step("parent", "shut_2", Pipe!Close("parent", {Pipe!W("pipe_p2c"), Pipe!R("pipe_c2p")}), "wait_2")
  <2>1. Typed' /\ Closes("parent", "shut_2", {<<"pipe_p2c", "w">>, <<"pipe_c2p", "r">>}, "wait_2")
    BY <1>9, CloseStep, Members DEF Pipe!R, Pipe!W
  <2> QED
    BY <2>1 DEF BidirectionalTable, BidirectionalMoves
<1>10. CASE Pipe!Step("parent", "wait_2", Pipe!WaitAny(Pipe!Kids), "pipe_3")
  <2>1. Typed' /\ Waits("wait_2", "pipe_3")
    BY <1>10, WaitStep, Members
  <2> QED
    BY <2>1 DEF BidirectionalTable, BidirectionalMoves
<1>11. CASE Pipe!PipeFails("pipe_2", {})
  <2>1. Typed' /\ Opens("parent", "pipe_2", {}, "exit")
    BY <1>11, OpenStep, Members DEF Pipe!PipeFails
  <2> QED
    BY <2>1 DEF BidirectionalTable, BidirectionalMoves
<1>12. CASE Pipe!PipeFails("pipe_2", {"pipe_p2c"})
  <2>1. Typed' /\ Opens("parent", "pipe_2", {"pipe_p2c"}, "exit")
    BY <1>12, OpenStep, Members DEF Pipe!PipeFails
  <2> QED
    BY <2>1 DEF BidirectionalTable, BidirectionalMoves
<1> QED
  BY <1>1, <1>2, <1>3, <1>4, <1>5, <1>6, <1>7, <1>8, <1>9, <1>10, <1>11, <1>12
     DEF Pipe!Bidirectional

CalleeTable ==
    \/ Closes("callee", "begin", {<<"pipe_p2c", "w">>, <<"pipe_c2p", "r">>}, "read")
    \/ Reads("callee", "read", "pipe_p2c", "write")
    \/ Finds("callee", "read", "pipe_p2c", "write")
    \/ Writes("callee", "write", "pipe_c2p", Pipe!Answer, "close")
    \/ Dies("callee", "write", "killed") /\ Deaf("pipe_c2p")
    \/ Closes("callee", "close", {<<"pipe_p2c", "r">>, <<"pipe_c2p", "w">>}, "exit")
    \/ Dies("callee", "exit", "done")

LEMMA CalleeSteps ==
  ASSUME Typed, Pipe!Callee
  PROVE  Typed' /\ CalleeTable
<1>1. CASE Pipe!Step("callee", "begin", Pipe!Close("callee", {Pipe!W("pipe_p2c"), Pipe!R("pipe_c2p")}), "read")
  <2>1. Typed' /\ Closes("callee", "begin", {<<"pipe_p2c", "w">>, <<"pipe_c2p", "r">>}, "read")
    BY <1>1, CloseStep, Members DEF Pipe!R, Pipe!W
  <2> QED
    BY <2>1 DEF CalleeTable
<1>2. CASE Pipe!ReadStep("callee", "read", "pipe_p2c", "write")
  <2>1. Typed' /\ Reads("callee", "read", "pipe_p2c", "write")
    BY <1>2, ReadStep, Members
  <2> QED
    BY <2>1 DEF CalleeTable
<1>3. CASE Pipe!EofStep("callee", "read", "pipe_p2c", "write")
  <2>1. Typed' /\ Finds("callee", "read", "pipe_p2c", "write")
    BY <1>3, EofStep, Members
  <2> QED
    BY <2>1 DEF CalleeTable
<1>4. CASE Pipe!Step("callee", "write", Pipe!Write("callee", "pipe_c2p", Pipe!Answer), "close")
  <2>1. Typed' /\ Writes("callee", "write", "pipe_c2p", Pipe!Answer, "close")
    BY <1>4, WriteStep, Members
  <2> QED
    BY <2>1 DEF CalleeTable
<1>5. CASE Pipe!KilledStep("callee", "write", "pipe_c2p")
  <2>1. Typed' /\ Dies("callee", "write", "killed") /\ Deaf("pipe_c2p")
    BY <1>5, KilledStep, Members
  <2> QED
    BY <2>1 DEF CalleeTable
<1>6. CASE Pipe!Step("callee", "close", Pipe!Close("callee", {Pipe!R("pipe_p2c"), Pipe!W("pipe_c2p")}), "exit")
  <2>1. Typed' /\ Closes("callee", "close", {<<"pipe_p2c", "r">>, <<"pipe_c2p", "w">>}, "exit")
    BY <1>6, CloseStep, Members DEF Pipe!R, Pipe!W
  <2> QED
    BY <2>1 DEF CalleeTable
<1>7. CASE Pipe!Step("callee", "exit", Pipe!Die("callee"), "done")
  <2>1. Typed' /\ Dies("callee", "exit", "done")
    BY <1>7, DieStep, Members
  <2> QED
    BY <2>1 DEF CalleeTable
<1> QED
  BY <1>1, <1>2, <1>3, <1>4, <1>5, <1>6, <1>7 DEF Pipe!Callee, Pipe!CalleeBegins

PipelineMoves ==
    \/ Opens("parent", "pipe_3", {"pipe1", "pipe2"}, "fork_gen")
    \/ Closes("parent", "close_3", {<<"pipe1", "r">>, <<"pipe1", "w">>, <<"pipe2", "w">>}, "read_3")
    \/ Reads("parent", "read_3", "pipe2", "print_3")
    \/ Prints
    \/ Finds("parent", "read_3", "pipe2", "shut_3")
    \/ Closes("parent", "shut_3", {<<"pipe2", "r">>}, "wait_3")
    \/ Dies("parent", "exit", "done")

PipelineTable ==
    \/ PipelineMoves
    \/ Forks("fork_gen", "generator", "fork_sq")
    \/ ForksNot("fork_gen", "generator", "fork_sq")
    \/ Forks("fork_sq", "squarer", "close_3")
    \/ ForksNot("fork_sq", "squarer", "close_3")
    \/ Waits("wait_3", "wait_4")
    \/ Waits("wait_4", "exit")

LEMMA PipelineSteps ==
  ASSUME Typed, Pipe!Pipeline
  PROVE  Typed' /\ PipelineTable
<1>1. CASE Pipe!Step("parent", "pipe_3", Pipe!Open("parent", {"pipe1", "pipe2"}), "fork_gen")
  <2>1. Typed' /\ Opens("parent", "pipe_3", {"pipe1", "pipe2"}, "fork_gen")
    BY <1>1, OpenStep, Members
  <2> QED
    BY <2>1 DEF PipelineTable, PipelineMoves
<1>2. CASE Pipe!ForkStep("fork_gen", "generator", "fork_sq")
  <2>1. Typed' /\ Forks("fork_gen", "generator", "fork_sq")
    BY <1>2, ForkStep, Members
  <2> QED
    BY <2>1 DEF PipelineTable, PipelineMoves
<1>3. CASE Pipe!ForkFails("fork_gen", "generator", "fork_sq")
  <2>1. Typed' /\ ForksNot("fork_gen", "generator", "fork_sq")
    BY <1>3, ForkFails, Members
  <2> QED
    BY <2>1 DEF PipelineTable, PipelineMoves
<1>4. CASE Pipe!ForkStep("fork_sq", "squarer", "close_3")
  <2>1. Typed' /\ Forks("fork_sq", "squarer", "close_3")
    BY <1>4, ForkStep, Members
  <2> QED
    BY <2>1 DEF PipelineTable, PipelineMoves
<1>5. CASE Pipe!ForkFails("fork_sq", "squarer", "close_3")
  <2>1. Typed' /\ ForksNot("fork_sq", "squarer", "close_3")
    BY <1>5, ForkFails, Members
  <2> QED
    BY <2>1 DEF PipelineTable, PipelineMoves
<1>6. CASE Pipe!Step("parent", "close_3", Pipe!Close("parent", {Pipe!R("pipe1"), Pipe!W("pipe1"), Pipe!W("pipe2")}), "read_3")
  <2>1. Typed' /\ Closes("parent", "close_3", {<<"pipe1", "r">>, <<"pipe1", "w">>, <<"pipe2", "w">>}, "read_3")
    BY <1>6, CloseStep, Members DEF Pipe!R, Pipe!W
  <2> QED
    BY <2>1 DEF PipelineTable, PipelineMoves
<1>7. CASE Pipe!ReadStep("parent", "read_3", "pipe2", "print_3")
  <2>1. Typed' /\ Reads("parent", "read_3", "pipe2", "print_3")
    BY <1>7, ReadStep, Members
  <2> QED
    BY <2>1 DEF PipelineTable, PipelineMoves
<1>8. CASE Pipe!PrintResult
  <2>1. Typed' /\ Prints
    BY <1>8, PrintsStep, Members
  <2> QED
    BY <2>1 DEF PipelineTable, PipelineMoves
<1>9. CASE Pipe!EofStep("parent", "read_3", "pipe2", "shut_3")
  <2>1. Typed' /\ Finds("parent", "read_3", "pipe2", "shut_3")
    BY <1>9, EofStep, Members
  <2> QED
    BY <2>1 DEF PipelineTable, PipelineMoves
<1>10. CASE Pipe!Step("parent", "shut_3", Pipe!Close("parent", {Pipe!R("pipe2")}), "wait_3")
  <2>1. Typed' /\ Closes("parent", "shut_3", {<<"pipe2", "r">>}, "wait_3")
    BY <1>10, CloseStep, Members DEF Pipe!R, Pipe!W
  <2> QED
    BY <2>1 DEF PipelineTable, PipelineMoves
<1>11. CASE Pipe!Step("parent", "wait_3", Pipe!WaitAny(Pipe!Kids), "wait_4")
  <2>1. Typed' /\ Waits("wait_3", "wait_4")
    BY <1>11, WaitStep, Members
  <2> QED
    BY <2>1 DEF PipelineTable, PipelineMoves
<1>12. CASE Pipe!Step("parent", "wait_4", Pipe!WaitAny(Pipe!Kids), "exit")
  <2>1. Typed' /\ Waits("wait_4", "exit")
    BY <1>12, WaitStep, Members
  <2> QED
    BY <2>1 DEF PipelineTable, PipelineMoves
<1>13. CASE Pipe!Step("parent", "exit", Pipe!Die("parent"), "done")
  <2>1. Typed' /\ Dies("parent", "exit", "done")
    BY <1>13, DieStep, Members
  <2> QED
    BY <2>1 DEF PipelineTable, PipelineMoves
<1> QED
  BY <1>1, <1>2, <1>3, <1>4, <1>5, <1>6, <1>7, <1>8, <1>9, <1>10, <1>11, <1>12,
     <1>13 DEF Pipe!Pipeline, Pipe!WaitSecond

GeneratorTable ==
    \/ Closes("generator", "begin", {<<"pipe1", "r">>}, "write")
    \/ Generates
    \/ GeneratesAll
    \/ Dies("generator", "write", "killed") /\ Deaf("pipe1")
    \/ Dies("generator", "exit", "done")

LEMMA GeneratorSteps ==
  ASSUME Typed, Pipe!Generator
  PROVE  Typed' /\ GeneratorTable
<1>1. CASE Pipe!Step("generator", "begin", Pipe!Close("generator", {Pipe!R("pipe1")}), "write")
  <2>1. Typed' /\ Closes("generator", "begin", {<<"pipe1", "r">>}, "write")
    BY <1>1, CloseStep, Members DEF Pipe!R, Pipe!W
  <2> QED
    BY <2>1 DEF GeneratorTable
<1>2. CASE Pipe!Generate
  <2>1. Typed' /\ Generates
    BY <1>2, GeneratesStep, Members
  <2> QED
    BY <2>1 DEF GeneratorTable
<1>3. CASE Pipe!GeneratorEnds
  <2>1. Typed' /\ GeneratesAll
    BY <1>3, GeneratesAllStep, Members
  <2> QED
    BY <2>1 DEF GeneratorTable
<1>4. CASE Pipe!KilledStep("generator", "write", "pipe1")
  <2>1. Typed' /\ Dies("generator", "write", "killed") /\ Deaf("pipe1")
    BY <1>4, KilledStep, Members
  <2> QED
    BY <2>1 DEF GeneratorTable
<1>5. CASE Pipe!Step("generator", "exit", Pipe!Die("generator"), "done")
  <2>1. Typed' /\ Dies("generator", "exit", "done")
    BY <1>5, DieStep, Members
  <2> QED
    BY <2>1 DEF GeneratorTable
<1> QED
  BY <1>1, <1>2, <1>3, <1>4, <1>5
     DEF Pipe!Generator, Pipe!GeneratorBegins, Pipe!GeneratorKilled

SquarerTable ==
    \/ Closes("squarer", "begin", {<<"pipe1", "w">>, <<"pipe2", "r">>}, "read")
    \/ Reads("squarer", "read", "pipe1", "print")
    \/ Squares
    \/ Finds("squarer", "read", "pipe1", "close")
    \/ Closes("squarer", "close", {<<"pipe1", "r">>}, "flush")
    \/ Flushes
    \/ FlushesAll
    \/ Dies("squarer", "flush", "killed") /\ Deaf("pipe2")
    \/ Dies("squarer", "exit", "done")

LEMMA SquarerSteps ==
  ASSUME Typed, Pipe!Squarer
  PROVE  Typed' /\ SquarerTable
<1>1. CASE Pipe!Step("squarer", "begin", Pipe!Close("squarer", {Pipe!W("pipe1"), Pipe!R("pipe2")}), "read")
  <2>1. Typed' /\ Closes("squarer", "begin", {<<"pipe1", "w">>, <<"pipe2", "r">>}, "read")
    BY <1>1, CloseStep, Members DEF Pipe!R, Pipe!W
  <2> QED
    BY <2>1 DEF SquarerTable
<1>2. CASE Pipe!ReadStep("squarer", "read", "pipe1", "print")
  <2>1. Typed' /\ Reads("squarer", "read", "pipe1", "print")
    BY <1>2, ReadStep, Members
  <2> QED
    BY <2>1 DEF SquarerTable
<1>3. CASE Pipe!Square
  <2>1. Typed' /\ Squares
    BY <1>3, SquaresStep, Members
  <2> QED
    BY <2>1 DEF SquarerTable
<1>4. CASE Pipe!EofStep("squarer", "read", "pipe1", "close")
  <2>1. Typed' /\ Finds("squarer", "read", "pipe1", "close")
    BY <1>4, EofStep, Members
  <2> QED
    BY <2>1 DEF SquarerTable
<1>5. CASE Pipe!Step("squarer", "close", Pipe!Close("squarer", {Pipe!R("pipe1")}), "flush")
  <2>1. Typed' /\ Closes("squarer", "close", {<<"pipe1", "r">>}, "flush")
    BY <1>5, CloseStep, Members DEF Pipe!R, Pipe!W
  <2> QED
    BY <2>1 DEF SquarerTable
<1>6. CASE Pipe!Flush
  <2>1. Typed' /\ Flushes
    BY <1>6, FlushesStep, Members
  <2> QED
    BY <2>1 DEF SquarerTable
<1>7. CASE Pipe!FlushEnds
  <2>1. Typed' /\ FlushesAll
    BY <1>7, FlushesAllStep, Members
  <2> QED
    BY <2>1 DEF SquarerTable
<1>8. CASE Pipe!KilledStep("squarer", "flush", "pipe2")
  <2>1. Typed' /\ Dies("squarer", "flush", "killed") /\ Deaf("pipe2")
    BY <1>8, KilledStep, Members
  <2> QED
    BY <2>1 DEF SquarerTable
<1>9. CASE Pipe!Step("squarer", "exit", Pipe!Die("squarer"), "done")
  <2>1. Typed' /\ Dies("squarer", "exit", "done")
    BY <1>9, DieStep, Members
  <2> QED
    BY <2>1 DEF SquarerTable
<1> QED
  BY <1>1, <1>2, <1>3, <1>4, <1>5, <1>6, <1>7, <1>8, <1>9
     DEF Pipe!Squarer, Pipe!SquarerBegins

-----------------------------------------------------------------------------
(* Where the processes are, and whom the parent waits for.                 *)

\* A process of its own goes on, or ends.
Advances(p) ==
    \E a, b :
        /\ Goes(p, a, b)
        /\ a \notin {"none", "unforked", "done", "killed", "shot"}
        /\ \/ life'[p] = life[p] /\ b \notin {"none", "unforked", "done", "killed", "shot"}
           \/ life'[p] = "zombie" /\ b \in {"done", "killed", "shot"}

LEMMA KidsAdvance ==
  /\ ReaderTable => Advances("reader")
  /\ CalleeTable => Advances("callee")
  /\ GeneratorTable => Advances("generator")
  /\ SquarerTable => Advances("squarer")
<1>1. ReaderTable => Advances("reader")
  BY DEF ReaderTable, Advances, Closes, Reads, Finds, Dies
<1>2. CalleeTable => Advances("callee")
  BY DEF CalleeTable, Advances, Closes, Reads, Finds, Writes, Dies
<1>3. GeneratorTable => Advances("generator")
  BY DEF GeneratorTable, Advances, Closes, Generates, GeneratesAll, Dies
<1>4. SquarerTable => Advances("squarer")
  BY
     DEF SquarerTable, Advances, Closes, Reads, Finds, Squares, Flushes,
         FlushesAll, Dies
<1> QED
  BY <1>1, <1>2, <1>3, <1>4

LEMMA AdvanceLife ==
  ASSUME PipeLife, NEW p \in AllProcesses, Advances(p)
  PROVE  PipeLife' /\ life[p] \notin {"unborn", "zombie", "reaped"} /\ life'[p] # "reaped"
<1> PICK a, b : /\ Goes(p, a, b)
                /\ a \notin {"none", "unforked", "done", "killed", "shot"}
                /\ \/ life'[p] = life[p] /\ b \notin {"none", "unforked", "done", "killed", "shot"}
                   \/ life'[p] = "zombie" /\ b \in {"done", "killed", "shot"}
  BY DEF Advances
<1>1. life[p] \notin {"unborn", "zombie", "reaped"}
  BY DEF Goes, PipeLife, Missing, Over
<1>2. \A q \in AllProcesses \ {p} : pc'[q] = pc[q] /\ life'[q] = life[q]
  BY DEF Goes
<1>3. /\ (life[p] = "unborn")' <=> Missing(p)'
      /\ (life[p] \in {"zombie", "reaped"})' <=> Over(p)'
  BY <1>1 DEF Goes, Missing, Over
<1>4. PipeLife'
  BY <1>2, <1>3 DEF PipeLife, Missing, Over
<1> QED
  BY <1>1, <1>4

LEMMA KidOrder ==
  ASSUME PipeLife, PipeOrder, NEW k \in Kids, Advances(k)
  PROVE  PipeOrder'
<1> PICK a, b : /\ Goes(k, a, b)
                /\ a \notin {"none", "unforked", "done", "killed", "shot"}
                /\ \/ life'[k] = life[k] /\ b \notin {"none", "unforked", "done", "killed", "shot"}
                   \/ life'[k] = "zombie" /\ b \in {"done", "killed", "shot"}
  BY DEF Advances
<1>1. k \in AllProcesses /\ k # "parent"
  BY DEF Kids, AllProcesses
<1>2. ~Gone(k)
  BY <1>1, AdvanceLife DEF Gone
<1>3. pc[k] # "none" /\ ~Missing(k) /\ pc'[k] # "none" /\ ~Missing(k)'
  BY DEF Goes, Missing
<1>4. \A q \in AllProcesses \ {k} :
         /\ pc'[q] = pc[q]
         /\ Missing(q)' <=> Missing(q)
         /\ Gone(q)' <=> Gone(q)
  BY DEF Goes, Missing, Gone
<1>5. pc'["parent"] = pc["parent"]
  BY <1>1, <1>4, Members
<1>6. \A q \in Kids :
         /\ pc[q] = "none" => pc'[q] = "none"
         /\ pc[q] # "none" => pc'[q] # "none"
         /\ ~Missing(q) => ~Missing(q)'
         /\ Gone(q) => Gone(q)'
  BY <1>2, <1>3, <1>4 DEF Kids, AllProcesses
<1> QED
  BY <1>5, <1>6, Members DEF PipeOrder

\* When the parent alone moves its children are as they were.
LEMMA KidsStay ==
  ASSUME NEW a, NEW b, Goes("parent", a, b)
  PROVE  \A k \in Kids :
          /\ pc'[k] = pc[k]
          /\ (Missing(k)' <=> Missing(k))
          /\ (Gone(k)' <=> Gone(k))
BY DEF Goes, Kids, AllProcesses, Missing, Gone

LEMMA ForkLife ==
  ASSUME PipeLife, NEW k \in Kids, NEW a, NEW b, Forks(a, k, b),
         a \notin {"none", "unforked", "done", "killed", "shot"},
         b \notin {"none", "unforked", "done", "killed", "shot"}
  PROVE  /\ PipeLife'
         /\ \A q \in Kids \ {k} :
                 /\ pc'[q] = pc[q]
                 /\ (Missing(q)' <=> Missing(q))
                 /\ (Gone(q)' <=> Gone(q))
<1>1. k \in AllProcesses /\ k # "parent"
  BY DEF Kids, AllProcesses
<1>2. /\ \A q \in AllProcesses \ {"parent", k} : pc'[q] = pc[q] /\ life'[q] = life[q]
      /\ life'["parent"] = life["parent"]
      /\ life'[k] = "alive" /\ pc'[k] = "begin"
      /\ pc["parent"] = a /\ pc'["parent"] = b
  BY <1>1, Members DEF Forks
<1>3. PipeLife'
  BY <1>2, <1>1, Members DEF PipeLife, Missing, Over
<1>4. \A q \in Kids \ {k} : q \in AllProcesses \ {"parent", k}
  BY DEF Kids, AllProcesses
<1>5. \A q \in Kids \ {k} :
        /\ pc'[q] = pc[q]
        /\ (Missing(q)' <=> Missing(q))
        /\ (Gone(q)' <=> Gone(q))
  BY <1>2, <1>4 DEF Missing, Gone
<1> QED
  BY <1>3, <1>5

LEMMA NoForkLife ==
  ASSUME PipeLife, NEW k \in Kids, NEW a, NEW b, ForksNot(a, k, b), pc[k] = "none",
         a \notin {"none", "unforked", "done", "killed", "shot"},
         b \notin {"none", "unforked", "done", "killed", "shot"}
  PROVE  /\ PipeLife'
         /\ Gone(k)'
         /\ \A q \in Kids \ {k} :
                 /\ pc'[q] = pc[q]
                 /\ (Missing(q)' <=> Missing(q))
                 /\ (Gone(q)' <=> Gone(q))
<1>1. k \in AllProcesses /\ k # "parent"
  BY DEF Kids, AllProcesses
<1>2. /\ \A q \in AllProcesses \ {"parent", k} : pc'[q] = pc[q]
      /\ life' = life
      /\ pc'[k] = "unforked"
      /\ pc["parent"] = a /\ pc'["parent"] = b
  BY <1>1, Members DEF ForksNot
<1>3. PipeLife'
  BY <1>2, <1>1, Members DEF PipeLife, Missing, Over
<1>4. \A q \in Kids \ {k} : q \in AllProcesses \ {"parent", k}
  BY DEF Kids, AllProcesses
<1>5. \A q \in Kids \ {k} :
        /\ pc'[q] = pc[q]
        /\ (Missing(q)' <=> Missing(q))
        /\ (Gone(q)' <=> Gone(q))
  BY <1>2, <1>4 DEF Missing, Gone
<1>6. Gone(k)'
  BY <1>1, <1>2 DEF Gone, PipeLife, Missing
<1> QED
  BY <1>3, <1>5, <1>6

\* After wait() one child more is gone, or none is left that is not.
LEMMA WaitLife ==
  ASSUME Typed, PipeLife, NEW a, NEW b, Waits(a, b),
         a \notin {"none", "unforked", "done", "killed", "shot"},
         b \notin {"none", "unforked", "done", "killed", "shot"}
  PROVE  /\ PipeLife'
         /\ \A q \in Kids : pc'[q] = pc[q] /\ (Gone(q) => Gone(q)')
         /\ \/ \E q \in Kids : ~Gone(q) /\ Gone(q)'
            \/ \A q \in Kids : Gone(q)'
<1>1. \A q \in Kids : q \in AllProcesses \ {"parent"}
  BY DEF Kids, AllProcesses
<1>1a. \A q \in AllProcesses \ {"parent"} : q \in Kids
  BY DEF Kids, AllProcesses
<1>2. /\ \A q \in Kids : pc'[q] = pc[q]
      /\ \A q \in Kids : life'[q] = life[q] \/ (life[q] = "zombie" /\ life'[q] = "reaped")
      /\ life'["parent"] = life["parent"]
      /\ pc["parent"] = a /\ pc'["parent"] = b
  BY <1>1 DEF Waits
<1>3. \A q \in Kids : (life[q] = "unborn" <=> Missing(q)) /\ (life[q] \in {"zombie", "reaped"} <=> Over(q))
  BY <1>1 DEF PipeLife
<1>4. \A q \in Kids :
         /\ ((life[q] = "unborn")' <=> Missing(q)')
         /\ ((life[q] \in {"zombie", "reaped"})' <=> Over(q)')
  BY <1>2, <1>3 DEF Missing, Over
<1>5. /\ (life["parent"] = "unborn")' <=> Missing("parent")'
      /\ (life["parent"] \in {"zombie", "reaped"})' <=> Over("parent")'
  BY <1>2, Members DEF PipeLife, Missing, Over
<1>6. PipeLife'
  BY <1>4, <1>5, <1>1a DEF PipeLife
<1>7. \A q \in Kids : Gone(q) => Gone(q)'
  BY <1>2 DEF Gone
<1>8. CASE \E k \in Kids : life[k] = "zombie" /\ life'[k] = "reaped"
  BY <1>2, <1>6, <1>7, <1>8 DEF Gone
<1>9. CASE \A k \in Kids : life[k] \notin {"alive", "zombie"}
  <2>1. \A k \in Kids : life[k] \in {"unborn", "reaped"}
    BY <1>9, <1>1 DEF Typed, KernelOK, Lifes
  <2> QED
    BY <2>1, <1>2, <1>6, <1>7 DEF Gone
<1> QED
  BY <1>8, <1>9 DEF Waits

LEMMA KidsPlaces ==
  ASSUME PipePlaces
  PROVE  /\ ReaderTable => PipePlaces'
         /\ CalleeTable => PipePlaces'
         /\ GeneratorTable => PipePlaces'
         /\ SquarerTable => PipePlaces'
<1>1. ReaderTable => PipePlaces'
  BY Members DEF PipePlaces, ReaderTable, Goes, Closes, Reads, Finds, Dies
<1>2. CalleeTable => PipePlaces'
  BY Members
     DEF PipePlaces, CalleeTable, Goes, Closes, Reads, Finds, Writes, Dies
<1>3. GeneratorTable => PipePlaces'
  BY Members
     DEF PipePlaces, GeneratorTable, Goes, Closes, Generates, GeneratesAll, Dies
<1>4. SquarerTable => PipePlaces'
  BY Members
     DEF PipePlaces, SquarerTable, Goes, Closes, Reads, Finds, Squares, Flushes,
     FlushesAll, Dies
<1> QED
  BY <1>1, <1>2, <1>3, <1>4

\* The ends.
LEMMA EndsOpened ==
  /\ {} \cup ({"pipefd"} \X {"r", "w"}) = Both("pipefd")
  /\ {} \cup ({"pipe_p2c", "pipe_c2p"} \X {"r", "w"}) = Both("pipe_p2c") \cup Both("pipe_c2p")
  /\ {} \cup ({"pipe1", "pipe2"} \X {"r", "w"}) = Both("pipe1") \cup Both("pipe2")
BY DEF Both

LEMMA EndsClosed ==
  /\ Both("pipefd") \ {<<"pipefd", "r">>} = {<<"pipefd", "w">>}
  /\ Both("pipefd") \ {<<"pipefd", "w">>} = {<<"pipefd", "r">>}
  /\ (Both("pipe_p2c") \cup Both("pipe_c2p")) \ {<<"pipe_p2c", "r">>, <<"pipe_c2p", "w">>}
        = {<<"pipe_p2c", "w">>, <<"pipe_c2p", "r">>}
  /\ (Both("pipe_p2c") \cup Both("pipe_c2p")) \ {<<"pipe_p2c", "w">>, <<"pipe_c2p", "r">>}
        = {<<"pipe_p2c", "r">>, <<"pipe_c2p", "w">>}
  /\ (Both("pipe1") \cup Both("pipe2")) \ {<<"pipe1", "r">>, <<"pipe1", "w">>, <<"pipe2", "w">>}
        = {<<"pipe2", "r">>}
  /\ (Both("pipe1") \cup Both("pipe2")) \ {<<"pipe1", "r">>}
        = {<<"pipe1", "w">>} \cup Both("pipe2")
  /\ ({<<"pipe1", "w">>} \cup Both("pipe2")) \ {<<"pipe1", "w">>} = Both("pipe2")
  /\ (Both("pipe1") \cup Both("pipe2")) \ {<<"pipe1", "w">>, <<"pipe2", "r">>}
        = {<<"pipe1", "r">>, <<"pipe2", "w">>}
  /\ {<<"pipe1", "r">>, <<"pipe2", "w">>} \ {<<"pipe1", "r">>} = {<<"pipe2", "w">>}
  /\ \A E : E \ E = {}
BY DEF Both

LEMMA ParentHeldStays ==
  ASSUME ParentHeld, pc'["parent"] = pc["parent"], held'["parent"] = held["parent"]
  PROVE  ParentHeld'
BY DEF ParentHeld

LEMMA ReaderHeldStays ==
  ASSUME ReaderHeld, pc'["reader"] = pc["reader"], held'["reader"] = held["reader"]
  PROVE  ReaderHeld'
BY DEF ReaderHeld

LEMMA CalleeHeldStays ==
  ASSUME CalleeHeld, pc'["callee"] = pc["callee"], held'["callee"] = held["callee"]
  PROVE  CalleeHeld'
BY DEF CalleeHeld

LEMMA GeneratorHeldStays ==
  ASSUME GeneratorHeld, pc'["generator"] = pc["generator"],
         held'["generator"] = held["generator"]
  PROVE  GeneratorHeld'
BY DEF GeneratorHeld

LEMMA SquarerHeldStays ==
  ASSUME SquarerHeld, pc'["squarer"] = pc["squarer"], held'["squarer"] = held["squarer"]
  PROVE  SquarerHeld'
BY DEF SquarerHeld

LEMMA ReaderHolds ==
  ASSUME PipeHeld, ReaderTable
  PROVE  PipeHeld'
<1>1. \E a, b : Goes("reader", a, b)
  BY DEF ReaderTable, Closes, Reads, Finds, Dies
<1>2. ReaderHeld'
  BY EndsClosed
     DEF PipeHeld, ReaderHeld, ReaderTable, Closes, Reads, Finds, Dies, Goes
<1> QED
  BY <1>1, <1>2, Members, ParentHeldStays, CalleeHeldStays, GeneratorHeldStays,
     SquarerHeldStays
     DEF PipeHeld, Goes

LEMMA CalleeHolds ==
  ASSUME PipeHeld, CalleeTable
  PROVE  PipeHeld'
<1>1. \E a, b : Goes("callee", a, b)
  BY DEF CalleeTable, Closes, Reads, Finds, Writes, Dies
<1>2. CalleeHeld'
  BY EndsClosed
     DEF PipeHeld, CalleeHeld, CalleeTable, Closes, Reads, Finds, Writes, Dies,
         Goes
<1> QED
  BY <1>1, <1>2, Members, ParentHeldStays, ReaderHeldStays, GeneratorHeldStays,
     SquarerHeldStays
     DEF PipeHeld, Goes

LEMMA GeneratorHolds ==
  ASSUME PipeHeld, GeneratorTable
  PROVE  PipeHeld'
<1>1. \E a, b : Goes("generator", a, b)
  BY DEF GeneratorTable, Closes, Generates, GeneratesAll, Dies
<1>2. GeneratorHeld'
  BY EndsClosed
     DEF PipeHeld, GeneratorHeld, GeneratorTable, Closes, Generates,
         GeneratesAll,
     Dies, Goes
<1> QED
  BY <1>1, <1>2, Members, ParentHeldStays, ReaderHeldStays, CalleeHeldStays,
     SquarerHeldStays
     DEF PipeHeld, Goes

LEMMA SquarerHolds ==
  ASSUME PipeHeld, SquarerTable
  PROVE  PipeHeld'
<1>1. \E a, b : Goes("squarer", a, b)
  BY DEF SquarerTable, Closes, Reads, Finds, Squares, Flushes, FlushesAll, Dies
<1>2. SquarerHeld'
  BY EndsClosed
     DEF PipeHeld, SquarerHeld, SquarerTable, Closes, Reads, Finds, Squares,
         Flushes,
     FlushesAll, Dies, Goes
<1> QED
  BY <1>1, <1>2, Members, ParentHeldStays, ReaderHeldStays, CalleeHeldStays,
     GeneratorHeldStays
     DEF PipeHeld, Goes

-----------------------------------------------------------------------------
(* The parent's steps.                                                      *)

LEMMA ParentAdvances ==
  /\ SimpleMoves => Advances("parent")
  /\ BidirectionalMoves => Advances("parent")
  /\ PipelineMoves => Advances("parent")
<1>1. SimpleMoves => Advances("parent")
  BY DEF SimpleMoves, Advances, Opens, Closes, Writes, Dies
<1>2. BidirectionalMoves => Advances("parent")
  BY DEF BidirectionalMoves, Advances, Opens, Closes, Writes, Reads, Finds, Dies
<1>3. PipelineMoves => Advances("parent")
  BY DEF PipelineMoves, Advances, Opens, Closes, Reads, Finds, Prints, Dies
<1> QED
  BY <1>1, <1>2, <1>3

LEMMA ParentAlone ==
  ASSUME PipeLife, PipeHeld, Advances("parent")
  PROVE  /\ PipeLife'
         /\ ReaderHeld' /\ CalleeHeld' /\ GeneratorHeld' /\ SquarerHeld'
         /\ \A k \in Kids :
               /\ pc'[k] = pc[k]
               /\ (Missing(k)' <=> Missing(k))
               /\ (Gone(k)' <=> Gone(k))
<1> PICK a, b : Goes("parent", a, b)
  BY DEF Advances
<1>1. PipeLife'
  BY AdvanceLife, Members
<1>2. ReaderHeld' /\ CalleeHeld' /\ GeneratorHeld' /\ SquarerHeld'
  BY Members, ReaderHeldStays, CalleeHeldStays, GeneratorHeldStays,
     SquarerHeldStays
     DEF PipeHeld, Goes
<1> QED
  BY <1>1, <1>2, KidsStay

LEMMA SimplePlaces ==
  ASSUME PipePlaces, PipeLife, PipeOrder, PipeHeld, SimpleMoves
  PROVE  PipePlaces' /\ PipeLife' /\ PipeOrder' /\ PipeHeld'
<1>1. /\ PipeLife'
      /\ ReaderHeld' /\ CalleeHeld' /\ GeneratorHeld' /\ SquarerHeld'
      /\ \A k \in Kids :
            /\ pc'[k] = pc[k]
            /\ (Missing(k)' <=> Missing(k))
            /\ (Gone(k)' <=> Gone(k))
  BY ParentAdvances, ParentAlone
<1>2. /\ \/ pc["parent"] = "pipe_1" /\ pc'["parent"] \in {"fork_1", "exit"}
         \/ pc["parent"] = "close_1" /\ pc'["parent"] = "write_1"
         \/ pc["parent"] = "write_1" /\ pc'["parent"] = "shut_1"
         \/ pc["parent"] = "write_1" /\ pc'["parent"] = "killed"
         \/ pc["parent"] = "shut_1" /\ pc'["parent"] = "wait_1"
  BY DEF SimpleMoves, Opens, Closes, Writes, Dies, Goes
<1>2a. ParentHeld'
  <2>1. /\ pc["parent"] = "pipe_1" => held["parent"] = {}
        /\ pc["parent"] = "close_1" => held["parent"] = Both("pipefd")
        /\ pc["parent"] \in {"write_1", "shut_1"} => held["parent"] = {<<"pipefd", "w">>}
    BY DEF PipeHeld, ParentHeld
  <2>2. /\ pc'["parent"] = "fork_1" => held'["parent"] = Both("pipefd")
        /\ pc'["parent"] \in {"write_1", "shut_1"} => held'["parent"] = {<<"pipefd", "w">>}
        /\ pc'["parent"] \in {"wait_1", "killed"} => held'["parent"] = {}
    BY <2>1, EndsOpened, EndsClosed
       DEF SimpleMoves, Opens, Closes, Writes, Dies, Goes
  <2> QED
    BY <1>2, <2>2 DEF ParentHeld
<1>3. PipePlaces'
  BY <1>1, <1>2, Members DEF PipePlaces
<1>4. \A k \in Kids : pc[k] = "none" => Gone(k)
  BY DEF PipeLife, Gone, Missing, Kids, AllProcesses
<1>5. pc["parent"] = "pipe_1" => \A k \in Kids : Gone(k)
  BY <1>4 DEF PipeOrder, Kids
<1>6. PipeOrder'
  BY <1>1, <1>2, <1>5, Members DEF PipeOrder
<1> QED
  BY <1>1, <1>2a, <1>3, <1>6 DEF PipeHeld

LEMMA BidirectionalPlaces ==
  ASSUME PipePlaces, PipeLife, PipeOrder, PipeHeld, BidirectionalMoves
  PROVE  PipePlaces' /\ PipeLife' /\ PipeOrder' /\ PipeHeld'
<1>1. /\ PipeLife'
      /\ ReaderHeld' /\ CalleeHeld' /\ GeneratorHeld' /\ SquarerHeld'
      /\ \A k \in Kids :
            /\ pc'[k] = pc[k]
            /\ (Missing(k)' <=> Missing(k))
            /\ (Gone(k)' <=> Gone(k))
  BY ParentAdvances, ParentAlone
<1>2. /\ \/ pc["parent"] = "pipe_2" /\ pc'["parent"] \in {"fork_2", "exit"}
         \/ pc["parent"] = "close_2" /\ pc'["parent"] = "write_2"
         \/ pc["parent"] = "write_2" /\ pc'["parent"] = "read_2"
         \/ pc["parent"] = "write_2" /\ pc'["parent"] = "killed"
         \/ pc["parent"] = "read_2" /\ pc'["parent"] = "shut_2"
         \/ pc["parent"] = "shut_2" /\ pc'["parent"] = "wait_2"
      /\ ParentHeld'
  BY EndsOpened, EndsClosed
     DEF BidirectionalMoves, Opens, Closes, Writes, Reads, Finds, Dies, Goes,
         PipeHeld,
         ParentHeld
<1>3. PipePlaces'
  BY <1>1, <1>2, Members DEF PipePlaces
<1>4. \A k \in Kids : pc[k] = "none" => Gone(k)
  BY DEF PipeLife, Gone, Missing, Kids, AllProcesses
<1>5. pc["parent"] = "pipe_2" => \A k \in Kids : Gone(k)
  BY <1>4 DEF PipeOrder, Kids
<1>6. PipeOrder'
  BY <1>1, <1>2, <1>5, Members DEF PipeOrder
<1> QED
  BY <1>1, <1>2, <1>3, <1>6 DEF PipeHeld

LEMMA PipelinePlaces ==
  ASSUME PipePlaces, PipeLife, PipeOrder, PipeHeld, PipelineMoves
  PROVE  PipePlaces' /\ PipeLife' /\ PipeOrder' /\ PipeHeld'
<1>1. /\ PipeLife'
      /\ ReaderHeld' /\ CalleeHeld' /\ GeneratorHeld' /\ SquarerHeld'
      /\ \A k \in Kids :
            /\ pc'[k] = pc[k]
            /\ (Missing(k)' <=> Missing(k))
            /\ (Gone(k)' <=> Gone(k))
  BY ParentAdvances, ParentAlone
<1>2. /\ \/ pc["parent"] = "pipe_3" /\ pc'["parent"] = "fork_gen"
         \/ pc["parent"] = "close_3" /\ pc'["parent"] = "read_3"
         \/ pc["parent"] = "read_3" /\ pc'["parent"] = "print_3"
         \/ pc["parent"] = "print_3" /\ pc'["parent"] = "read_3"
         \/ pc["parent"] = "read_3" /\ pc'["parent"] = "shut_3"
         \/ pc["parent"] = "shut_3" /\ pc'["parent"] = "wait_3"
         \/ pc["parent"] = "exit" /\ pc'["parent"] = "done"
      /\ ParentHeld'
  BY EndsOpened, EndsClosed
     DEF PipelineMoves, Opens, Closes, Reads, Finds, Prints, Dies, Goes,
         PipeHeld, ParentHeld
<1>3. PipePlaces'
  BY <1>1, <1>2, Members DEF PipePlaces
<1>4. PipeOrder'
  BY <1>1, <1>2, Members DEF PipeOrder
<1> QED
  BY <1>1, <1>2, <1>3, <1>4 DEF PipeHeld

LEMMA WaitPlaces ==
  ASSUME Typed, PipePlaces, PipeLife, PipeOrder, PipeHeld, NEW a, NEW b, Waits(a, b),
         <<a, b>> \in {<<"wait_1", "pipe_2">>, <<"wait_2", "pipe_3">>,
         <<"wait_3", "wait_4">>,
                       <<"wait_4", "exit">>}
  PROVE  PipePlaces' /\ PipeLife' /\ PipeOrder' /\ PipeHeld'
<1>1. /\ PipeLife'
      /\ \A k \in Kids : pc'[k] = pc[k] /\ (Gone(k) => Gone(k)')
      /\ \/ \E k \in Kids : ~Gone(k) /\ Gone(k)'
         \/ \A k \in Kids : Gone(k)
  BY WaitLife
<1>2. pc["parent"] = a /\ pc'["parent"] = b /\ held' = held
  BY DEF Waits
<1>3. PipePlaces'
  BY <1>1, <1>2, Members DEF PipePlaces
<1>4. \A k \in Kids : pc[k] = "none" => Gone(k)
  BY DEF PipeLife, Gone, Missing, Kids, AllProcesses
<1>5. ASSUME a = "wait_1" PROVE PipeOrder'
  <2>1. pc["callee"] = "none" /\ pc["generator"] = "none" /\ pc["squarer"] = "none"
    BY <1>2, <1>5 DEF PipeOrder
  <2>2. Gone("reader")'
    BY <1>1, <1>4, <2>1 DEF Kids
  <2> QED
    BY <1>1, <1>2, <1>5, <2>1, <2>2, Members DEF PipeOrder
<1>6. ASSUME a = "wait_2" PROVE PipeOrder'
  <2>1. Gone("reader") /\ pc["generator"] = "none" /\ pc["squarer"] = "none"
    BY <1>2, <1>6 DEF PipeOrder
  <2>2. Gone("reader")' /\ Gone("callee")'
    BY <1>1, <1>4, <2>1 DEF Kids
  <2> QED
    BY <1>1, <1>2, <1>6, <2>1, <2>2, Members DEF PipeOrder
<1>7. ASSUME a = "wait_3" PROVE PipeOrder'
  <2>1. Gone("reader") /\ Gone("callee")
    BY <1>2, <1>7 DEF PipeOrder
  <2>2. Gone("reader")' /\ Gone("callee")' /\ (Gone("generator")' \/ Gone("squarer")')
    BY <1>1, <2>1 DEF Kids
  <2> QED
    BY <1>1, <1>2, <1>7, <2>2, Members DEF PipeOrder
<1>8. ASSUME a = "wait_4" PROVE PipeOrder'
  <2>1. Gone("reader") /\ Gone("callee") /\ (Gone("generator") \/ Gone("squarer"))
    BY <1>2, <1>8 DEF PipeOrder
  <2>2. \A k \in Kids : Gone(k)'
    BY <1>1, <2>1 DEF Kids
  <2> QED
    BY <1>1, <1>2, <1>8, <2>2, Members DEF PipeOrder
<1>9. PipeHeld'
  <2>1. ParentHeld'
    BY <1>2 DEF PipeHeld, ParentHeld
  <2> QED
    BY <1>1, <1>2, <2>1, Members, ReaderHeldStays, CalleeHeldStays,
       GeneratorHeldStays,
       SquarerHeldStays DEF PipeHeld
<1> QED
  BY <1>1, <1>3, <1>5, <1>6, <1>7, <1>8, <1>9

LEMMA ForkPlaces ==
  ASSUME PipePlaces, PipeLife, PipeOrder, PipeHeld, NEW a, NEW k, NEW b, Forks(a, k, b),
         <<a, k, b>> \in {<<"fork_1", "reader", "close_1">>, <<"fork_2",
         "callee", "close_2">>,
                          <<"fork_gen", "generator", "fork_sq">>,
                          <<"fork_sq", "squarer", "close_3">>}
  PROVE  PipePlaces' /\ PipeLife' /\ PipeOrder' /\ PipeHeld'
<1>1. k \in Kids /\ k \in AllProcesses /\ k # "parent"
  BY Members
<1>2. /\ PipeLife'
      /\ \A q \in Kids \ {k} :
            /\ pc'[q] = pc[q]
            /\ (Missing(q)' <=> Missing(q))
            /\ (Gone(q)' <=> Gone(q))
  BY <1>1, ForkLife
<1>3. /\ pc["parent"] = a /\ pc'["parent"] = b /\ pc'[k] = "begin"
      /\ held'[k] = held["parent"] /\ life[k] = "unborn"
      /\ \A q \in AllProcesses \ {k} : held'[q] = held[q]
  BY DEF Forks
<1>4. ~Missing(k)'
  BY <1>3 DEF Missing
<1>5. \A q \in AllProcesses \ {k, "parent"} : pc'[q] = pc[q]
  BY DEF Forks
<1>6. PipePlaces'
  BY <1>3, <1>5, Members DEF PipePlaces
<1>7. ParentHeld'
  BY <1>1, <1>3, Members DEF PipeHeld, ParentHeld
<1>8. ASSUME k = "reader" PROVE PipeOrder' /\ PipeHeld'
  <2>1. a = "fork_1" /\ b = "close_1"
    BY <1>8
  <2>2. \A q \in Kids : pc[q] = "none"
    BY <1>3, <2>1 DEF PipeOrder
  <2>3. PipeOrder'
    BY <1>2, <1>3, <1>4, <1>8, <2>1, <2>2, Members DEF PipeOrder
  <2>4. ReaderHeld'
    BY <1>3, <1>8, <2>1 DEF PipeHeld, ParentHeld, ReaderHeld
  <2> QED
    BY <1>3, <1>5, <1>7, <1>8, <2>3, <2>4, Members, CalleeHeldStays,
       GeneratorHeldStays,
       SquarerHeldStays DEF PipeHeld
<1>9. ASSUME k = "callee" PROVE PipeOrder' /\ PipeHeld'
  <2>1. a = "fork_2" /\ b = "close_2"
    BY <1>9
  <2>2. Gone("reader") /\ pc["generator"] = "none" /\ pc["squarer"] = "none"
    BY <1>3, <2>1 DEF PipeOrder
  <2>3. PipeOrder'
    BY <1>2, <1>3, <1>4, <1>9, <2>1, <2>2, Members DEF PipeOrder
  <2>4. CalleeHeld'
    BY <1>3, <1>9, <2>1 DEF PipeHeld, ParentHeld, CalleeHeld
  <2> QED
    BY <1>3, <1>5, <1>7, <1>9, <2>3, <2>4, Members, ReaderHeldStays,
       GeneratorHeldStays,
       SquarerHeldStays DEF PipeHeld
<1>10. ASSUME k = "generator" PROVE PipeOrder' /\ PipeHeld'
  <2>1. a = "fork_gen" /\ b = "fork_sq"
    BY <1>10
  <2>2. Gone("reader") /\ Gone("callee") /\ pc["squarer"] = "none"
    BY <1>3, <2>1 DEF PipeOrder
  <2>3. PipeOrder'
    BY <1>2, <1>3, <1>4, <1>10, <2>1, <2>2, Members DEF PipeOrder
  <2>4. GeneratorHeld'
    BY <1>3, <1>10, <2>1 DEF PipeHeld, ParentHeld, GeneratorHeld
  <2> QED
    BY <1>3, <1>5, <1>7, <1>10, <2>3, <2>4, Members, ReaderHeldStays,
       CalleeHeldStays,
       SquarerHeldStays DEF PipeHeld
<1>11. ASSUME k = "squarer" PROVE PipeOrder' /\ PipeHeld'
  <2>1. a = "fork_sq" /\ b = "close_3"
    BY <1>11
  <2>2. Gone("reader") /\ Gone("callee") /\ pc["generator"] # "none"
    BY <1>3, <2>1 DEF PipeOrder
  <2>3. PipeOrder'
    BY <1>2, <1>3, <1>4, <1>11, <2>1, <2>2, Members DEF PipeOrder
  <2>4. SquarerHeld'
    BY <1>3, <1>11, <2>1 DEF PipeHeld, ParentHeld, SquarerHeld
  <2> QED
    BY <1>3, <1>5, <1>7, <1>11, <2>3, <2>4, Members, ReaderHeldStays,
       CalleeHeldStays,
       GeneratorHeldStays DEF PipeHeld
<1> QED
  BY <1>2, <1>6, <1>8, <1>9, <1>10, <1>11

LEMMA NoForkPlaces ==
  ASSUME PipePlaces, PipeLife, PipeOrder, PipeHeld, NEW a, NEW k, NEW b, ForksNot(a, k, b),
         <<a, k, b>> \in {<<"fork_1", "reader", "exit">>, <<"fork_2", "callee",
         "close_2">>,
                          <<"fork_gen", "generator", "fork_sq">>,
                          <<"fork_sq", "squarer", "close_3">>}
  PROVE  PipePlaces' /\ PipeLife' /\ PipeOrder' /\ PipeHeld'
<1>1. k \in Kids /\ k \in AllProcesses /\ k # "parent"
  BY Members
<1>2. /\ pc["parent"] = a /\ pc'["parent"] = b /\ pc'[k] = "unforked" /\ held' = held
      /\ \A q \in AllProcesses \ {k, "parent"} : pc'[q] = pc[q]
  BY DEF ForksNot
<1>3. pc[k] = "none"
  BY <1>2, Members DEF PipeOrder
<1>4. /\ PipeLife' /\ Gone(k)'
      /\ \A q \in Kids \ {k} :
            /\ pc'[q] = pc[q]
            /\ (Missing(q)' <=> Missing(q))
            /\ (Gone(q)' <=> Gone(q))
  BY <1>1, <1>3, NoForkLife
<1>5. PipePlaces'
  BY <1>2, Members DEF PipePlaces
<1>6. \A q \in Kids : pc[q] = "none" => Gone(q)
  BY DEF PipeLife, Gone, Missing, Kids, AllProcesses
<1>7. PipeOrder'
  <2>1. CASE k = "reader"
    <3>1. a = "fork_1" /\ b = "exit"
      BY <2>1
    <3>2. \A q \in Kids : Gone(q)'
      BY <1>2, <1>4, <1>6, <2>1, <3>1 DEF PipeOrder
    <3> QED
      BY <1>2, <3>1, <3>2 DEF PipeOrder
  <2>2. CASE k = "callee"
    <3>1. a = "fork_2" /\ b = "close_2"
      BY <2>2
    <3> QED
      BY <1>2, <1>4, <2>2, <3>1, Members DEF PipeOrder
  <2>3. CASE k = "generator"
    <3>1. a = "fork_gen" /\ b = "fork_sq"
      BY <2>3
    <3> QED
      BY <1>2, <1>4, <2>3, <3>1, Members DEF PipeOrder
  <2>4. CASE k = "squarer"
    <3>1. a = "fork_sq" /\ b = "close_3"
      BY <2>4
    <3> QED
      BY <1>2, <1>4, <2>4, <3>1, Members DEF PipeOrder
  <2> QED
    BY <2>1, <2>2, <2>3, <2>4
<1>8. PipeHeld'
  <2>1. ParentHeld'
    BY <1>2 DEF PipeHeld, ParentHeld
  <2>2. ReaderHeld'
    BY <1>2, <1>3, Members DEF PipeHeld, ReaderHeld
  <2>3. CalleeHeld'
    BY <1>2, <1>3, Members DEF PipeHeld, CalleeHeld
  <2>4. GeneratorHeld'
    BY <1>2, <1>3, Members DEF PipeHeld, GeneratorHeld
  <2>5. SquarerHeld'
    BY <1>2, <1>3, Members DEF PipeHeld, SquarerHeld
  <2> QED
    BY <2>1, <2>2, <2>3, <2>4, <2>5 DEF PipeHeld
<1> QED
  BY <1>4, <1>5, <1>7, <1>8

-----------------------------------------------------------------------------
(* The numbers of the pipeline.                                             *)

LEMMA TailSquares ==
  ASSUME NEW s \in Seq(Nat), s # <<>>, NEW n \in Nat, SquaresFrom(s, n)
  PROVE  /\ Len(s) \in Nat /\ Len(Tail(s)) = Len(s) - 1
         /\ Head(s) = Sq(n + 1)
         /\ SquaresFrom(Tail(s), n + 1)
<1>1. /\ Len(s) \in Nat /\ Len(Tail(s)) = Len(s) - 1
      /\ 1 \in 1..Len(s) /\ Head(s) = s[1]
      /\ \A k \in 1..(Len(s) - 1) : k + 1 \in 1..Len(s) /\ Tail(s)[k] = s[k + 1]
  OBVIOUS
<1>2. ASSUME NEW k \in 1..(Len(s) - 1)
      PROVE  Tail(s)[k] = Sq((n + 1) + k)
  <2>1. n + (k + 1) = (n + 1) + k
    OBVIOUS
  <2>2. Tail(s)[k] = Sq(n + (k + 1))
    BY <1>1 DEF SquaresFrom
  <2> QED
    BY <2>1, <2>2
<1> QED
  BY <1>1, <1>2 DEF SquaresFrom

LEMMA AppendSquares ==
  ASSUME NEW s \in Seq(Nat), NEW n \in Nat, SquaresFrom(s, n), NEW m \in Nat,
         m = Sq(n + (Len(s) + 1))
  PROVE  /\ Len(s) \in Nat /\ Len(Append(s, m)) = Len(s) + 1
         /\ SquaresFrom(Append(s, m), n)
<1>1. /\ Len(s) \in Nat /\ Len(Append(s, m)) = Len(s) + 1
      /\ \A k \in 1..(Len(s) + 1) : \/ k \in 1..Len(s) /\ Append(s, m)[k] = s[k]
                                    \/ k = Len(s) + 1 /\ Append(s, m)[k] = m
  OBVIOUS
<1> QED
  BY <1>1 DEF SquaresFrom

LEMMA TailNumbers ==
  ASSUME NEW s \in Seq(Nat), s # <<>>, NEW n \in Nat, NumbersFrom(s, n)
  PROVE  /\ Len(s) \in Nat /\ Len(Tail(s)) = Len(s) - 1
         /\ Head(s) = n + 1
         /\ NumbersFrom(Tail(s), n + 1)
<1>1. /\ Len(s) \in Nat /\ Len(Tail(s)) = Len(s) - 1
      /\ 1 \in 1..Len(s) /\ Head(s) = s[1]
      /\ \A k \in 1..(Len(s) - 1) : k + 1 \in 1..Len(s) /\ Tail(s)[k] = s[k + 1]
  OBVIOUS
<1> QED
  BY <1>1 DEF NumbersFrom

LEMMA AppendNumbers ==
  ASSUME NEW s \in Seq(Nat), NEW n \in Nat, NumbersFrom(s, n), NEW m \in Nat,
         m = n + (Len(s) + 1)
  PROVE  /\ Len(s) \in Nat /\ Len(Append(s, m)) = Len(s) + 1
         /\ NumbersFrom(Append(s, m), n)
<1>1. /\ Len(s) \in Nat /\ Len(Append(s, m)) = Len(s) + 1
      /\ \A k \in 1..(Len(s) + 1) : \/ k \in 1..Len(s) /\ Append(s, m)[k] = s[k]
                                    \/ k = Len(s) + 1 /\ Append(s, m)[k] = m
  OBVIOUS
<1> QED
  BY <1>1 DEF NumbersFrom

LEMMA TailLength ==
  ASSUME NEW s \in Seq(Nat), s # <<>>
  PROVE  Len(s) \in Nat /\ Len(Tail(s)) = Len(s) - 1
OBVIOUS

LEMMA AppendLength ==
  ASSUME NEW s \in Seq(Nat), NEW m \in Nat
  PROVE  Len(s) \in Nat /\ Len(Append(s, m)) = Len(s) + 1
OBVIOUS

Sums ==
    /\ Len(content["pipe1"]) \in Nat /\ Len(content["pipe2"]) \in Nat
    /\ Len(wp) \in Nat /\ Len(results) \in Nat
    /\ line["generator"] \in Nat /\ line["generator"] <= Lines
    /\ Out \in Nat /\ Through \in Nat /\ Squared \in Nat /\ Taken \in Nat
    /\ pc["parent"] = "print_3" => Out = Len(results) + 1
    /\ pc["parent"] # "print_3" => Out = Len(results)
    /\ Through = Out + Len(content["pipe2"])
    /\ Squared = Through + Len(wp)
    /\ pc["squarer"] = "print" => Taken = Squared + 1
    /\ pc["squarer"] # "print" => Taken = Squared

LEMMA SumTypes ==
  ASSUME Typed
  PROVE  /\ content["pipe1"] \in Seq(Nat) /\ content["pipe2"] \in Seq(Nat)
         /\ wp \in Seq(Nat) /\ results \in Seq(Nat)
         /\ line["generator"] \in Nat /\ line["generator"] <= Lines
BY Members DEF Typed, KernelOK

LEMMA Counts == Typed => Sums
<1> SUFFICES ASSUME Typed PROVE Sums
  OBVIOUS
<1>1. /\ Len(content["pipe1"]) \in Nat /\ Len(content["pipe2"]) \in Nat
      /\ Len(wp) \in Nat /\ Len(results) \in Nat
  BY SumTypes
<1>2. /\ Out \in Nat
      /\ pc["parent"] = "print_3" => Out = Len(results) + 1
      /\ pc["parent"] # "print_3" => Out = Len(results)
  BY <1>1 DEF Out
<1>3. Through = Out + Len(content["pipe2"]) /\ Through \in Nat
  BY <1>1, <1>2 DEF Through
<1>4. Squared = Through + Len(wp) /\ Squared \in Nat
  BY <1>1, <1>3 DEF Squared
<1>5. /\ Taken \in Nat
      /\ pc["squarer"] = "print" => Taken = Squared + 1
      /\ pc["squarer"] # "print" => Taken = Squared
  BY <1>4 DEF Taken
<1> QED
  BY <1>1, <1>2, <1>3, <1>4, <1>5, SumTypes DEF Sums

LEMMA CountsNext == Typed' => Sums'
BY Counts, PTL

\* A step that moves no number, and starts nothing that the numbers are counted by.
LEMMA FlowStays ==
  ASSUME PipeFlow,
         results' = results, wp' = wp, line'["generator"] = line["generator"],
         content'["pipe1"] = content["pipe1"], content'["pipe2"] = content["pipe2"],
         \/ Over("parent")'
         \/ /\ ~Over("parent")
            /\ pc'["parent"] = "print_3" <=> pc["parent"] = "print_3"
            /\ pc'["parent"] = "print_3" => line'["parent"] = line["parent"],
         \/ pc'["squarer"] \in {"killed", "shot"}
         \/ /\ pc["squarer"] \notin {"killed", "shot"}
            /\ pc'["squarer"] = "print" <=> pc["squarer"] = "print"
            /\ pc'["squarer"] = "print" => line'["squarer"] = line["squarer"],
         pc'["generator"] \in {"exit", "done"} => line["generator"] = Lines,
         pc'["squarer"] \in {"exit", "done"} => wp = <<>>
  PROVE  PipeFlow'
<1>1. FlowPrinted' /\ FlowEnds'
  BY DEF PipeFlow, FlowPrinted, FlowEnds
<1>2. ASSUME ~Over("parent")'
      PROVE  Out' = Out /\ Through' = Through
  BY <1>2 DEF Out, Through
<1>3. FlowBefore'
  BY <1>2 DEF PipeFlow, FlowBefore
<1>4. ASSUME ~Over("parent")', pc'["squarer"] \notin {"killed", "shot"}
      PROVE  Taken' = Taken
  BY <1>2, <1>4 DEF Squared, Taken
<1>5. FlowBehind'
  BY <1>2, <1>4 DEF PipeFlow, FlowBehind
<1> QED
  BY <1>1, <1>3, <1>5 DEF PipeFlow

\* The parent takes the next square out of the pipe.
LEMMA FlowReads ==
  ASSUME Typed, Typed', PipeFlow, Reads("parent", "read_3", "pipe2", "print_3")
  PROVE  PipeFlow'
<1> DEFINE s == content["pipe2"]
           t == content'["pipe2"]
<1>1. /\ pc["parent"] = "read_3" /\ pc'["parent"] = "print_3"
      /\ results' = results /\ wp' = wp
      /\ content'["pipe1"] = content["pipe1"]
      /\ pc'["squarer"] = pc["squarer"] /\ line'["squarer"] = line["squarer"]
      /\ pc'["generator"] = pc["generator"] /\ line'["generator"] = line["generator"]
  BY Members DEF Reads, Goes, Takes
<1>2. s # <<>> /\ t = Tail(s) /\ line'["parent"] = Head(s)
  BY Members DEF Reads, Takes
<1>3. Sums /\ Sums'
  BY Counts, CountsNext
<1>4. /\ ~Over("parent") /\ ~Over("parent")'
      /\ Through <= Lines /\ SquaresFrom(s, Out)
  BY <1>1 DEF Over, PipeFlow, FlowBefore
<1>5a. Out \in Nat
  BY <1>3 DEF Sums
<1>5. s \in Seq(Nat) /\ Out \in Nat
  BY <1>5a, SumTypes
<1> HIDE DEF s, t
<1>6. /\ Len(s) \in Nat /\ Len(t) = Len(s) - 1
      /\ line'["parent"] = Sq(Out + 1) /\ SquaresFrom(t, Out + 1)
  BY <1>2, <1>4, <1>5, TailSquares
<1>7. Out' = Out + 1
  BY <1>1, <1>3 DEF Sums
<1>8. Through' = Through
  <2>1. Through = Out + Len(s) /\ Through' = Out' + Len(t)
    BY <1>3 DEF Sums, s, t
  <2>2. Len(s) \in Nat /\ Len(t) = Len(s) - 1
    BY <1>6
  <2> QED
    BY <1>5a, <1>7, <2>1, <2>2
<1>9. Taken' = Taken
  BY <1>1, <1>8 DEF Taken, Squared
<1>10. FlowBefore'
  BY <1>4, <1>6, <1>7, <1>8 DEF FlowBefore, t
<1>11. FlowBehind'
  BY <1>1, <1>4, <1>8, <1>9 DEF PipeFlow, FlowBehind
<1>12. FlowPrinted' /\ FlowEnds'
  BY <1>1 DEF PipeFlow, FlowPrinted, FlowEnds
<1> QED
  BY <1>10, <1>11, <1>12 DEF PipeFlow

\* The parent prints what it read.
LEMMA FlowPrints ==
  ASSUME Typed, Typed', PipeFlow, Prints
  PROVE  PipeFlow'
<1>1. /\ pc["parent"] = "print_3" /\ pc'["parent"] = "read_3"
      /\ content' = content /\ line' = line /\ wp' = wp
      /\ pc'["squarer"] = pc["squarer"] /\ pc'["generator"] = pc["generator"]
  BY Members DEF Prints, Goes
<1>2. results' = Append(results, line["parent"])
  BY DEF Prints
<1>3. Sums /\ Sums'
  BY Counts, CountsNext
<1>4. /\ ~Over("parent") /\ ~Over("parent")'
      /\ Through <= Lines /\ SquaresFrom(content["pipe2"], Out)
      /\ line["parent"] = Sq(Out) /\ SquaresFrom(results, 0)
  BY <1>1 DEF Over, PipeFlow, FlowBefore, FlowPrinted
<1>5. line["parent"] \in Nat /\ results \in Seq(Nat)
  BY Members DEF Typed
<1>6. /\ Len(results) \in Nat /\ Out = 0 + (Len(results) + 1)
      /\ Through = Out + Len(content["pipe2"]) /\ Len(content["pipe2"]) \in Nat
  BY <1>1, <1>3 DEF Sums
<1>7. Len(results') = Len(results) + 1 /\ SquaresFrom(results', 0)
  BY <1>2, <1>4, <1>5, <1>6, AppendSquares
<1>8. Len(results') <= Lines
  <2>1. Through <= Lines
    BY <1>4
  <2>2. Out \in Nat /\ Through \in Nat /\ Lines \in Nat
    BY <1>3, PipesAssumption DEF Sums
  <2>3. Out <= Through
    <3>1. Through = Out + Len(content["pipe2"]) /\ Len(content["pipe2"]) \in Nat
      BY <1>3 DEF Sums
    <3> QED
      BY <2>2, <3>1
  <2>4. Out <= Lines
    BY <2>1, <2>2, <2>3
  <2>5. Len(results') = Out
    BY <1>6, <1>7
  <2> QED
    BY <2>4, <2>5
<1>9. Out' = Out
  BY <1>1, <1>3, <1>6, <1>7 DEF Sums
<1>10. Through' = Through /\ Taken' = Taken
  BY <1>1, <1>9 DEF Through, Squared, Taken
<1>11. FlowPrinted' /\ FlowEnds'
  BY <1>1, <1>7, <1>8 DEF PipeFlow, FlowPrinted, FlowEnds
<1>12. FlowBefore'
  BY <1>1, <1>4, <1>9, <1>10 DEF FlowBefore
<1>13. FlowBehind'
  BY <1>1, <1>4, <1>10 DEF PipeFlow, FlowBehind
<1> QED
  BY <1>11, <1>12, <1>13 DEF PipeFlow

\* The generator writes the next number.
LEMMA FlowGenerates ==
  ASSUME Typed, Typed', PipeFlow, Generates
  PROVE  PipeFlow'
<1> DEFINE s == content["pipe1"]
           t == content'["pipe1"]
           n == line["generator"]
<1>1. /\ pc["generator"] = "write" /\ pc'["generator"] = "write"
      /\ results' = results /\ wp' = wp
      /\ content'["pipe2"] = content["pipe2"]
      /\ pc'["squarer"] = pc["squarer"] /\ line'["squarer"] = line["squarer"]
      /\ pc'["parent"] = pc["parent"] /\ line'["parent"] = line["parent"]
  BY Members DEF Generates, Goes, Puts
<1>2. t = Append(s, n + 1) /\ line'["generator"] = n + 1
  BY DEF Generates, Puts
<1>3. n \in Nat /\ n + 1 \in Nat /\ s \in Seq(Nat) /\ Taken \in Nat
  <2>1. n \in Nat /\ Taken \in Nat
    BY Counts DEF Sums
  <2>2. s \in Seq(Nat)
    BY SumTypes
  <2> QED
    BY <2>1, <2>2
<1>4. (Over("parent")' <=> Over("parent")) /\ Out' = Out /\ Through' = Through /\ Taken' = Taken
  BY <1>1 DEF Over, Out, Through, Squared, Taken
<1>5. FlowPrinted' /\ FlowEnds'
  BY <1>1 DEF PipeFlow, FlowPrinted, FlowEnds
<1>6. FlowBefore'
  BY <1>1, <1>4 DEF PipeFlow, FlowBefore
<1>7. ASSUME ~Over("parent"), pc["squarer"] \notin {"killed", "shot"}
      PROVE  NumbersFrom(t, Taken) /\ line'["generator"] = Taken + Len(t)
  <2>1. NumbersFrom(s, Taken) /\ n = Taken + Len(s)
    BY <1>7 DEF PipeFlow, FlowBehind
  <2> HIDE DEF s, t, n
  <2>2. Len(s) \in Nat
    BY <1>3
  <2>3. n + 1 = Taken + (Len(s) + 1)
    BY <1>3, <2>1, <2>2
  <2>4. Len(t) = Len(s) + 1 /\ NumbersFrom(t, Taken)
    BY <1>2, <1>3, <2>1, <2>3, AppendNumbers
  <2> QED
    BY <1>2, <2>3, <2>4
<1>8. FlowBehind'
  BY <1>1, <1>4, <1>7 DEF PipeFlow, FlowBehind
<1> QED
  BY <1>5, <1>6, <1>8 DEF PipeFlow

\* The squarer takes the next number out of the pipe.
LEMMA FlowTakes ==
  ASSUME Typed, Typed', PipeFlow, Reads("squarer", "read", "pipe1", "print")
  PROVE  PipeFlow'
<1> DEFINE s == content["pipe1"]
           t == content'["pipe1"]
<1>1. /\ pc["squarer"] = "read" /\ pc'["squarer"] = "print"
      /\ results' = results /\ wp' = wp
      /\ content'["pipe2"] = content["pipe2"]
      /\ pc'["generator"] = pc["generator"] /\ line'["generator"] = line["generator"]
      /\ pc'["parent"] = pc["parent"] /\ line'["parent"] = line["parent"]
  BY Members DEF Reads, Goes, Takes
<1>2. s # <<>> /\ t = Tail(s) /\ line'["squarer"] = Head(s)
  BY Members DEF Reads, Takes
<1>3. Sums /\ Sums'
  BY Counts, CountsNext
<1>4. (Over("parent")' <=> Over("parent")) /\ Out' = Out /\ Through' = Through /\ Squared' = Squared
  BY <1>1 DEF Over, Out, Through, Squared
<1>5. Taken \in Nat /\ Taken' = Taken + 1 /\ s \in Seq(Nat)
  BY <1>1, <1>3, <1>4, SumTypes DEF Sums
<1>6. FlowPrinted' /\ FlowEnds'
  BY <1>1 DEF PipeFlow, FlowPrinted, FlowEnds
<1>7. FlowBefore'
  BY <1>1, <1>4 DEF PipeFlow, FlowBefore
<1>8. ASSUME ~Over("parent")
      PROVE  /\ line'["squarer"] = Taken' /\ NumbersFrom(t, Taken')
             /\ line["generator"] = Taken' + Len(t)
  <2>1. NumbersFrom(s, Taken) /\ line["generator"] = Taken + Len(s)
    BY <1>1, <1>8 DEF PipeFlow, FlowBehind
  <2> HIDE DEF s, t
  <2>2. /\ Len(s) \in Nat /\ Len(t) = Len(s) - 1
        /\ line'["squarer"] = Taken + 1 /\ NumbersFrom(t, Taken + 1)
    BY <1>2, <1>5, <2>1, TailNumbers
  <2>3. line["generator"] = (Taken + 1) + Len(t)
    BY <1>5, <2>1, <2>2
  <2> QED
    BY <1>5, <2>2, <2>3
<1>9. FlowBehind'
  BY <1>1, <1>4, <1>8 DEF PipeFlow, FlowBehind
<1> QED
  BY <1>6, <1>7, <1>9 DEF PipeFlow

\* It puts the square into its buffer.
LEMMA FlowSquares ==
  ASSUME Typed, Typed', PipeFlow, Squares
  PROVE  PipeFlow'
<1> DEFINE m == Sq(line["squarer"])
<1>1. /\ pc["squarer"] = "print" /\ pc'["squarer"] = "read"
      /\ results' = results /\ content' = content /\ line' = line
      /\ pc'["generator"] = pc["generator"] /\ pc'["parent"] = pc["parent"]
  BY Members DEF Squares, Goes
<1>2. wp' = Append(wp, m)
  BY DEF Squares
<1>3. Sums /\ Sums'
  BY Counts, CountsNext
<1>4. (Over("parent")' <=> Over("parent")) /\ Out' = Out /\ Through' = Through
  BY <1>1 DEF Over, Out, Through
<1>5. line["squarer"] \in Nat /\ wp \in Seq(Nat)
  BY Members DEF Typed
<1>6. m \in Nat
  BY <1>5 DEF Sq
<1>7. Len(wp) \in Nat /\ Len(wp') = Len(wp) + 1
  BY <1>2, <1>5, <1>6, AppendLength
<1>8. Through \in Nat /\ Taken = Through + (Len(wp) + 1) /\ Taken' = Taken
  <2>1. Through \in Nat /\ Squared = Through + Len(wp) /\ Taken = Squared + 1
    BY <1>1, <1>3 DEF Sums
  <2>2. Squared' = Through' + Len(wp') /\ Taken' = Squared'
    BY <1>1, <1>3 DEF Sums
  <2> QED
    BY <1>4, <1>7, <2>1, <2>2
<1>9. FlowPrinted' /\ FlowEnds'
  BY <1>1 DEF PipeFlow, FlowPrinted, FlowEnds
<1>10. FlowBefore'
  BY <1>1, <1>4 DEF PipeFlow, FlowBefore
<1>11. ASSUME ~Over("parent")
       PROVE  SquaresFrom(wp', Through)
  <2>1. SquaresFrom(wp, Through) /\ line["squarer"] = Taken
    BY <1>1, <1>11 DEF PipeFlow, FlowBehind
  <2>2. m = Sq(Through + (Len(wp) + 1))
    BY <1>8, <2>1
  <2> HIDE DEF m
  <2> QED
    BY <1>2, <1>5, <1>6, <1>8, <2>1, <2>2, AppendSquares
<1>12. FlowBehind'
  BY <1>1, <1>4, <1>8, <1>11 DEF PipeFlow, FlowBehind
<1> QED
  BY <1>9, <1>10, <1>12 DEF PipeFlow

\* fclose() hands the first line of the buffer to the pipe.
LEMMA FlowFlushes ==
  ASSUME Typed, Typed', PipeFlow, Flushes
  PROVE  PipeFlow'
<1> DEFINE s == content["pipe2"]
           t == content'["pipe2"]
<1>1. /\ pc["squarer"] = "flush" /\ pc'["squarer"] = "flush"
      /\ results' = results /\ line' = line
      /\ content'["pipe1"] = content["pipe1"]
      /\ pc'["generator"] = pc["generator"] /\ pc'["parent"] = pc["parent"]
  BY Members DEF Flushes, Goes, Puts
<1>2. wp # <<>> /\ wp' = Tail(wp) /\ t = Append(s, Head(wp))
  BY DEF Flushes, Puts
<1>3. Sums /\ Sums'
  BY Counts, CountsNext
<1>4. s \in Seq(Nat) /\ wp \in Seq(Nat) /\ Head(wp) \in Nat
  BY <1>2, SumTypes
<1>5. (Over("parent")' <=> Over("parent")) /\ Out' = Out
  BY <1>1 DEF Over, Out
<1> HIDE DEF s, t
<1>6. Len(wp) \in Nat /\ Len(wp') = Len(wp) - 1
  BY <1>2, <1>4, TailLength
<1>7. Len(s) \in Nat /\ Len(t) = Len(s) + 1
  BY <1>2, <1>4, AppendLength
<1>8. /\ Out \in Nat /\ Through \in Nat
      /\ Through = Out + Len(s) /\ Through' = Through + 1
  BY <1>3, <1>5, <1>7 DEF Sums, s, t
<1>9. Taken' = Taken /\ Taken = Through + Len(wp) /\ Taken \in Nat
  <2>1. Taken \in Nat /\ Squared = Through + Len(wp) /\ Taken = Squared
    BY <1>1, <1>3 DEF Sums
  <2>2. Squared' = Through' + Len(wp') /\ Taken' = Squared'
    BY <1>1, <1>3 DEF Sums
  <2> QED
    BY <1>6, <1>8, <2>1, <2>2
<1>10. FlowPrinted' /\ FlowEnds'
  BY <1>1 DEF PipeFlow, FlowPrinted, FlowEnds
<1>11. ASSUME ~Over("parent")
       PROVE  /\ Through' <= Lines /\ SquaresFrom(t, Out) /\ SquaresFrom(wp', Through')
              /\ NumbersFrom(content["pipe1"], Taken)
              /\ line["generator"] = Taken + Len(content["pipe1"])
              /\ pc["parent"] = "print_3" => line["parent"] = Sq(Out)
  <2>1. /\ SquaresFrom(s, Out) /\ SquaresFrom(wp, Through)
        /\ NumbersFrom(content["pipe1"], Taken)
        /\ line["generator"] = Taken + Len(content["pipe1"])
        /\ pc["parent"] = "print_3" => line["parent"] = Sq(Out)
    BY <1>1, <1>11 DEF PipeFlow, FlowBefore, FlowBehind, s
  <2>2. /\ Len(content["pipe1"]) \in Nat /\ line["generator"] \in Nat
        /\ line["generator"] <= Lines
    BY <1>3 DEF Sums
  <2>3. 0 < Len(wp)
    BY <1>2, <1>4
  <2>4. Through' <= Lines
    <3>1. Taken \in Nat /\ Through' \in Nat /\ Lines \in Nat
      BY <1>3, PipesAssumption DEF Sums
    <3>2. Through' <= Taken
      BY <1>6, <1>8, <1>9, <2>3, <3>1
    <3>3. Taken <= line["generator"]
      BY <2>1, <2>2, <3>1
    <3>4. line["generator"] \in Nat /\ line["generator"] <= Lines
      BY <2>2
    <3> QED
      BY <3>1, <3>2, <3>3, <3>4
  <2>5. Head(wp) = Sq(Through + 1) /\ SquaresFrom(wp', Through + 1)
    BY <1>2, <1>4, <1>8, <2>1, TailSquares
  <2>6. Through + 1 = Out + (Len(s) + 1)
    BY <1>7, <1>8
  <2>7. SquaresFrom(t, Out)
    BY <1>2, <1>4, <1>8, <2>1, <2>5, <2>6, AppendSquares
  <2> QED
    BY <1>8, <2>1, <2>4, <2>5, <2>7
<1>12. FlowBefore'
  BY <1>1, <1>5, <1>11 DEF FlowBefore, t
<1>13. FlowBehind'
  BY <1>1, <1>5, <1>9, <1>11 DEF FlowBehind
<1> QED
  BY <1>10, <1>12, <1>13 DEF PipeFlow

-----------------------------------------------------------------------------
(* The numbers in every other step.                                        *)

LEMMA ParentAside ==
  ASSUME PipeFlow, NEW a, NEW b, Goes("parent", a, b),
         results' = results, wp' = wp,
         content'["pipe1"] = content["pipe1"], content'["pipe2"] = content["pipe2"],
         a \notin {"print_3", "done", "killed", "shot"}, b # "print_3"
  PROVE  PipeFlow'
<1>1. /\ pc'["generator"] = pc["generator"] /\ line'["generator"] = line["generator"]
      /\ pc'["squarer"] = pc["squarer"] /\ line'["squarer"] = line["squarer"]
      /\ pc["parent"] = a /\ pc'["parent"] = b
  BY Members DEF Goes
<1>2. ~Over("parent")
  BY <1>1 DEF Over
<1>3. /\ pc'["generator"] \in {"exit", "done"} => line["generator"] = Lines
      /\ pc'["squarer"] \in {"exit", "done"} => wp = <<>>
  BY <1>1 DEF PipeFlow, FlowEnds
<1> QED
  BY <1>1, <1>2, <1>3, FlowStays

LEMMA KidAside ==
  ASSUME PipeFlow, NEW p \in {"reader", "callee"}, NEW a, NEW b, Goes(p, a, b),
         results' = results, wp' = wp,
         content'["pipe1"] = content["pipe1"], content'["pipe2"] = content["pipe2"]
  PROVE  PipeFlow'
<1>1. /\ pc'["generator"] = pc["generator"] /\ line'["generator"] = line["generator"]
      /\ pc'["squarer"] = pc["squarer"] /\ line'["squarer"] = line["squarer"]
      /\ pc'["parent"] = pc["parent"] /\ line'["parent"] = line["parent"]
  BY Members DEF Goes
<1>2. Over("parent")' \/ ~Over("parent")
  BY <1>1 DEF Over
<1>3. /\ pc'["generator"] \in {"exit", "done"} => line["generator"] = Lines
      /\ pc'["squarer"] \in {"exit", "done"} => wp = <<>>
  BY <1>1 DEF PipeFlow, FlowEnds
<1> QED
  BY <1>1, <1>2, <1>3, FlowStays

LEMMA GeneratorAside ==
  ASSUME PipeFlow, NEW a, NEW b, Goes("generator", a, b),
         results' = results, wp' = wp, line'["generator"] = line["generator"],
         content'["pipe1"] = content["pipe1"], content'["pipe2"] = content["pipe2"],
         b \in {"exit", "done"} => line["generator"] = Lines
  PROVE  PipeFlow'
<1>1. /\ pc'["generator"] = b
      /\ pc'["squarer"] = pc["squarer"] /\ line'["squarer"] = line["squarer"]
      /\ pc'["parent"] = pc["parent"] /\ line'["parent"] = line["parent"]
  BY Members DEF Goes
<1>2. Over("parent")' \/ ~Over("parent")
  BY <1>1 DEF Over
<1>3. pc'["squarer"] \in {"exit", "done"} => wp = <<>>
  BY <1>1 DEF PipeFlow, FlowEnds
<1> QED
  BY <1>1, <1>2, <1>3, FlowStays

LEMMA SquarerAside ==
  ASSUME PipeFlow, NEW a, NEW b, Goes("squarer", a, b),
         results' = results, wp' = wp,
         content'["pipe1"] = content["pipe1"], content'["pipe2"] = content["pipe2"],
         a \notin {"print", "killed", "shot"}, b # "print",
         b \in {"exit", "done"} => wp = <<>>
  PROVE  PipeFlow'
<1>1. /\ pc["squarer"] = a /\ pc'["squarer"] = b
      /\ pc'["generator"] = pc["generator"] /\ line'["generator"] = line["generator"]
      /\ pc'["parent"] = pc["parent"] /\ line'["parent"] = line["parent"]
  BY Members DEF Goes
<1>2. Over("parent")' \/ ~Over("parent")
  BY <1>1 DEF Over
<1>3. pc'["generator"] \in {"exit", "done"} => line["generator"] = Lines
  BY <1>1 DEF PipeFlow, FlowEnds
<1> QED
  BY <1>1, <1>2, <1>3, FlowStays

LEMMA SimpleFlow ==
  ASSUME PipeFlow, SimpleMoves
  PROVE  PipeFlow'
<1>1. \E a, b : /\ Goes("parent", a, b)
                /\ a \notin {"print_3", "done", "killed", "shot"} /\ b # "print_3"
  BY DEF SimpleMoves, Opens, Closes, Writes, Dies
<1>2. /\ results' = results /\ wp' = wp
      /\ content'["pipe1"] = content["pipe1"] /\ content'["pipe2"] = content["pipe2"]
  BY Members DEF SimpleMoves, Opens, Closes, Writes, Dies, Puts
<1> QED
  BY <1>1, <1>2, ParentAside

LEMMA BidirectionalFlow ==
  ASSUME PipeFlow, BidirectionalMoves
  PROVE  PipeFlow'
<1>1. \E a, b : /\ Goes("parent", a, b)
                /\ a \notin {"print_3", "done", "killed", "shot"} /\ b # "print_3"
  BY DEF BidirectionalMoves, Opens, Closes, Writes, Reads, Finds, Dies
<1>2. /\ results' = results /\ wp' = wp
      /\ content'["pipe1"] = content["pipe1"] /\ content'["pipe2"] = content["pipe2"]
  BY Members
     DEF BidirectionalMoves, Opens, Closes, Writes, Reads, Finds, Dies, Puts,
         Takes
<1> QED
  BY <1>1, <1>2, ParentAside

LEMMA PipelineFlow ==
  ASSUME Typed, Typed', PipeFlow, PipelineMoves
  PROVE  PipeFlow'
<1>1. CASE Reads("parent", "read_3", "pipe2", "print_3")
  BY <1>1, FlowReads
<1>2. CASE Prints
  BY <1>2, FlowPrints
<1>3. ASSUME ~Reads("parent", "read_3", "pipe2", "print_3"), ~Prints
      PROVE  PipeFlow'
  <2>1. \E a, b : /\ Goes("parent", a, b)
                  /\ a \notin {"print_3", "done", "killed", "shot"} /\ b # "print_3"
    BY <1>3 DEF PipelineMoves, Opens, Closes, Finds, Dies
  <2>2. /\ results' = results /\ wp' = wp
        /\ content'["pipe1"] = content["pipe1"] /\ content'["pipe2"] = content["pipe2"]
    BY <1>3 DEF PipelineMoves, Opens, Closes, Finds, Dies
  <2> QED
    BY <2>1, <2>2, ParentAside
<1> QED
  BY <1>1, <1>2, <1>3

LEMMA ReaderFlow ==
  ASSUME PipeFlow, ReaderTable
  PROVE  PipeFlow'
<1>1. \E a, b : Goes("reader", a, b)
  BY DEF ReaderTable, Closes, Reads, Finds, Dies
<1>2. /\ results' = results /\ wp' = wp
      /\ content'["pipe1"] = content["pipe1"] /\ content'["pipe2"] = content["pipe2"]
  BY Members DEF ReaderTable, Closes, Reads, Finds, Dies, Takes
<1> QED
  BY <1>1, <1>2, KidAside

LEMMA CalleeFlow ==
  ASSUME PipeFlow, CalleeTable
  PROVE  PipeFlow'
<1>1. \E a, b : Goes("callee", a, b)
  BY DEF CalleeTable, Closes, Reads, Finds, Writes, Dies
<1>2. /\ results' = results /\ wp' = wp
      /\ content'["pipe1"] = content["pipe1"] /\ content'["pipe2"] = content["pipe2"]
  BY Members DEF CalleeTable, Closes, Reads, Finds, Writes, Dies, Takes, Puts
<1> QED
  BY <1>1, <1>2, KidAside

LEMMA GeneratorFlow ==
  ASSUME Typed, Typed', PipeFlow, GeneratorTable
  PROVE  PipeFlow'
<1>1. CASE Generates
  BY <1>1, FlowGenerates
<1>2. ASSUME ~Generates
      PROVE  PipeFlow'
  <2>1. /\ results' = results /\ wp' = wp /\ line'["generator"] = line["generator"]
        /\ content'["pipe1"] = content["pipe1"] /\ content'["pipe2"] = content["pipe2"]
    BY <1>2 DEF GeneratorTable, Closes, GeneratesAll, Dies
  <2>2. \E a, b : /\ Goes("generator", a, b)
                  /\ b \in {"exit", "done"} => line["generator"] = Lines
    BY <1>2
       DEF GeneratorTable, Closes, GeneratesAll, Dies, Goes, PipeFlow, FlowEnds
  <2> QED
    BY <2>1, <2>2, GeneratorAside
<1> QED
  BY <1>1, <1>2

LEMMA SquarerFlow ==
  ASSUME Typed, Typed', PipeFlow, SquarerTable
  PROVE  PipeFlow'
<1>1. CASE Reads("squarer", "read", "pipe1", "print")
  BY <1>1, FlowTakes
<1>2. CASE Squares
  BY <1>2, FlowSquares
<1>3. CASE Flushes
  BY <1>3, FlowFlushes
<1>4. ASSUME ~Reads("squarer", "read", "pipe1", "print"), ~Squares, ~Flushes
      PROVE  PipeFlow'
  <2>1. /\ results' = results /\ wp' = wp
        /\ content'["pipe1"] = content["pipe1"] /\ content'["pipe2"] = content["pipe2"]
    BY <1>4 DEF SquarerTable, Closes, Finds, FlushesAll, Dies
  <2>2. \E a, b : /\ Goes("squarer", a, b)
                  /\ a \notin {"print", "killed", "shot"} /\ b # "print"
                  /\ b \in {"exit", "done"} => wp = <<>>
    BY <1>4
       DEF SquarerTable, Closes, Finds, FlushesAll, Dies, Goes, PipeFlow,
           FlowEnds
  <2> QED
    BY <2>1, <2>2, SquarerAside
<1> QED
  BY <1>1, <1>2, <1>3, <1>4

LEMMA WaitFlow ==
  ASSUME PipeFlow, NEW a, NEW b, Waits(a, b),
         a \notin {"print_3", "done", "killed", "shot"}, b # "print_3"
  PROVE  PipeFlow'
<1>1. /\ pc'["generator"] = pc["generator"] /\ pc'["squarer"] = pc["squarer"]
      /\ pc["parent"] = a /\ pc'["parent"] = b
      /\ content' = content /\ line' = line /\ wp' = wp /\ results' = results
  BY Members DEF Waits
<1>2. ~Over("parent")
  BY <1>1 DEF Over
<1>3. /\ pc'["generator"] \in {"exit", "done"} => line["generator"] = Lines
      /\ pc'["squarer"] \in {"exit", "done"} => wp = <<>>
  BY <1>1 DEF PipeFlow, FlowEnds
<1> QED
  BY <1>1, <1>2, <1>3, FlowStays

\* Which child is forked where.
ForkPlan ==
    {<<"fork_1", "reader", "close_1">>, <<"fork_1", "reader", "exit">>,
     <<"fork_2", "callee", "close_2">>, <<"fork_gen", "generator", "fork_sq">>,
     <<"fork_sq", "squarer", "close_3">>}

LEMMA ForkFlow ==
  ASSUME PipeFlow, PipeOrder, NEW a, NEW k, NEW b, Forks(a, k, b) \/ ForksNot(a, k, b),
         <<a, k, b>> \in ForkPlan
  PROVE  PipeFlow'
<1>1. /\ pc["parent"] = a /\ pc'["parent"] = b /\ pc'[k] \in {"begin", "unforked"}
      /\ \A q \in AllProcesses \ {"parent", k} : pc'[q] = pc[q]
      /\ content' = content /\ line' = line /\ wp' = wp /\ results' = results
  BY DEF Forks, ForksNot
<1>2. ~Over("parent")
  BY <1>1 DEF Over, ForkPlan
<1>3. pc["squarer"] = "none" /\ pc'["squarer"] \in {"none", "begin", "unforked"}
  BY <1>1, Members DEF PipeOrder, ForkPlan
<1>4. \/ pc'["generator"] = pc["generator"]
      \/ pc'["generator"] \in {"begin", "unforked"}
  BY <1>1, Members DEF ForkPlan
<1>5. pc'["generator"] \in {"exit", "done"} => line["generator"] = Lines
  BY <1>4 DEF PipeFlow, FlowEnds
<1>6. a # "print_3" /\ b # "print_3"
  BY DEF ForkPlan
<1> QED
  BY <1>1, <1>2, <1>3, <1>5, <1>6, FlowStays

-----------------------------------------------------------------------------
(* The messages of the call.                                               *)

LEMMA CallAppended ==
  ASSUME NEW s \in Seq(Nat), NEW m \in Nat, AllAre(s, m)
  PROVE  AllAre(Append(s, m), m) /\ Append(s, m) # <<>>
<1>1. /\ Append(s, m) # <<>>
      /\ \A k \in 1..Len(Append(s, m)) : \/ k \in 1..Len(s) /\ Append(s, m)[k] = s[k]
                                         \/ Append(s, m)[k] = m
  OBVIOUS
<1> QED
  BY <1>1 DEF AllAre

LEMMA CallTaken ==
  ASSUME NEW s \in Seq(Nat), NEW m \in Nat, AllAre(s, m), s # <<>>
  PROVE  AllAre(Tail(s), m) /\ Head(s) = m
<1>1. /\ 1 \in 1..Len(s) /\ Head(s) = s[1]
      /\ \A k \in 1..Len(Tail(s)) : k + 1 \in 1..Len(s) /\ Tail(s)[k] = s[k + 1]
  OBVIOUS
<1> QED
  BY <1>1 DEF AllAre

LEMMA CallStays ==
  ASSUME PipeCall, content'["pipe_p2c"] = content["pipe_p2c"],
         content'["pipe_c2p"] = content["pipe_c2p"]
  PROVE  PipeCall'
BY DEF PipeCall

LEMMA CallTypes ==
  Typed => content["pipe_p2c"] \in Seq(Nat) /\ content["pipe_c2p"] \in Seq(Nat)
BY Members DEF Typed, KernelOK

LEMMA SimpleCall ==
  ASSUME PipeCall, SimpleMoves
  PROVE  PipeCall'
<1>1. content'["pipe_p2c"] = content["pipe_p2c"] /\ content'["pipe_c2p"] = content["pipe_c2p"]
  BY Members DEF SimpleMoves, Opens, Closes, Writes, Dies, Puts
<1> QED
  BY <1>1, CallStays

LEMMA ReaderCall ==
  ASSUME PipeCall, ReaderTable
  PROVE  PipeCall'
<1>1. content'["pipe_p2c"] = content["pipe_p2c"] /\ content'["pipe_c2p"] = content["pipe_c2p"]
  BY Members DEF ReaderTable, Closes, Reads, Finds, Dies, Takes
<1> QED
  BY <1>1, CallStays

LEMMA PipelineCall ==
  ASSUME PipeCall, PipelineMoves
  PROVE  PipeCall'
<1>1. content'["pipe_p2c"] = content["pipe_p2c"] /\ content'["pipe_c2p"] = content["pipe_c2p"]
  BY Members DEF PipelineMoves, Opens, Closes, Reads, Prints, Finds, Dies, Takes
<1> QED
  BY <1>1, CallStays

LEMMA GeneratorCall ==
  ASSUME PipeCall, GeneratorTable
  PROVE  PipeCall'
<1>1. content'["pipe_p2c"] = content["pipe_p2c"] /\ content'["pipe_c2p"] = content["pipe_c2p"]
  BY Members DEF GeneratorTable, Closes, Generates, GeneratesAll, Dies, Puts
<1> QED
  BY <1>1, CallStays

LEMMA SquarerCall ==
  ASSUME PipeCall, SquarerTable
  PROVE  PipeCall'
<1>1. content'["pipe_p2c"] = content["pipe_p2c"] /\ content'["pipe_c2p"] = content["pipe_c2p"]
  BY Members
     DEF SquarerTable, Closes, Reads, Squares, Finds, Flushes, FlushesAll,
         Dies, Takes,
     Puts
<1> QED
  BY <1>1, CallStays

LEMMA BidirectionalCall ==
  ASSUME Typed, PipeCall, BidirectionalMoves
  PROVE  PipeCall'
<1>1. CASE Writes("parent", "write_2", "pipe_p2c", Pipe!Call, "read_2")
  <2>1. /\ content'["pipe_p2c"] = Append(content["pipe_p2c"], Pipe!Call)
        /\ content'["pipe_c2p"] = content["pipe_c2p"]
    BY <1>1, Members DEF Writes, Puts
  <2>2. AllAre(content["pipe_p2c"], Pipe!Call) /\ AllAre(content["pipe_c2p"], Pipe!Answer)
    BY DEF PipeCall
  <2>3. AllAre(content'["pipe_p2c"], Pipe!Call)
    BY <2>1, <2>2, CallTypes, CallAppended, Members
  <2> QED
    BY <2>1, <2>2, <2>3 DEF PipeCall
<1>2. CASE Reads("parent", "read_2", "pipe_c2p", "shut_2")
  <2>1. /\ content["pipe_c2p"] # <<>>
        /\ content'["pipe_c2p"] = Tail(content["pipe_c2p"])
        /\ content'["pipe_p2c"] = content["pipe_p2c"]
    BY <1>2, Members DEF Reads, Takes
  <2>2. AllAre(content["pipe_p2c"], Pipe!Call) /\ AllAre(content["pipe_c2p"], Pipe!Answer)
    BY DEF PipeCall
  <2>3. AllAre(content'["pipe_c2p"], Pipe!Answer)
    BY <2>1, <2>2, CallTypes, CallTaken, Members
  <2> QED
    BY <2>1, <2>2, <2>3 DEF PipeCall
<1>3. ASSUME ~Writes("parent", "write_2", "pipe_p2c", Pipe!Call, "read_2"),
             ~Reads("parent", "read_2", "pipe_c2p", "shut_2")
      PROVE  PipeCall'
  <2>1. content' = content
    BY <1>3 DEF BidirectionalMoves, Opens, Closes, Finds, Dies
  <2> QED
    BY <2>1, CallStays
<1> QED
  BY <1>1, <1>2, <1>3

LEMMA CalleeCall ==
  ASSUME Typed, PipeCall, CalleeTable
  PROVE  PipeCall'
<1>1. CASE Writes("callee", "write", "pipe_c2p", Pipe!Answer, "close")
  <2>1. /\ content'["pipe_c2p"] = Append(content["pipe_c2p"], Pipe!Answer)
        /\ content'["pipe_p2c"] = content["pipe_p2c"]
    BY <1>1, Members DEF Writes, Puts
  <2>2. AllAre(content["pipe_p2c"], Pipe!Call) /\ AllAre(content["pipe_c2p"], Pipe!Answer)
    BY DEF PipeCall
  <2>3. AllAre(content'["pipe_c2p"], Pipe!Answer)
    BY <2>1, <2>2, CallTypes, CallAppended, Members
  <2> QED
    BY <2>1, <2>2, <2>3 DEF PipeCall
<1>2. CASE Reads("callee", "read", "pipe_p2c", "write")
  <2>1. /\ content["pipe_p2c"] # <<>>
        /\ content'["pipe_p2c"] = Tail(content["pipe_p2c"])
        /\ content'["pipe_c2p"] = content["pipe_c2p"]
    BY <1>2, Members DEF Reads, Takes
  <2>2. AllAre(content["pipe_p2c"], Pipe!Call) /\ AllAre(content["pipe_c2p"], Pipe!Answer)
    BY DEF PipeCall
  <2>3. AllAre(content'["pipe_p2c"], Pipe!Call)
    BY <2>1, <2>2, CallTypes, CallTaken, Members
  <2> QED
    BY <2>1, <2>2, <2>3 DEF PipeCall
<1>3. ASSUME ~Writes("callee", "write", "pipe_c2p", Pipe!Answer, "close"),
             ~Reads("callee", "read", "pipe_p2c", "write")
      PROVE  PipeCall'
  <2>1. content' = content
    BY <1>3 DEF CalleeTable, Closes, Finds, Dies
  <2> QED
    BY <2>1, CallStays
<1> QED
  BY <1>1, <1>2, <1>3

-----------------------------------------------------------------------------
(* While nothing fails nobody is missed.                                   *)

\* Who writes has somebody who can read ...
LEMMA Listeners ==
  ASSUME PipeHeld, QuietReader, QuietCallee, QuietNumbers
  PROVE  /\ pc["parent"] = "write_1" => ~Deaf("pipefd")
         /\ pc["parent"] = "write_2" => ~Deaf("pipe_p2c")
         /\ pc["callee"] = "write" => ~Deaf("pipe_c2p")
         /\ pc["generator"] = "write" => ~Deaf("pipe1")
         /\ pc["squarer"] = "flush" => ~Deaf("pipe2")
<1>1. ASSUME pc["parent"] = "write_1"
      PROVE  <<"pipefd", "r">> \in held["reader"]
  BY <1>1 DEF QuietReader, PipeHeld, ReaderHeld, Both
<1>2. ASSUME pc["parent"] = "write_2"
      PROVE  <<"pipe_p2c", "r">> \in held["callee"]
  BY <1>2 DEF QuietCallee, PipeHeld, CalleeHeld, Both
<1>3. ASSUME pc["callee"] = "write"
      PROVE  <<"pipe_c2p", "r">> \in held["parent"]
  BY <1>3 DEF QuietCallee, PipeHeld, ParentHeld, Both
<1>4. ASSUME pc["generator"] = "write"
      PROVE  <<"pipe1", "r">> \in held["parent"] \/ <<"pipe1", "r">> \in held["squarer"]
  <2>1. CASE pc["parent"] \in {"fork_sq", "close_3"}
    BY <2>1 DEF PipeHeld, ParentHeld, Both
  <2>2. CASE pc["squarer"] \in {"begin", "read", "print"}
    BY <2>2 DEF PipeHeld, SquarerHeld, Both
  <2> QED
    BY <1>4, <2>1, <2>2 DEF QuietNumbers
<1>5. ASSUME pc["squarer"] = "flush"
      PROVE  <<"pipe2", "r">> \in held["parent"]
  <2>1. pc["parent"] \in {"close_3", "read_3", "print_3"}
    BY <1>5 DEF QuietNumbers
  <2> QED
    BY <2>1 DEF PipeHeld, ParentHeld, Both
<1> QED
  BY <1>1, <1>2, <1>3, <1>4, <1>5, Members DEF Deaf

\* ... and who reads finds the end only when all is written.
LEMMA Talkers ==
  ASSUME PipePlaces, PipeOrder, PipeHeld, AllQuiet, Pipe!NothingFailed
  PROVE  /\ pc["parent"] \in {"close_1", "write_1"} => ~Shut("pipefd")
         /\ pc["callee"] = "read" => ~Shut("pipe_p2c")
         /\ pc["parent"] = "read_2" => ~Shut("pipe_c2p")
         /\ pc["squarer"] = "read" /\ Shut("pipe1") => pc["generator"] \in {"exit", "done"}
         /\ pc["parent"] = "read_3" /\ Shut("pipe2") => pc["squarer"] \in {"exit", "done"}
<1>1. \A p \in AllProcesses : pc[p] \notin {"unforked", "shot", "killed"}
  BY DEF Pipe!NothingFailed, AllQuiet, NoneKilled
<1>2. ASSUME pc["parent"] \in {"close_1", "write_1"}
      PROVE  <<"pipefd", "w">> \in held["parent"]
  BY <1>2 DEF PipeHeld, ParentHeld, Both
<1>3. ASSUME pc["callee"] = "read"
      PROVE  <<"pipe_p2c", "w">> \in held["parent"]
  <2>1. pc["parent"] \in {"close_2", "write_2", "read_2"}
    BY <1>3 DEF AllQuiet, QuietCallee
  <2> QED
    BY <2>1 DEF PipeHeld, ParentHeld, Both
<1>4. ASSUME pc["parent"] = "read_2"
      PROVE  <<"pipe_c2p", "w">> \in held["callee"] \/ content["pipe_c2p"] # <<>>
  <2>1. CASE pc["callee"] \in {"begin", "read", "write"}
    BY <2>1 DEF PipeHeld, CalleeHeld, Both
  <2> QED
    BY <1>4, <2>1 DEF AllQuiet, QuietCallee
<1>5. ASSUME pc["squarer"] = "read"
      PROVE  <<"pipe1", "w">> \in held["generator"] \/ pc["generator"] \in {"exit", "done"}
  <2>1. pc["parent"] \in {"close_3", "read_3", "print_3"}
    BY <1>5 DEF AllQuiet, QuietNumbers
  <2>2. pc["generator"] \in {"begin", "write", "exit", "done"}
    BY <1>1, <2>1, Members DEF PipeOrder, PipePlaces
  <2> QED
    BY <2>2 DEF PipeHeld, GeneratorHeld, Both
<1>6. ASSUME pc["parent"] = "read_3"
      PROVE  <<"pipe2", "w">> \in held["squarer"] \/ pc["squarer"] \in {"exit", "done"}
  <2>1. pc["squarer"] \in {"begin", "read", "print", "close", "flush", "exit", "done"}
    BY <1>1, <1>6, Members DEF PipeOrder, PipePlaces
  <2> QED
    BY <2>1 DEF PipeHeld, SquarerHeld, Both
<1> QED
  BY <1>2, <1>3, <1>4, <1>5, <1>6, Members DEF Shut

LEMMA ReaderAside ==
  ASSUME QuietReader, pc'["reader"] = pc["reader"], content'["pipefd"] = content["pipefd"],
         \/ pc'["parent"] = pc["parent"]
         \/ pc'["parent"] \notin {"close_1", "write_1", "pipe_1", "fork_1"}
  PROVE  QuietReader'
BY DEF QuietReader

LEMMA CalleeAside ==
  ASSUME QuietCallee, pc'["callee"] = pc["callee"], line'["callee"] = line["callee"],
         content'["pipe_p2c"] = content["pipe_p2c"],
         content'["pipe_c2p"] = content["pipe_c2p"],
         \/ pc'["parent"] = pc["parent"] /\ line'["parent"] = line["parent"]
         \/ /\ pc["parent"] \notin {"close_2", "write_2", "read_2"}
            /\ pc'["parent"] \notin {"close_2", "write_2", "read_2", "shut_2"}
  PROVE  QuietCallee'
BY DEF QuietCallee

LEMMA NumbersAside ==
  ASSUME QuietNumbers, pc'["generator"] = pc["generator"], pc'["squarer"] = pc["squarer"],
         content'["pipe1"] = content["pipe1"], results' = results,
         \/ pc'["parent"] = pc["parent"]
         \/ /\ pc["parent"] \notin {"fork_sq", "close_3", "read_3", "print_3"}
            /\ pc'["parent"] \notin {"shut_3", "wait_3"}
  PROVE  QuietNumbers'
BY DEF QuietNumbers

LEMMA SimpleQuiet ==
  ASSUME PipeOrder, PipeHeld, AllQuiet, SimpleMoves
  PROVE  AllQuiet'
<1>1. /\ \/ pc["parent"] = "pipe_1" /\ pc'["parent"] \in {"fork_1", "exit"}
         \/ pc["parent"] = "close_1" /\ pc'["parent"] = "write_1"
         \/ pc["parent"] = "write_1" /\ pc'["parent"] = "shut_1"
         \/ pc["parent"] = "shut_1" /\ pc'["parent"] = "wait_1"
  BY Listeners DEF AllQuiet, SimpleMoves, Opens, Closes, Writes, Dies, Goes
<1>2. /\ \A q \in AllProcesses \ {"parent"} : pc'[q] = pc[q] /\ line'[q] = line[q]
      /\ \A x \in PipeNames \ {"pipefd"} : content'[x] = content[x]
      /\ results' = results
  BY DEF SimpleMoves, Opens, Closes, Writes, Dies, Goes, Puts
<1>3. pc'["parent"] \in {"fork_1", "write_1"} => content' = content
  BY DEF SimpleMoves, Opens, Closes, Writes, Dies, Goes
<1>4. NoneKilled'
  BY <1>1, <1>2 DEF AllQuiet, NoneKilled
<1>5. QuietReader'
  BY <1>1, <1>2, <1>3, Members DEF AllQuiet, QuietReader
<1>6. QuietCallee'
  BY <1>1, <1>2, Members, CalleeAside DEF AllQuiet
<1>7. QuietNumbers'
  BY <1>1, <1>2, Members, NumbersAside DEF AllQuiet
<1> QED
  BY <1>4, <1>5, <1>6, <1>7 DEF AllQuiet

LEMMA ReaderQuiet ==
  ASSUME PipePlaces, PipeOrder, PipeHeld, AllQuiet, Pipe!NothingFailed, ReaderTable
  PROVE  AllQuiet'
<1>1. \/ pc["reader"] = "begin" /\ pc'["reader"] = "read"
      \/ pc["reader"] = "read" /\ pc'["reader"] = "close" /\ content["pipefd"] # <<>>
      \/ pc["reader"] = "read" /\ pc'["reader"] = "close" /\ Shut("pipefd")
      \/ pc["reader"] = "close" /\ pc'["reader"] = "exit"
      \/ pc["reader"] = "exit" /\ pc'["reader"] = "done"
  BY DEF ReaderTable, Closes, Reads, Finds, Dies, Goes, Takes
<1>2. /\ \A q \in AllProcesses \ {"reader"} : pc'[q] = pc[q] /\ line'[q] = line[q]
      /\ \A x \in PipeNames \ {"pipefd"} : content'[x] = content[x]
      /\ results' = results
  BY DEF ReaderTable, Closes, Reads, Finds, Dies, Goes, Takes
<1>3. content["pipefd"] = <<>> => content'["pipefd"] = <<>>
  BY DEF ReaderTable, Closes, Reads, Finds, Dies, Takes
<1>4. NoneKilled'
  BY <1>1, <1>2 DEF AllQuiet, NoneKilled
<1>5. pc["parent"] \in {"close_1", "write_1"} => ~Shut("pipefd")
  BY Talkers
<1>6. QuietReader'
  BY <1>1, <1>2, <1>3, <1>5, Members DEF AllQuiet, QuietReader
<1>7. QuietCallee'
  BY <1>2, Members, CalleeAside DEF AllQuiet
<1>8. QuietNumbers'
  BY <1>2, Members, NumbersAside DEF AllQuiet
<1> QED
  BY <1>4, <1>6, <1>7, <1>8 DEF AllQuiet

LEMMA BidirectionalQuiet ==
  ASSUME Typed, PipePlaces, PipeOrder, PipeHeld, PipeCall, AllQuiet, Pipe!NothingFailed,
         BidirectionalMoves
  PROVE  AllQuiet'
<1>1. /\ pc["parent"] = "write_2" => ~Deaf("pipe_p2c")
      /\ pc["parent"] = "read_2" => ~Shut("pipe_c2p")
  BY Listeners, Talkers DEF AllQuiet
<1>2. /\ \/ /\ pc["parent"] = "pipe_2" /\ pc'["parent"] \in {"fork_2", "exit"}
            /\ content' = content
         \/ pc["parent"] = "close_2" /\ pc'["parent"] = "write_2" /\ content' = content
         \/ /\ pc["parent"] = "write_2" /\ pc'["parent"] = "read_2"
            /\ content'["pipe_c2p"] = content["pipe_c2p"]
         \/ /\ pc["parent"] = "read_2" /\ pc'["parent"] = "shut_2"
            /\ content["pipe_c2p"] # <<>> /\ line'["parent"] = Head(content["pipe_c2p"])
            /\ content'["pipe_p2c"] = content["pipe_p2c"]
         \/ pc["parent"] = "shut_2" /\ pc'["parent"] = "wait_2" /\ content' = content
  BY <1>1, Members
     DEF BidirectionalMoves, Opens, Closes, Writes, Reads, Finds, Dies, Goes,
         Puts, Takes
<1>3. /\ \A q \in AllProcesses \ {"parent"} : pc'[q] = pc[q] /\ line'[q] = line[q]
      /\ content'["pipefd"] = content["pipefd"] /\ content'["pipe1"] = content["pipe1"]
      /\ results' = results
  BY Members
     DEF BidirectionalMoves, Opens, Closes, Writes, Reads, Finds, Dies, Goes,
         Puts, Takes
<1>4. content["pipe_c2p"] # <<>> => Head(content["pipe_c2p"]) = Pipe!Answer
  BY CallTypes, CallTaken, Members DEF PipeCall
<1>5. NoneKilled'
  BY <1>2, <1>3 DEF AllQuiet, NoneKilled
<1>6. QuietCallee'
  <2>1. pc'["callee"] = pc["callee"] /\ line'["callee"] = line["callee"]
    BY <1>3, Members
  <2> QED
    BY <1>2, <1>4, <2>1 DEF AllQuiet, QuietCallee
<1>7. QuietReader'
  BY <1>2, <1>3, Members, ReaderAside DEF AllQuiet
<1>8. QuietNumbers'
  BY <1>2, <1>3, Members, NumbersAside DEF AllQuiet
<1> QED
  BY <1>5, <1>6, <1>7, <1>8 DEF AllQuiet

LEMMA CalleeQuiet ==
  ASSUME Typed, PipePlaces, PipeOrder, PipeHeld, PipeCall, AllQuiet, Pipe!NothingFailed,
         CalleeTable
  PROVE  AllQuiet'
<1>1. /\ pc["callee"] = "write" => ~Deaf("pipe_c2p")
      /\ pc["callee"] = "read" => ~Shut("pipe_p2c")
  BY Listeners, Talkers DEF AllQuiet
<1>2. \/ /\ pc["callee"] = "begin" /\ pc'["callee"] = "read" /\ content' = content
      \/ /\ pc["callee"] = "read" /\ pc'["callee"] = "write"
         /\ content["pipe_p2c"] # <<>> /\ line'["callee"] = Head(content["pipe_p2c"])
         /\ content'["pipe_c2p"] = content["pipe_c2p"]
      \/ /\ pc["callee"] = "write" /\ pc'["callee"] = "close"
         /\ line'["callee"] = line["callee"]
         /\ content'["pipe_c2p"] = Append(content["pipe_c2p"], Pipe!Answer)
         /\ content'["pipe_p2c"] = content["pipe_p2c"]
      \/ pc["callee"] = "close" /\ pc'["callee"] = "exit" /\ content' = content
      \/ pc["callee"] = "exit" /\ pc'["callee"] = "done" /\ content' = content
  BY <1>1, Members
     DEF CalleeTable, Closes, Reads, Finds, Writes, Dies, Goes, Takes, Puts
<1>3. /\ \A q \in AllProcesses \ {"callee"} : pc'[q] = pc[q] /\ line'[q] = line[q]
      /\ content'["pipefd"] = content["pipefd"] /\ content'["pipe1"] = content["pipe1"]
      /\ results' = results
  BY Members
     DEF CalleeTable, Closes, Reads, Finds, Writes, Dies, Goes, Takes, Puts
<1>4. /\ content["pipe_p2c"] # <<>> => Head(content["pipe_p2c"]) = Pipe!Call
      /\ Append(content["pipe_c2p"], Pipe!Answer) # <<>>
  BY CallTypes, CallTaken, CallAppended, Members DEF PipeCall
<1>5. NoneKilled'
  BY <1>2, <1>3 DEF AllQuiet, NoneKilled
<1>6. QuietCallee'
  <2>1. pc'["parent"] = pc["parent"] /\ line'["parent"] = line["parent"]
    BY <1>3, Members
  <2> QED
    BY <1>2, <1>4, <2>1 DEF AllQuiet, QuietCallee
<1>7. QuietReader'
  BY <1>3, Members, ReaderAside DEF AllQuiet
<1>8. QuietNumbers'
  BY <1>3, Members, NumbersAside DEF AllQuiet
<1> QED
  BY <1>5, <1>6, <1>7, <1>8 DEF AllQuiet

\* When the parent has read to the end all the numbers have come through.
LEMMA AllCameThrough ==
  ASSUME Typed, PipePlaces, PipeOrder, PipeHeld, PipeFlow, AllQuiet, Pipe!NothingFailed,
         pc["parent"] = "read_3", Shut("pipe2")
  PROVE  /\ pc["squarer"] \in {"exit", "done"} /\ pc["generator"] \in {"exit", "done"}
         /\ Len(results) = Lines
<1>1. pc["squarer"] \in {"exit", "done"}
  BY Talkers
<1>2. pc["generator"] \in {"exit", "done"} /\ content["pipe1"] = <<>>
  BY <1>1 DEF AllQuiet, QuietNumbers
<1>3. line["generator"] = Lines /\ wp = <<>>
  BY <1>1, <1>2 DEF PipeFlow, FlowEnds
<1>4. content["pipe2"] = <<>>
  BY DEF Shut
<1>5. line["generator"] = Taken + Len(content["pipe1"])
  BY <1>1 DEF PipeFlow, FlowBehind, Over
<1>6. /\ Taken = Squared /\ Squared = Through + Len(wp)
      /\ Through = Out + Len(content["pipe2"]) /\ Out = Len(results)
      /\ Len(results) \in Nat /\ Taken \in Nat /\ Through \in Nat /\ Out \in Nat
  BY <1>1, Counts DEF Sums
<1>7. Len(<<>>) = 0
  OBVIOUS
<1>8. Through = Out /\ Squared = Through /\ line["generator"] = Taken
  BY <1>2, <1>3, <1>4, <1>5, <1>6, <1>7
<1> QED
  BY <1>1, <1>2, <1>3, <1>6, <1>8

LEMMA PipelineQuiet ==
  ASSUME Typed, PipePlaces, PipeOrder, PipeHeld, PipeFlow, AllQuiet, Pipe!NothingFailed,
         PipelineMoves
  PROVE  AllQuiet'
<1>1. /\ \/ pc["parent"] = "pipe_3" /\ pc'["parent"] = "fork_gen"
         \/ pc["parent"] = "close_3" /\ pc'["parent"] = "read_3"
         \/ pc["parent"] = "read_3" /\ pc'["parent"] = "print_3"
         \/ pc["parent"] = "print_3" /\ pc'["parent"] = "read_3"
         \/ /\ pc["parent"] = "read_3" /\ pc'["parent"] = "shut_3"
            /\ Shut("pipe2") /\ results' = results
         \/ pc["parent"] = "shut_3" /\ pc'["parent"] = "wait_3" /\ results' = results
         \/ pc["parent"] = "exit" /\ pc'["parent"] = "done"
  BY DEF PipelineMoves, Opens, Closes, Reads, Prints, Finds, Dies, Goes
<1>2. /\ \A q \in AllProcesses \ {"parent"} : pc'[q] = pc[q]
      /\ line'["callee"] = line["callee"]
      /\ \A x \in PipeNames \ {"pipe2"} : content'[x] = content[x]
  BY Members
     DEF PipelineMoves, Opens, Closes, Reads, Prints, Finds, Dies, Goes, Takes
<1>3. \A p \in AllProcesses : pc[p] \notin {"unforked", "shot", "killed"}
  BY DEF Pipe!NothingFailed, AllQuiet, NoneKilled
<1>4. pc["parent"] = "close_3" =>
         pc["squarer"] \in {"begin", "read", "print", "close", "flush", "exit", "done"}
  BY <1>3, Members DEF PipeOrder, PipePlaces
<1>5. pc["parent"] = "read_3" /\ Shut("pipe2") =>
         /\ pc["squarer"] \in {"exit", "done"} /\ pc["generator"] \in {"exit", "done"}
         /\ Len(results) = Lines
  BY AllCameThrough
<1>6. NoneKilled'
  BY <1>1, <1>2 DEF AllQuiet, NoneKilled
<1>7. QuietNumbers'
  <2>1. /\ pc'["generator"] = pc["generator"] /\ pc'["squarer"] = pc["squarer"]
        /\ content'["pipe1"] = content["pipe1"]
    BY <1>2, Members
  <2> QED
    BY <1>1, <1>4, <1>5, <2>1 DEF AllQuiet, QuietNumbers
<1>8. QuietReader'
  BY <1>1, <1>2, Members, ReaderAside DEF AllQuiet
<1>9. QuietCallee'
  BY <1>1, <1>2, Members, CalleeAside DEF AllQuiet
<1> QED
  BY <1>6, <1>7, <1>8, <1>9 DEF AllQuiet

LEMMA GeneratorQuiet ==
  ASSUME PipeHeld, AllQuiet, GeneratorTable
  PROVE  AllQuiet'
<1>1. pc["generator"] = "write" => ~Deaf("pipe1")
  BY Listeners DEF AllQuiet
<1>2. \/ pc["generator"] = "begin" /\ pc'["generator"] = "write"
      \/ pc["generator"] = "write" /\ pc'["generator"] = "write"
      \/ pc["generator"] = "write" /\ pc'["generator"] = "exit" /\ content' = content
      \/ pc["generator"] = "exit" /\ pc'["generator"] = "done" /\ content' = content
  BY <1>1 DEF GeneratorTable, Closes, Generates, GeneratesAll, Dies, Goes
<1>3. /\ \A q \in AllProcesses \ {"generator"} : pc'[q] = pc[q] /\ line'[q] = line[q]
      /\ \A x \in PipeNames \ {"pipe1"} : content'[x] = content[x]
      /\ results' = results
  BY DEF GeneratorTable, Closes, Generates, GeneratesAll, Dies, Goes, Puts
<1>4. NoneKilled'
  BY <1>2, <1>3 DEF AllQuiet, NoneKilled
<1>5. QuietNumbers'
  <2>1. pc'["parent"] = pc["parent"] /\ pc'["squarer"] = pc["squarer"]
    BY <1>3, Members
  <2> QED
    BY <1>2, <1>3, <2>1 DEF AllQuiet, QuietNumbers
<1>6. QuietReader'
  BY <1>3, Members, ReaderAside DEF AllQuiet
<1>7. QuietCallee'
  BY <1>3, Members, CalleeAside DEF AllQuiet
<1> QED
  BY <1>4, <1>5, <1>6, <1>7 DEF AllQuiet

LEMMA SquarerQuiet ==
  ASSUME PipePlaces, PipeOrder, PipeHeld, AllQuiet, Pipe!NothingFailed, SquarerTable
  PROVE  AllQuiet'
<1>1. /\ pc["squarer"] = "flush" => ~Deaf("pipe2")
      /\ pc["squarer"] = "read" /\ Shut("pipe1") =>
            pc["generator"] \in {"exit", "done"} /\ content["pipe1"] = <<>>
  <2>1. pc["squarer"] = "flush" => ~Deaf("pipe2")
    BY Listeners DEF AllQuiet
  <2>2. pc["squarer"] = "read" /\ Shut("pipe1") => pc["generator"] \in {"exit", "done"}
    BY Talkers
  <2> QED
    BY <2>1, <2>2 DEF Shut
<1>2. \/ pc["squarer"] = "begin" /\ pc'["squarer"] = "read"
      \/ pc["squarer"] = "read" /\ pc'["squarer"] = "print"
      \/ pc["squarer"] = "print" /\ pc'["squarer"] = "read"
      \/ /\ pc["squarer"] = "read" /\ pc'["squarer"] = "close"
         /\ Shut("pipe1") /\ content' = content
      \/ pc["squarer"] = "close" /\ pc'["squarer"] = "flush" /\ content' = content
      \/ /\ pc["squarer"] = "flush" /\ pc'["squarer"] \in {"flush", "exit"}
         /\ content'["pipe1"] = content["pipe1"]
      \/ pc["squarer"] = "exit" /\ pc'["squarer"] = "done" /\ content' = content
  BY <1>1, Members
     DEF SquarerTable, Closes, Reads, Squares, Finds, Flushes, FlushesAll,
         Dies, Goes, Puts
<1>3. /\ \A q \in AllProcesses \ {"squarer"} : pc'[q] = pc[q] /\ line'[q] = line[q]
      /\ \A x \in PipeNames \ {"pipe1", "pipe2"} : content'[x] = content[x]
      /\ results' = results
  BY
     DEF SquarerTable, Closes, Reads, Squares, Finds, Flushes, FlushesAll,
         Dies, Goes, Puts,
     Takes
<1>4. NoneKilled'
  BY <1>2, <1>3 DEF AllQuiet, NoneKilled
<1>5. QuietNumbers'
  <2>1. pc'["parent"] = pc["parent"] /\ pc'["generator"] = pc["generator"]
    BY <1>3, Members
  <2> QED
    BY <1>1, <1>2, <1>3, <2>1 DEF AllQuiet, QuietNumbers
<1>6. QuietReader'
  BY <1>3, Members, ReaderAside DEF AllQuiet
<1>7. QuietCallee'
  BY <1>3, Members, CalleeAside DEF AllQuiet
<1> QED
  BY <1>4, <1>5, <1>6, <1>7 DEF AllQuiet

WaitPlan ==
    {<<"wait_1", "pipe_2">>, <<"wait_2", "pipe_3">>, <<"wait_3", "wait_4">>,
    <<"wait_4", "exit">>}

LEMMA WaitQuiet ==
  ASSUME AllQuiet, NEW a, NEW b, Waits(a, b), <<a, b>> \in WaitPlan
  PROVE  AllQuiet'
<1>1. /\ pc["parent"] = a /\ pc'["parent"] = b
      /\ \A q \in AllProcesses \ {"parent"} : pc'[q] = pc[q]
      /\ content' = content /\ line' = line /\ results' = results
  BY DEF Waits
<1>2. NoneKilled'
  BY <1>1 DEF AllQuiet, NoneKilled, WaitPlan
<1>3. /\ pc["parent"] \in {"wait_1", "wait_2", "wait_3", "wait_4"}
      /\ pc'["parent"] \in {"pipe_2", "pipe_3", "wait_4", "exit"}
  BY <1>1 DEF WaitPlan
<1>4. QuietReader'
  BY <1>1, <1>3, Members, ReaderAside DEF AllQuiet
<1>5. QuietCallee'
  BY <1>1, <1>3, Members, CalleeAside DEF AllQuiet
<1>6. QuietNumbers'
  BY <1>1, <1>3, Members, NumbersAside DEF AllQuiet
<1> QED
  BY <1>2, <1>4, <1>5, <1>6 DEF AllQuiet

LEMMA ForkQuiet ==
  ASSUME PipeOrder, AllQuiet, NEW a, NEW k, NEW b, Forks(a, k, b), <<a, k, b>> \in ForkPlan
  PROVE  AllQuiet'
<1>1. /\ pc["parent"] = a /\ pc'["parent"] = b /\ pc'[k] = "begin"
      /\ \A q \in AllProcesses \ {"parent", k} : pc'[q] = pc[q]
      /\ content' = content /\ line' = line /\ results' = results
  BY DEF Forks
<1>2. NoneKilled'
  BY <1>1 DEF AllQuiet, NoneKilled, ForkPlan
<1>3. ASSUME k = "reader" PROVE AllQuiet'
  <2>1. pc["parent"] = "fork_1" /\ pc'["parent"] \in {"close_1", "exit"}
    BY <1>1, <1>3 DEF ForkPlan
  <2>2. QuietReader'
    BY <1>1, <1>3, <2>1 DEF AllQuiet, QuietReader
  <2>3. QuietCallee'
    BY <1>1, <1>3, <2>1, Members, CalleeAside DEF AllQuiet
  <2>4. QuietNumbers'
    BY <1>1, <1>3, <2>1, Members, NumbersAside DEF AllQuiet
  <2> QED
    BY <1>2, <2>2, <2>3, <2>4 DEF AllQuiet
<1>4. ASSUME k = "callee" PROVE AllQuiet'
  <2>1. pc["parent"] = "fork_2" /\ pc'["parent"] = "close_2" /\ pc'["callee"] = "begin"
    BY <1>1, <1>4 DEF ForkPlan
  <2>2. QuietReader'
    BY <1>1, <1>4, <2>1, Members, ReaderAside DEF AllQuiet
  <2>3. pc["callee"] = "none"
    BY <2>1, Members DEF PipeOrder, AllQuiet, QuietCallee
  <2>4. QuietCallee'
    BY <1>1, <2>1, <2>3 DEF AllQuiet, QuietCallee
  <2>5. QuietNumbers'
    BY <1>1, <1>4, <2>1, Members, NumbersAside DEF AllQuiet
  <2> QED
    BY <1>2, <2>2, <2>4, <2>5 DEF AllQuiet
<1>5. ASSUME k = "generator" PROVE AllQuiet'
  <2>1. pc["parent"] = "fork_gen" /\ pc'["parent"] = "fork_sq"
    BY <1>1, <1>5 DEF ForkPlan
  <2>2. QuietReader'
    BY <1>1, <1>5, <2>1, Members, ReaderAside DEF AllQuiet
  <2>3. QuietCallee'
    BY <1>1, <1>5, <2>1, Members, CalleeAside DEF AllQuiet
  <2>4. pc'["squarer"] = "none"
    BY <1>1, <1>5, <2>1, Members DEF PipeOrder
  <2>5. QuietNumbers'
    BY <2>1, <2>4 DEF QuietNumbers
  <2> QED
    BY <1>2, <2>2, <2>3, <2>5 DEF AllQuiet
<1>6. ASSUME k = "squarer" PROVE AllQuiet'
  <2>1. pc["parent"] = "fork_sq" /\ pc'["parent"] = "close_3" /\ pc'["squarer"] = "begin"
    BY <1>1, <1>6 DEF ForkPlan
  <2>2. QuietReader'
    BY <1>1, <1>6, <2>1, Members, ReaderAside DEF AllQuiet
  <2>3. QuietCallee'
    BY <1>1, <1>6, <2>1, Members, CalleeAside DEF AllQuiet
  <2>4. QuietNumbers'
    BY <2>1 DEF QuietNumbers
  <2> QED
    BY <1>2, <2>2, <2>3, <2>4 DEF AllQuiet
<1> QED
  BY <1>3, <1>4, <1>5, <1>6 DEF ForkPlan

\* What has not failed after a step had not failed before it.
LEMMA QuietBefore ==
  /\ \A p \in AllProcesses : Advances(p) /\ Pipe!NothingFailed' => Pipe!NothingFailed
  /\ \A a, b : Waits(a, b) /\ <<a, b>> \in WaitPlan /\ Pipe!NothingFailed' => Pipe!NothingFailed
  /\ \A a, k, b : /\ Forks(a, k, b) /\ <<a, k, b>> \in ForkPlan /\ PipeOrder
                  /\ Pipe!NothingFailed'
                  => Pipe!NothingFailed
<1>1. ASSUME NEW p \in AllProcesses, Advances(p), Pipe!NothingFailed'
      PROVE  Pipe!NothingFailed
  <2>1. \A q \in AllProcesses \ {p} : pc'[q] = pc[q]
    BY <1>1 DEF Advances, Goes
  <2>2. pc[p] \notin {"unforked", "shot"}
    BY <1>1 DEF Advances, Goes
  <2> QED
    BY <1>1, <2>1, <2>2 DEF Pipe!NothingFailed
<1>2. ASSUME NEW a, NEW b, Waits(a, b), <<a, b>> \in WaitPlan, Pipe!NothingFailed'
      PROVE  Pipe!NothingFailed
  <2>1. /\ \A q \in AllProcesses \ {"parent"} : pc'[q] = pc[q]
        /\ pc["parent"] \notin {"unforked", "shot"}
    BY <1>2 DEF Waits, WaitPlan
  <2> QED
    BY <1>2, <2>1 DEF Pipe!NothingFailed
<1>3. ASSUME NEW a, NEW k, NEW b, Forks(a, k, b), <<a, k, b>> \in ForkPlan, PipeOrder,
             Pipe!NothingFailed'
      PROVE  Pipe!NothingFailed
  <2>1. /\ \A q \in AllProcesses \ {"parent", k} : pc'[q] = pc[q]
        /\ pc["parent"] = a /\ a \notin {"unforked", "shot"}
    BY <1>3 DEF Forks, ForkPlan
  <2>2. pc[k] = "none"
    BY <1>3, <2>1, Members DEF PipeOrder, ForkPlan
  <2> QED
    BY <1>3, <2>1, <2>2 DEF Pipe!NothingFailed
<1> QED
  BY <1>1, <1>2, <1>3

LEMMA NotForked ==
  ASSUME NEW a, NEW k, NEW b, ForksNot(a, k, b), <<a, k, b>> \in ForkPlan
  PROVE  ~Pipe!NothingFailed'
BY Members DEF ForksNot, ForkPlan, Pipe!NothingFailed

-----------------------------------------------------------------------------
(* The whole invariant.                                                    *)

PipeShape == PipePlaces /\ PipeLife /\ PipeOrder /\ PipeHeld

PipeOK == Typed /\ PipeShape /\ PipeFlow /\ PipeCall /\ PipeQuiet

LEMMA InitPipe == Pipe!Init => PipeOK
<1> SUFFICES ASSUME Pipe!Init PROVE PipeOK
  OBVIOUS
<1>1. /\ held = [p \in AllProcesses |-> {}]
      /\ content = [x \in PipeNames |-> <<>>]
      /\ life = [p \in AllProcesses |-> IF p = "parent" THEN "alive" ELSE "unborn"]
      /\ pc = [p \in AllProcesses |-> IF p = "parent" THEN "pipe_1" ELSE "none"]
      /\ line = [p \in AllProcesses |-> 0]
      /\ wp = <<>> /\ results = <<>>
  BY DEF Pipe!Init, Pipe!PipesInit, PipeNames
<1>2. /\ pc["parent"] = "pipe_1"
      /\ \A k \in Kids : pc[k] = "none" /\ life[k] = "unborn"
      /\ pc["reader"] = "none" /\ pc["callee"] = "none"
      /\ pc["generator"] = "none" /\ pc["squarer"] = "none"
      /\ \A p \in AllProcesses : held[p] = {} /\ line[p] = 0
      /\ \A x \in PipeNames : content[x] = <<>>
      /\ life["parent"] = "alive"
  BY <1>1, Members DEF Kids, AllProcesses
<1>3. Typed
  <2>1. pc \in [AllProcesses -> Pipe!Labels]
    BY <1>1 DEF Pipe!Labels
  <2>2. KernelOK
    <3>1. \A x \in PipeNames : Len(content[x]) <= PipeSize
      BY <1>2, PipesAssumption
    <3> QED
      BY <1>1, <3>1 DEF KernelOK, Lifes
  <2>3. line \in [AllProcesses -> Nat] /\ line["generator"] <= Lines
    BY <1>1, Members, PipesAssumption
  <2> QED
    BY <1>1, <2>1, <2>2, <2>3 DEF Typed
<1>4. PipePlaces /\ PipeOrder
  BY <1>2 DEF PipePlaces, PipeOrder, Missing, Gone
<1>5. PipeLife
  BY <1>2 DEF PipeLife, Kids, AllProcesses, Missing, Over
<1>6. PipeHeld
  BY <1>2, Members
     DEF PipeHeld, ParentHeld, ReaderHeld, CalleeHeld, GeneratorHeld,
         SquarerHeld
<1>7. PipeFlow
  <2>1. /\ content["pipe1"] = <<>> /\ content["pipe2"] = <<>> /\ line["generator"] = 0
        /\ wp = <<>> /\ results = <<>>
    BY <1>1, <1>2, Members
  <2>2. Len(<<>>) = 0 /\ \A n : SquaresFrom(<<>>, n) /\ NumbersFrom(<<>>, n)
    BY DEF SquaresFrom, NumbersFrom
  <2>3. Out = 0 /\ Through = 0 /\ Squared = 0 /\ Taken = 0
    BY <1>2, <2>1, <2>2 DEF Out, Through, Squared, Taken
  <2>4. 0 <= Lines
    BY PipesAssumption
  <2>5. FlowPrinted /\ FlowBefore
    BY <1>2, <2>1, <2>2, <2>3, <2>4 DEF FlowPrinted, FlowBefore
  <2>6. FlowBehind
    BY <1>2, <2>1, <2>2, <2>3 DEF FlowBehind
  <2>7. FlowEnds
    BY <1>2 DEF FlowEnds
  <2> QED
    BY <2>5, <2>6, <2>7 DEF PipeFlow
<1>8. PipeCall
  BY <1>2, Members DEF PipeCall, AllAre
<1>9. PipeQuiet
  <2>1. NoneKilled
    BY <1>1 DEF NoneKilled
  <2>2. QuietReader /\ QuietCallee /\ QuietNumbers
    BY <1>2, Members DEF QuietReader, QuietCallee, QuietNumbers
  <2> QED
    BY <2>1, <2>2 DEF PipeQuiet, AllQuiet
<1> QED
  BY <1>3, <1>4, <1>5, <1>6, <1>7, <1>8, <1>9 DEF PipeOK, PipeShape

LEMMA ForkKeeps ==
  ASSUME PipeOK, Typed', NEW a, NEW k, NEW b, Forks(a, k, b),
         <<a, k, b>> \in {<<"fork_1", "reader", "close_1">>, <<"fork_2",
         "callee", "close_2">>,
                          <<"fork_gen", "generator", "fork_sq">>,
                          <<"fork_sq", "squarer", "close_3">>}
  PROVE  PipeOK'
<1>1. <<a, k, b>> \in ForkPlan
  BY DEF ForkPlan
<1>2. PipeShape'
  BY ForkPlaces DEF PipeOK, PipeShape
<1>3. PipeFlow'
  BY <1>1, ForkFlow DEF PipeOK, PipeShape
<1>4. PipeCall'
  <2>1. content' = content
    BY DEF Forks
  <2> QED
    BY <2>1, CallStays DEF PipeOK
<1>5. ASSUME Pipe!NothingFailed' PROVE AllQuiet'
  <2>1. AllQuiet
    BY <1>1, <1>5, QuietBefore DEF PipeOK, PipeShape, PipeQuiet
  <2> QED
    BY <1>1, <2>1, ForkQuiet DEF PipeOK, PipeShape
<1> QED
  BY <1>2, <1>3, <1>4, <1>5 DEF PipeOK, PipeQuiet

LEMMA NoForkKeeps ==
  ASSUME PipeOK, Typed', NEW a, NEW k, NEW b, ForksNot(a, k, b),
         <<a, k, b>> \in {<<"fork_1", "reader", "exit">>, <<"fork_2", "callee",
         "close_2">>,
                          <<"fork_gen", "generator", "fork_sq">>,
                          <<"fork_sq", "squarer", "close_3">>}
  PROVE  PipeOK'
<1>1. <<a, k, b>> \in ForkPlan
  BY DEF ForkPlan
<1>2. PipeShape'
  BY NoForkPlaces DEF PipeOK, PipeShape
<1>3. PipeFlow'
  BY <1>1, ForkFlow DEF PipeOK, PipeShape
<1>4. PipeCall'
  <2>1. content' = content
    BY DEF ForksNot
  <2> QED
    BY <2>1, CallStays DEF PipeOK
<1>5. ~Pipe!NothingFailed'
  BY <1>1, NotForked
<1> QED
  BY <1>2, <1>3, <1>4, <1>5 DEF PipeOK, PipeQuiet

LEMMA WaitKeeps ==
  ASSUME PipeOK, Typed', NEW a, NEW b, Waits(a, b), <<a, b>> \in WaitPlan
  PROVE  PipeOK'
<1>1. /\ <<a, b>> \in {<<"wait_1", "pipe_2">>, <<"wait_2", "pipe_3">>, <<"wait_3", "wait_4">>,
                       <<"wait_4", "exit">>}
      /\ a \notin {"print_3", "done", "killed", "shot"} /\ b # "print_3"
  BY DEF WaitPlan
<1>2. PipeShape'
  BY <1>1, WaitPlaces DEF PipeOK, PipeShape
<1>3. PipeFlow'
  BY <1>1, WaitFlow DEF PipeOK
<1>4. PipeCall'
  <2>1. content' = content
    BY DEF Waits
  <2> QED
    BY <2>1, CallStays DEF PipeOK
<1>5. ASSUME Pipe!NothingFailed' PROVE AllQuiet'
  <2>1. AllQuiet
    BY <1>5, QuietBefore DEF PipeOK, PipeQuiet
  <2> QED
    BY <2>1, WaitQuiet
<1> QED
  BY <1>2, <1>3, <1>4, <1>5 DEF PipeOK, PipeQuiet

LEMMA SimpleKeeps ==
  ASSUME PipeOK, Typed', SimpleTable
  PROVE  PipeOK'
<1>1. CASE SimpleMoves
  <2>1. PipeShape'
    BY <1>1, SimplePlaces DEF PipeOK, PipeShape
  <2>2. PipeFlow' /\ PipeCall'
    BY <1>1, SimpleFlow, SimpleCall DEF PipeOK
  <2>3. ASSUME Pipe!NothingFailed' PROVE AllQuiet'
    <3>1. AllQuiet
      BY <1>1, <2>3, ParentAdvances, QuietBefore, Members DEF PipeOK, PipeQuiet
    <3> QED
      BY <1>1, <3>1, SimpleQuiet DEF PipeOK, PipeShape
  <2> QED
    BY <2>1, <2>2, <2>3 DEF PipeOK, PipeQuiet
<1>2. CASE Forks("fork_1", "reader", "close_1")
  BY <1>2, ForkKeeps
<1>3. CASE ForksNot("fork_1", "reader", "exit")
  BY <1>3, NoForkKeeps
<1>4. CASE Waits("wait_1", "pipe_2")
  BY <1>4, WaitKeeps DEF WaitPlan
<1> QED
  BY <1>1, <1>2, <1>3, <1>4 DEF SimpleTable

LEMMA BidirectionalKeeps ==
  ASSUME PipeOK, Typed', BidirectionalTable
  PROVE  PipeOK'
<1>1. CASE BidirectionalMoves
  <2>1. PipeShape'
    BY <1>1, BidirectionalPlaces DEF PipeOK, PipeShape
  <2>2. PipeFlow' /\ PipeCall'
    BY <1>1, BidirectionalFlow, BidirectionalCall DEF PipeOK
  <2>3. ASSUME Pipe!NothingFailed' PROVE AllQuiet'
    <3>1. AllQuiet /\ Pipe!NothingFailed
      BY <1>1, <2>3, ParentAdvances, QuietBefore, Members DEF PipeOK, PipeQuiet
    <3> QED
      BY <1>1, <3>1, BidirectionalQuiet DEF PipeOK, PipeShape
  <2> QED
    BY <2>1, <2>2, <2>3 DEF PipeOK, PipeQuiet
<1>2. CASE Forks("fork_2", "callee", "close_2")
  BY <1>2, ForkKeeps
<1>3. CASE ForksNot("fork_2", "callee", "close_2")
  BY <1>3, NoForkKeeps
<1>4. CASE Waits("wait_2", "pipe_3")
  BY <1>4, WaitKeeps DEF WaitPlan
<1> QED
  BY <1>1, <1>2, <1>3, <1>4 DEF BidirectionalTable

LEMMA PipelineKeeps ==
  ASSUME PipeOK, Typed', PipelineTable
  PROVE  PipeOK'
<1>1. CASE PipelineMoves
  <2>1. PipeShape'
    BY <1>1, PipelinePlaces DEF PipeOK, PipeShape
  <2>2. PipeFlow' /\ PipeCall'
    BY <1>1, PipelineFlow, PipelineCall DEF PipeOK
  <2>3. ASSUME Pipe!NothingFailed' PROVE AllQuiet'
    <3>1. AllQuiet /\ Pipe!NothingFailed
      BY <1>1, <2>3, ParentAdvances, QuietBefore, Members DEF PipeOK, PipeQuiet
    <3> QED
      BY <1>1, <3>1, PipelineQuiet DEF PipeOK, PipeShape
  <2> QED
    BY <2>1, <2>2, <2>3 DEF PipeOK, PipeQuiet
<1>2. CASE \/ Forks("fork_gen", "generator", "fork_sq")
           \/ Forks("fork_sq", "squarer", "close_3")
  BY <1>2, ForkKeeps
<1>3. CASE \/ ForksNot("fork_gen", "generator", "fork_sq")
           \/ ForksNot("fork_sq", "squarer", "close_3")
  BY <1>3, NoForkKeeps
<1>4. CASE Waits("wait_3", "wait_4") \/ Waits("wait_4", "exit")
  BY <1>4, WaitKeeps DEF WaitPlan
<1> QED
  BY <1>1, <1>2, <1>3, <1>4 DEF PipelineTable

LEMMA ReaderKeeps ==
  ASSUME PipeOK, Typed', ReaderTable
  PROVE  PipeOK'
<1>1. PipePlaces' /\ PipeHeld'
  BY KidsPlaces, ReaderHolds DEF PipeOK, PipeShape
<1>2. PipeLife' /\ PipeOrder'
  BY KidsAdvance, AdvanceLife, KidOrder, Members DEF PipeOK, PipeShape
<1>3. PipeFlow' /\ PipeCall'
  BY ReaderFlow, ReaderCall DEF PipeOK
<1>4. ASSUME Pipe!NothingFailed' PROVE AllQuiet'
  <2>1. AllQuiet /\ Pipe!NothingFailed
    BY <1>4, KidsAdvance, QuietBefore, Members DEF PipeOK, PipeQuiet
  <2> QED
    BY <2>1, ReaderQuiet DEF PipeOK, PipeShape
<1> QED
  BY <1>1, <1>2, <1>3, <1>4 DEF PipeOK, PipeShape, PipeQuiet

LEMMA CalleeKeeps ==
  ASSUME PipeOK, Typed', CalleeTable
  PROVE  PipeOK'
<1>1. PipePlaces' /\ PipeHeld'
  BY KidsPlaces, CalleeHolds DEF PipeOK, PipeShape
<1>2. PipeLife' /\ PipeOrder'
  BY KidsAdvance, AdvanceLife, KidOrder, Members DEF PipeOK, PipeShape
<1>3. PipeFlow' /\ PipeCall'
  BY CalleeFlow, CalleeCall DEF PipeOK
<1>4. ASSUME Pipe!NothingFailed' PROVE AllQuiet'
  <2>1. AllQuiet /\ Pipe!NothingFailed
    BY <1>4, KidsAdvance, QuietBefore, Members DEF PipeOK, PipeQuiet
  <2> QED
    BY <2>1, CalleeQuiet DEF PipeOK, PipeShape
<1> QED
  BY <1>1, <1>2, <1>3, <1>4 DEF PipeOK, PipeShape, PipeQuiet

LEMMA GeneratorKeeps ==
  ASSUME PipeOK, Typed', GeneratorTable
  PROVE  PipeOK'
<1>1. PipePlaces' /\ PipeHeld'
  BY KidsPlaces, GeneratorHolds DEF PipeOK, PipeShape
<1>2. PipeLife' /\ PipeOrder'
  BY KidsAdvance, AdvanceLife, KidOrder, Members DEF PipeOK, PipeShape
<1>3. PipeFlow' /\ PipeCall'
  BY GeneratorFlow, GeneratorCall DEF PipeOK
<1>4. ASSUME Pipe!NothingFailed' PROVE AllQuiet'
  <2>1. AllQuiet /\ Pipe!NothingFailed
    BY <1>4, KidsAdvance, QuietBefore, Members DEF PipeOK, PipeQuiet
  <2> QED
    BY <2>1, GeneratorQuiet DEF PipeOK, PipeShape
<1> QED
  BY <1>1, <1>2, <1>3, <1>4 DEF PipeOK, PipeShape, PipeQuiet

LEMMA SquarerKeeps ==
  ASSUME PipeOK, Typed', SquarerTable
  PROVE  PipeOK'
<1>1. PipePlaces' /\ PipeHeld'
  BY KidsPlaces, SquarerHolds DEF PipeOK, PipeShape
<1>2. PipeLife' /\ PipeOrder'
  BY KidsAdvance, AdvanceLife, KidOrder, Members DEF PipeOK, PipeShape
<1>3. PipeFlow' /\ PipeCall'
  BY SquarerFlow, SquarerCall DEF PipeOK
<1>4. ASSUME Pipe!NothingFailed' PROVE AllQuiet'
  <2>1. AllQuiet /\ Pipe!NothingFailed
    BY <1>4, KidsAdvance, QuietBefore, Members DEF PipeOK, PipeQuiet
  <2> QED
    BY <2>1, SquarerQuiet DEF PipeOK, PipeShape
<1> QED
  BY <1>1, <1>2, <1>3, <1>4 DEF PipeOK, PipeShape, PipeQuiet

\* A signal from outside ends a process wherever it is.
LEMMA KillKeeps ==
  ASSUME PipeOK, Typed', NEW p \in AllProcesses, life[p] = "alive", Dies(p, pc[p], "shot")
  PROVE  PipeOK'
<1>1. /\ pc'[p] = "shot" /\ held'[p] = {}
      /\ \A q \in AllProcesses \ {p} : pc'[q] = pc[q] /\ held'[q] = held[q] /\ line'[q] = line[q]
      /\ line'[p] = line[p]
      /\ content' = content /\ wp' = wp /\ results' = results
  BY DEF Dies, Goes
<1>2. Advances(p)
  <2>1. pc[p] \notin {"none", "unforked", "done", "killed", "shot"}
    BY DEF PipeOK, PipeShape, PipeLife, Missing, Over
  <2> QED
    BY <2>1 DEF Advances, Dies
<1>3. PipePlaces'
  BY <1>1, Members DEF PipeOK, PipeShape, PipePlaces
<1>4. PipeLife'
  BY <1>2, AdvanceLife DEF PipeOK, PipeShape
<1>5. PipeOrder'
  <2>1. CASE p \in Kids
    BY <1>2, <2>1, KidOrder DEF PipeOK, PipeShape
  <2>2. CASE p = "parent"
    BY <1>1, <2>2 DEF PipeOrder
  <2> QED
    BY <2>1, <2>2 DEF Kids, AllProcesses
<1>6. PipeHeld'
  <2>1. ParentHeld'
    BY <1>1, Members DEF PipeOK, PipeShape, PipeHeld, ParentHeld
  <2>2. ReaderHeld'
    BY <1>1, Members DEF PipeOK, PipeShape, PipeHeld, ReaderHeld
  <2>3. CalleeHeld'
    BY <1>1, Members DEF PipeOK, PipeShape, PipeHeld, CalleeHeld
  <2>4. GeneratorHeld'
    BY <1>1, Members DEF PipeOK, PipeShape, PipeHeld, GeneratorHeld
  <2>5. SquarerHeld'
    BY <1>1, Members DEF PipeOK, PipeShape, PipeHeld, SquarerHeld
  <2> QED
    BY <2>1, <2>2, <2>3, <2>4, <2>5 DEF PipeHeld
<1>7. PipeFlow'
  <2>1. /\ line'["generator"] = line["generator"] /\ line'["parent"] = line["parent"]
        /\ line'["squarer"] = line["squarer"]
    BY <1>1, Members
  <2>2. pc'["parent"] = "shot" \/ pc'["parent"] = pc["parent"]
    BY <1>1, Members
  <2>3. \/ Over("parent")'
        \/ ~Over("parent") /\ pc'["parent"] = pc["parent"]
    BY <2>2 DEF Over
  <2>4. \/ pc'["squarer"] \in {"killed", "shot"}
        \/ /\ pc["squarer"] \notin {"killed", "shot"}
           /\ pc'["squarer"] = pc["squarer"]
    BY <1>1, Members
  <2>5. /\ pc'["generator"] \in {"exit", "done"} => line["generator"] = Lines
        /\ pc'["squarer"] \in {"exit", "done"} => wp = <<>>
    BY <1>1, Members DEF PipeOK, PipeFlow, FlowEnds
  <2>6. PipeFlow
    BY DEF PipeOK
  <2> QED
    BY <1>1, <2>1, <2>3, <2>4, <2>5, <2>6, FlowStays
<1>8. PipeCall'
  BY <1>1, CallStays DEF PipeOK
<1>9. ~Pipe!NothingFailed'
  BY <1>1 DEF Pipe!NothingFailed
<1> QED
  BY <1>3, <1>4, <1>5, <1>6, <1>7, <1>8, <1>9 DEF PipeOK, PipeShape, PipeQuiet

LEMMA StillPipe ==
  ASSUME PipeOK, UNCHANGED pipe_vars
  PROVE  PipeOK'
<1>1. /\ held' = held /\ content' = content /\ life' = life /\ pc' = pc
      /\ line' = line /\ wp' = wp /\ results' = results
  BY DEF pipe_vars
<1>2. Typed'
  BY <1>1 DEF PipeOK, Typed, KernelOK
<1>3. PipePlaces' /\ PipeHeld'
  BY <1>1
     DEF PipeOK, PipeShape, PipePlaces, PipeHeld, ParentHeld, ReaderHeld,
         CalleeHeld,
     GeneratorHeld, SquarerHeld
<1>4. PipeLife' /\ PipeOrder'
  BY <1>1 DEF PipeOK, PipeShape, PipeLife, PipeOrder, Missing, Over, Gone
<1>5. PipeFlow'
  BY <1>1
     DEF PipeOK, PipeFlow, FlowPrinted, FlowBefore, FlowBehind, FlowEnds, Out,
         Through,
     Squared, Taken, Over
<1>6. PipeCall'
  BY <1>1 DEF PipeOK, PipeCall
<1>7. PipeQuiet'
  BY <1>1
     DEF PipeOK, PipeQuiet, Pipe!NothingFailed, AllQuiet, NoneKilled,
         QuietReader,
     QuietCallee, QuietNumbers
<1> QED
  BY <1>2, <1>3, <1>4, <1>5, <1>6, <1>7 DEF PipeOK, PipeShape

LEMMA StepPipe == PipeOK /\ [Pipe!Next]_pipe_vars => PipeOK'
<1> SUFFICES ASSUME PipeOK, [Pipe!Next]_pipe_vars PROVE PipeOK'
  OBVIOUS
<1>1. Typed
  BY DEF PipeOK
<1>2. CASE Pipe!Simple
  BY <1>1, <1>2, SimpleSteps, SimpleKeeps
<1>3. CASE Pipe!Bidirectional
  BY <1>1, <1>3, BidirectionalSteps, BidirectionalKeeps
<1>4. CASE Pipe!Pipeline
  BY <1>1, <1>4, PipelineSteps, PipelineKeeps
<1>5. CASE Pipe!Reader
  BY <1>1, <1>5, ReaderSteps, ReaderKeeps
<1>6. CASE Pipe!Callee
  BY <1>1, <1>6, CalleeSteps, CalleeKeeps
<1>7. CASE Pipe!Generator
  BY <1>1, <1>7, GeneratorSteps, GeneratorKeeps
<1>8. CASE Pipe!Squarer
  BY <1>1, <1>8, SquarerSteps, SquarerKeeps
<1>9. ASSUME NEW p \in AllProcesses, Pipe!Kill(p)
      PROVE  PipeOK'
  <2>1. life[p] = "alive" /\ Pipe!Step(p, pc[p], Pipe!Die(p), "shot")
    BY <1>9 DEF Pipe!Kill
  <2>2. Typed' /\ Dies(p, pc[p], "shot")
    BY <1>1, <2>1, DieStep, Members
  <2> QED
    BY <2>1, <2>2, KillKeeps
<1>10. CASE UNCHANGED pipe_vars
  BY <1>10, StillPipe
<1> QED
  BY <1>2, <1>3, <1>4, <1>5, <1>6, <1>7, <1>8, <1>9, <1>10
     DEF Pipe!Next, Pipe!Parent

LEMMA PipeKnown ==
  PipeOK => /\ Pipe!TypeOK
            /\ Pipe!ChildrenReaped
            /\ Pipe!NoSigpipe
            /\ Pipe!PrintedIsSent
<1> SUFFICES ASSUME PipeOK
             PROVE  Pipe!TypeOK /\ Pipe!ChildrenReaped /\ Pipe!NoSigpipe /\ Pipe!PrintedIsSent
  OBVIOUS
<1>1. Pipe!TypeOK
  BY PipeTyped DEF PipeOK
<1>2. Pipe!ChildrenReaped
  BY
     DEF PipeOK, PipeShape, PipeOrder, Gone, Kids, Pipe!Kids,
         Pipe!ChildrenReaped, Pipe!At
<1>3. Pipe!NoSigpipe
  BY DEF PipeOK, PipeQuiet, AllQuiet, NoneKilled, Pipe!NoSigpipe
<1>4. Pipe!PrintedIsSent
  <2>1. results \in Seq(Nat) /\ SquaresFrom(results, 0) /\ Len(results) <= Lines
    BY DEF PipeOK, Typed, PipeFlow, FlowPrinted
  <2>2. \A k \in DOMAIN results : results[k] = k * k
    <3>1. DOMAIN results = 1..Len(results) /\ Len(results) \in Nat
      BY <2>1
    <3>2. ASSUME NEW k \in 1..Len(results) PROVE results[k] = k * k
      <4>1. k \in Nat /\ 0 + k = k
        BY <3>1
      <4> QED
        BY <2>1, <4>1 DEF SquaresFrom, Sq
    <3> QED
      BY <3>1, <3>2
  <2>3. ASSUME Pipe!NothingFailed
        PROVE  /\ Pipe!At("parent", "wait_3") => Len(results) = Lines
               /\ Pipe!At("callee", "close") => line["callee"] = Pipe!Call
               /\ Pipe!At("parent", "shut_2") => line["parent"] = Pipe!Answer
    BY <2>3 DEF PipeOK, PipeQuiet, AllQuiet, QuietNumbers, QuietCallee, Pipe!At
  <2> QED
    BY <2>1, <2>2, <2>3 DEF Pipe!PrintedIsSent
<1> QED
  BY <1>1, <1>2, <1>3, <1>4

-----------------------------------------------------------------------------
(* All of them.                                                            *)

ProgramsInv ==
    /\ SignalInv
    /\ PipeOK
    /\ SessionOK
    /\ ConnectOK
    /\ FileOK
    /\ MemoryOK
    /\ DirOK
    /\ UdpOK
    /\ ForkOK
    /\ BandwidthOK

LEMMA InitPrograms == ProgramsInit => ProgramsInv
BY InitInv, InitPipe, InitSession, InitConnect, InitFile, InitMemory, InitDir,
   InitUdp, InitFork,
   InitBandwidth
   DEF ProgramsInit, ProgramsInv

LEMMA StepPrograms == ProgramsInv /\ [ProgramsNext]_all_vars => ProgramsInv'
<1> SUFFICES ASSUME ProgramsInv, [ProgramsNext]_all_vars PROVE ProgramsInv'
  OBVIOUS
<1>1. /\ [Next]_signal_vars
      /\ [Pipe!Next]_pipe_vars
      /\ [Fork!Next]_fork_vars
      /\ [Udp!Next]_udp_vars
      /\ [Session!SessionNext]_session_vars
      /\ [Bandwidth!Next]_bandwidth_vars
      /\ [Nonblocking!Next]_connect_vars
      /\ [File!Next]_file_vars
      /\ [Memory!Next]_memory_vars
      /\ [Directory!Next]_dir_vars
  BY EachProgram
<1>2. [Next]_vars
  BY <1>1 DEF signal_vars
<1>3. SignalInv'
  BY <1>2, NextInv DEF ProgramsInv
<1>4. PipeOK' /\ SessionOK' /\ ConnectOK'
  BY <1>1, StepPipe, StepSession, StepConnect DEF ProgramsInv
<1>5. FileOK' /\ MemoryOK' /\ DirOK'
  BY <1>1, StepFile, StepMemory, StepDir DEF ProgramsInv
<1>6. UdpOK' /\ ForkOK' /\ BandwidthOK'
  BY <1>1, StepUdp, StepFork, StepBandwidth DEF ProgramsInv
<1> QED
  BY <1>3, <1>4, <1>5, <1>6 DEF ProgramsInv

LEMMA Invariant == ProgramsSpec => []ProgramsInv
BY InitPrograms, StepPrograms, PTL DEF ProgramsSpec

\* The variables of the ten programs keep to their types: descriptors, buffers,
\* pipes and counters stay within what the code gives them.
THEOREM TypesCorrect == ProgramsSpec => []TypesOK
<1>1. ASSUME ProgramsInv PROVE TypesOK
  <2>1. TypeOK
    BY <1>1 DEF ProgramsInv, SignalInv
  <2>2. Pipe!TypeOK /\ Session!SessionTypeOK
    BY <1>1, PipeKnown, SessionKnown DEF ProgramsInv
  <2>3. Fork!TypeOK /\ Udp!TypeOK /\ Bandwidth!TypeOK
    BY <1>1 DEF ProgramsInv, ForkOK, UdpOK, BandwidthOK
  <2>4. Nonblocking!TypeOK /\ File!TypeOK /\ Memory!TypeOK /\ Directory!TypeOK
    BY <1>1 DEF ProgramsInv, ConnectOK, FileOK, MemoryOK, DirOK
  <2> QED
    BY <2>1, <2>2, <2>3, <2>4 DEF TypesOK
<1> QED
  BY <1>1, Invariant, PTL

\* A parent that says that all is done has left no child behind, alive or as a
\* zombie, whichever fork fails and whoever is killed (pipes_ipc.c 43, 90,
\* 143-144; process_management.c 50-66).
THEOREM NoChildLeft == ProgramsSpec => []ChildrenReaped
<1>1. ProgramsInv => ChildrenReaped
  BY PipeKnown, ForkKnown DEF ProgramsInv, ChildrenReaped
<1> QED
  BY <1>1, Invariant, PTL

\* While no fork failed and nobody was killed from outside, no process of
\* pipes_ipc writes to a pipe that nobody can read (lines 25-41, 61-89, 103-140).
THEOREM PipesStayOpen == ProgramsSpec => []NoSigpipe
<1>1. ProgramsInv => NoSigpipe
  BY PipeKnown DEF ProgramsInv, NoSigpipe
<1> QED
  BY <1>1, Invariant, PTL

\* The squares are printed in order, and all of them; the call and the answer
\* are read as they were sent (pipes_ipc.c 65-89, 104-140); a status that is
\* printed is that of the first child, which exited (process_management.c 26-33).
THEOREM TruePrints == ProgramsSpec => []PrintedIsTrue
<1>1. ProgramsInv => PrintedIsTrue
  BY PipeKnown, ForkKnown DEF ProgramsInv, PrintedIsTrue
<1> QED
  BY <1>1, Invariant, PTL

\* simple_echo_server() is ended by SIGPIPE only if one of its clients left
\* before it had the whole echo (c 96-104, 176-192).
THEOREM ServerLives == ProgramsSpec => []ServerSurvives
<1>1. ProgramsInv => ServerSurvives
  BY SessionKnown DEF ProgramsInv
<1> QED
  BY <1>1, Invariant, PTL

\* What a client takes for its answer is the echo of its own message, or over
\* UDP of an earlier run that had its port: never of anybody else's
\* (c 176-189, 346-365, 403-418; cpp 420-508).
THEOREM OwnEchoes == ProgramsSpec => []AnswersAreEchoes
<1>1. ProgramsInv => AnswersAreEchoes
  BY SessionKnown DEF ProgramsInv, UdpOK, AnswersAreEchoes
<1> QED
  BY <1>1, Invariant, PTL

\* What is true of a step of nonblocking_connect() that returns.
ReturnsHonestly ==
    result' # result =>
        /\ result' = "fd" => sockfd = "nonblocking" /\ link = "established"
        /\ result' = "-1" => sockfd' \in {"none", "closed"}

\* nonblocking_connect() returns a descriptor only of a connection that stood
\* when it looked, and -1 only with its socket closed (c 473-525).
THEOREM HonestConnect == ProgramsSpec => ConnectIsHonest
<1>1. ProgramsInv /\ [ProgramsNext]_all_vars => [ReturnsHonestly]_(Nonblocking!vars)
  BY EachProgram, StepConnect DEF ProgramsInv, ReturnsHonestly
<1>2. ProgramsSpec => [][ProgramsNext]_all_vars
  BY PTL DEF ProgramsSpec
<1>3. ProgramsSpec => [][ReturnsHonestly]_(Nonblocking!vars)
  BY <1>1, <1>2, Invariant, PTL
<1>4. ConnectIsHonest <=> [][ReturnsHonestly]_(Nonblocking!vars)
  BY DEF ConnectIsHonest, Nonblocking!ConnectIsHonest, ReturnsHonestly
<1> QED
  BY <1>4, <1>3

\* file_io and memory_management leave in their files what a run that saw no
\* failure wrote, whatever killed runs left there before (file_io.c 9-47,
\* memory_management.c 67-106).
THEOREM WholeFiles == ProgramsSpec => []FilesWhole
<1>1. ProgramsInv => FilesWhole
  BY MemoryKnown DEF ProgramsInv, FileOK, FilesWhole
<1> QED
  BY <1>1, Invariant, PTL

\* memory_management gives back all it took at every end but a signal's, and a
\* signal ends it only after a failure (memory_management.c 13-86, 100-153).
THEOREM HeapGivenBack == ProgramsSpec => []HeapDiscipline
<1>1. ProgramsInv => HeapDiscipline
  BY MemoryKnown DEF ProgramsInv
<1> QED
  BY <1>1, Invariant, PTL

\* "Cleaned up test directories" is true, whatever killed runs left there, unless
\* the program lost its way or somebody else has a file in the tree, and that file
\* is not removed with it (directory_ops.c 100-200).
THEOREM TreeRemoved == ProgramsSpec => []CleanedUp
<1>1. ProgramsInv => CleanedUp
  BY DirKnown DEF ProgramsInv
<1> QED
  BY <1>1, Invariant, PTL

\* The two throughputs of the bandwidth test fit together, for any buffer, any
\* duration and any reset (c 712-725, 766-782; cpp 638-665, 684-711).
THEOREM Throughputs == ProgramsSpec => []ReportsAgree
<1>1. ProgramsInv => ReportsAgree
  BY BandwidthKnown DEF ProgramsInv
<1> QED
  BY <1>1, Invariant, PTL
=============================================================================
