---------------------------- MODULE BandwidthTest ----------------------------
(***************************************************************************)
(* bandwidth_test_server() and bandwidth_test_client() of                  *)
(* socket_examples_c.c and the two functions of that name in               *)
(* socket_examples_cpp.cpp: the client sends for duration seconds, the     *)
(* server receives for Limit seconds, and each prints what it counted.     *)
(*                                                                         *)
(* Time passes in whole seconds and any number of steps fit into one.  The *)
(* two counters only ever grow; what is kept is their difference.          *)
(***************************************************************************)
EXTENDS Integers

CONSTANTS
    Limit,      \* seconds the server receives (10 in the code)
    Durations,  \* seconds a client may be told to send (10 by default)
    Buffer,     \* sizeof(buffer), the same in both, in units of the model
    Cap         \* units the kernel holds between the two

VARIABLES
    lang,       \* the program: "c" or "cpp"
    duration,
    server,     \* where the server is
    client,     \* where the client is
    age,        \* age[p]: seconds by the clock since p took its start_time
    wire,       \* units sent and not received
    rst,        \* what a reset makes of the client's next call
    taken,      \* units the kernel has taken of the send() in progress
    gap,        \* bytes_sent of the client minus bytes_received of the server
    reported    \* who has printed its throughput

peers == <<server, client>>
counts == <<taken, gap, reported>>
vars == <<lang, duration, peers, age, wire, rst, counts>>

Oldest == 1 + (CHOOSE n \in Durations \cup {Limit} :
                  \A m \in Durations \cup {Limit} : m <= n)

TypeOK ==
    /\ lang \in {"c", "cpp"}
    /\ duration \in Durations
    /\ server \in {"start", "accept", "begin", "test", "recv", "report", "closed",
                   "returned"}
    /\ client \in {"start", "begin", "test", "send", "sending", "report", "ended",
                   "failed", "killed"}
    /\ age \in [{"server", "client"} -> 0..Oldest]
    /\ wire \in 0..Cap
    /\ rst \in {"no", "ECONNRESET", "EPIPE"}
    /\ taken \in 0..(Buffer - 1)
    /\ gap \in Int
    /\ reported \in SUBSET {"server", "client"}

Init ==
    /\ lang \in {"c", "cpp"}
    /\ duration \in Durations
    /\ server = "start" /\ client = "start"
    /\ age = [p \in {"server", "client"} |-> 0]
    /\ wire = 0
    /\ rst = "no"
    /\ taken = 0
    /\ gap = 0
    /\ reported = {}

ServerStep(from, to) ==
    server = from /\ server' = to /\ UNCHANGED <<lang, duration, client>>
ClientStep(from, to) ==
    client = from /\ client' = to /\ UNCHANGED <<lang, duration, server>>

ClientOpen == client \in {"begin", "test", "send", "sending", "report"}

\* A second passes.
Tick ==
    /\ \E p \in DOMAIN age : age[p] < Oldest
    /\ age' = [p \in DOMAIN age |->
                 IF age[p] < Oldest THEN age[p] + 1 ELSE Oldest]
    /\ UNCHANGED <<lang, duration, peers, wire, rst, counts>>

\* time() counts whole seconds of the clock.  The high_resolution_clock of the
\* C++ program may be up to a second behind the difference of these.
Over(p, n) == age[p] >= n
NotOver(p, n) == age[p] < (IF lang = "c" THEN n ELSE n + 1)

\* C prints even what it divides by zero; C++ prints only if a second is over.
Prints(p) ==
    \/ (lang = "c" \/ age[p] >= 1) /\ reported' = reported \cup {p}
    \/ lang = "cpp" /\ age[p] <= 1 /\ UNCHANGED reported

-----------------------------------------------------------------------------
(* The server.                                                             *)

\* socket(), bind(), listen(): the server waits, or returns.
ServerListens ==
    /\ ServerStep("start", "accept") \/ ServerStep("start", "returned")
    /\ UNCHANGED <<age, wire, rst, counts>>

ServerAccepts ==
    /\ ServerStep("accept", "begin")
    /\ client \notin {"start", "failed"}
    /\ UNCHANGED <<age, wire, rst, counts>>

\* accept() fails: with the listening socket goes who waits there.  The C++
\* server tries again.
AcceptFails ==
    /\ lang = "c"
    /\ ServerStep("accept", "returned")
    /\ rst' = IF ClientOpen THEN "ECONNRESET" ELSE rst
    /\ UNCHANGED <<age, wire, counts>>

\* C looks at the clock before the first recv(), C++ after it.
ServerBegins ==
    /\ ServerStep("begin", IF lang = "c" THEN "test" ELSE "recv")
    /\ age' = [age EXCEPT !["server"] = 0]
    /\ UNCHANGED <<wire, rst, counts>>

ServerTest ==
    /\ \/ NotOver("server", Limit) /\ ServerStep("test", "recv")
       \/ Over("server", Limit) /\ ServerStep("test", "report")
    /\ UNCHANGED <<age, wire, rst, counts>>

\* Seeded fault: the buffer is counted and not what recv() returned.
ServerRecvCountsBuffer ==
    /\ ServerStep("recv", "test")
    /\ wire > 0
    /\ LET n == IF wire < Buffer THEN wire ELSE Buffer
       IN  wire' = wire - n /\ gap' = gap - Buffer
    /\ UNCHANGED <<age, rst, taken, reported>>

ServerRecv ==
    /\ ServerStep("recv", "test")
    /\ wire > 0
    /\ LET n == IF wire < Buffer THEN wire ELSE Buffer
       IN  wire' = wire - n /\ gap' = gap - n
    /\ UNCHANGED <<age, rst, taken, reported>>

\* recv() = 0: the client has closed and all is read.
ServerEof ==
    /\ ServerStep("recv", "report")
    /\ wire = 0
    /\ ~ClientOpen
    /\ UNCHANGED <<age, wire, rst, counts>>

\* It prints and closes: with RST if something is unread, otherwise with FIN.
ServerReports ==
    /\ ServerStep("report", "closed")
    /\ Prints("server")
    /\ rst' = IF wire > 0 /\ ClientOpen THEN "ECONNRESET" ELSE rst
    /\ UNCHANGED <<age, wire, taken, gap>>

Server ==
    \/ ServerListens
    \/ ServerAccepts
    \/ AcceptFails
    \/ ServerBegins
    \/ ServerTest
    \/ ServerRecv
    \/ ServerEof
    \/ ServerReports

\* What comes after the server closed is answered with RST.
ResetArrives ==
    /\ server = "closed" /\ ClientOpen /\ wire > 0 /\ rst = "no"
    /\ rst' = "EPIPE"
    /\ UNCHANGED <<lang, duration, peers, age, wire, counts>>

-----------------------------------------------------------------------------
(* The client.                                                             *)

ClientConnects ==
    /\ ClientStep("start", "begin")
    /\ server = "accept"
    /\ UNCHANGED <<age, wire, rst, counts>>

ClientFails ==
    ClientStep("start", "failed") /\ UNCHANGED <<age, wire, rst, counts>>

ClientBegins ==
    /\ ClientStep("begin", IF lang = "c" THEN "test" ELSE "send")
    /\ age' = [age EXCEPT !["client"] = 0]
    /\ UNCHANGED <<wire, rst, counts>>

ClientTest ==
    /\ \/ NotOver("client", duration) /\ ClientStep("test", "send")
       \/ Over("client", duration) /\ ClientStep("test", "report")
    /\ UNCHANGED <<age, wire, rst, counts>>

\* send() returned; C adds what it returned, C++ the size of the buffer.
SendReturns(n) ==
    /\ taken' = 0
    /\ gap' = gap + (IF lang = "c" THEN n ELSE Buffer)

\* The kernel takes a unit of the blocking send(), if it has room.
SendTakes ==
    /\ rst = "no" /\ wire < Cap
    /\ wire' = wire + 1
    /\ \E from \in {"send", "sending"} :
          IF taken + 1 < Buffer
          THEN ClientStep(from, "sending") /\ taken' = taken + 1 /\ UNCHANGED gap
          ELSE ClientStep(from, "test") /\ SendReturns(Buffer)
    /\ UNCHANGED <<age, rst, reported>>

SendCutShort ==
    /\ ClientStep("sending", "test")
    /\ rst # "no"
    /\ SendReturns(taken)
    /\ UNCHANGED <<age, wire, rst, reported>>

\* -1, or an exception that is caught: leave the loop.
SendFails ==
    /\ ClientStep("send", "report")
    /\ rst = "ECONNRESET"
    /\ UNCHANGED <<age, wire, rst, counts>>

SendKills ==
    /\ ClientStep("send", "killed")
    /\ rst = "EPIPE"
    /\ UNCHANGED <<age, wire, rst, counts>>

ClientReports ==
    /\ ClientStep("report", "ended")
    /\ Prints("client")
    /\ UNCHANGED <<age, wire, rst, taken, gap>>

Client ==
    \/ ClientConnects
    \/ ClientFails
    \/ ClientBegins
    \/ ClientTest
    \/ SendTakes
    \/ SendCutShort
    \/ SendFails
    \/ SendKills
    \/ ClientReports

Next == Server \/ Client \/ ResetArrives \/ Tick

Spec == Init /\ [][Next]_vars

-----------------------------------------------------------------------------
(* Properties.                                                             *)

\* The two throughputs fit together: the server never counts more than the
\* client, and as much if it read to the client's end (c 712-725, 766-782;
\* cpp 638-665, 684-711).
ReportsAgree ==
    client = "ended" /\ server = "closed" =>
       /\ gap >= 0
       /\ rst = "no" /\ wire = 0 => gap = 0

\* What both come to once they are connected: neither waits for ever for data
\* or for room, whoever leaves first and whatever the clocks say
\* (c 716-720, 769-776; cpp 645-653, 689-702).
BothEnded ==
    /\ client \in {"ended", "failed", "killed"}
    /\ client # "failed" => server \in {"closed", "returned"}

\* "Measures throughput between server and client" (c line 661): a client that
\* has connected gets to print its throughput, as no signal ends it before.
ClientMeasures == client # "killed"
=============================================================================
