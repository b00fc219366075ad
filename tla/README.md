# Verification of Linux_System_Programming

The repository is a collection of Linux programs in C and C++: TCP and UDP
servers and clients in several architectures, and small programs on signals,
pipes, processes, files, memory and directories.  This project keeps TLA+ models
of every program of it that has state, configurations that check them with TLC,
and theorems about the same programs that TLAPS proves for any number of clients,
threads, bytes, signals and crashes.

    tlc -workers 2 -config mt_safety.cfg MCMultithreadedEchoServer
    tlapm MultithreadedEchoServerProofs.tla

`c:` and `cpp:` abbreviate `src/socket_examples_c.c` and
`src/socket_examples_cpp.cpp`.

## Inventory

| Component | State it keeps | Operations | Interacts with | Hard behaviour | Correct when |
|---|---|---|---|---|---|
| `multithreaded_echo_server`, `handle_client` (c:203-300) | main's locals, one `client_info_t` on the heap and one thread per client | socket/bind/listen, malloc, accept, pthread_create, pthread_detach; per thread recv, send, close, free | kernel by system calls; main and threads by the heap block | a thread may run, close and end before it is detached; every call may fail half way; `send` is short, fails or raises SIGPIPE | every descriptor, block and thread has one owner and is given back once; each client gets its own bytes |
| `select_based_server` (c:535-654) | compact array `clients[FD_SETSIZE]`, `num_clients`, `read_set` | build the set, select, accept one, scan, remove by memmove, echo; close all when `select()` fails | kernel | the array changes while it is scanned with a read set from before; descriptor numbers are reused in the same round | no entry lost, doubled or read when it is not ready; each socket closed once |
| `Socket`, `TCPServer` (cpp:58-248, 250-360) | listening Socket, `running`, vector of threads under a mutex | start, run, accept, emplace a thread, stop, destructor | threads, whoever calls `stop()` | stop against run against destructor, exceptions in the middle, a pointer into `run()`'s frame | one Socket per descriptor, no thread after the destructor, `stop()` returns and ends `run()` |
| `SelectEchoServer` (cpp:517-617) | vector of Sockets that only grows, `read_set` | as the C loop, removal by move assignment | kernel | as the C loop, and ownership through moves | as the C loop |
| `signal_handling.c` | `signal_count`, `should_exit` | main loop, three handlers | the kernel, which runs a handler on top of anything | nested handlers, signals that merge, printf inside printf | no count lost, a request for exit honoured |
| `pipes_ipc.c` | five pipes, stdio buffers, five processes | fork, close, read, write, fgets/fprintf/fclose, wait | processes by pipes | end of file depends on who still holds a write end; failed forks, killed processes | everybody ends, everybody is reaped, nothing is lost or reordered |
| `process_management.c` | parent, five children | fork, exec, exit, wait | kernel | children end in any order or are killed, forks fail | "All children completed" is true, the right status is reported |
| `simple_echo_server` (c:33-112) | the descriptor of one client | accept, echo until the end, close | kernel | the second client waits for the first | one client at a time, each to its end |
| `udp_echo_server`, `udp_client` (c:309-424), `UDPServer`, `UDPClient` (cpp:420-508) | one socket each | recvfrom, sendto, a receive timeout in the client | each other by datagrams | loss, duplication, reordering, messages longer than a buffer, reused ports | a client ends and prints no echo of anybody else |
| `simple_tcp_client` (c:125-197), `TCPClient` (cpp:367-411) | one connection | connect, send, one recv with a timeout, close | `simple_echo_server` in the model | one recv for a whole echo, leaving before it came | it ends, takes its own echo, and a client that waits for all of it harms nobody |
| `set_nonblocking`, `nonblocking_connect` (c:435-526) | one socket | fcntl, connect, select with timeout, getsockopt | kernel | the answer comes as the time runs out; writable is not connected | a connection or a closed descriptor |
| `bandwidth_test_server`, `bandwidth_test_client` (c:663-787, cpp:627-716) | byte counts, clocks | recv or send for a time, report | each other | two clocks end one connection; SIGPIPE | both end, and their counts agree |
| `file_io.c` | `test.txt` | open, write, read, append | file system | unchecked errors, a killed run leaves a file | the file is what this run wrote |
| `memory_management.c` | heap blocks, a mapping, `test_mmap.txt` | malloc to posix_memalign, mmap, msync | file system | error paths give back what was taken; a change half made | nothing leaks, the change is in the file |
| `directory_ops.c` | a tree, a link, the current directory | mkdir, chdir, symlink, rmdir | file system, other programs | failed steps go on; a killed run leaves a tree | everything is removed, and nothing else |
| `system_info.c`, the `main`s, `Makefile`, guides | none | print, dispatch, build | | | not modelled: no state |

`PROJECT.json` lists the same components with their files, and under `hazards`
each place where the hard behaviour bites, with the property that watches it.

## Modules

| Module | Models |
|---|---|
| `TcpSocket` | external: connections, their two buffers, FIN and RST, SIGPIPE, the descriptor table of the one server process, and the remote clients |
| `EchoService` | what each TCP echo server promises, in three variables: how far it is with each client, what the client sent, what it got back |
| `EchoServer` | the properties asked of every server, and the refinement mapping to `EchoService` |
| `MultithreadedEchoServer` | c:203-300; extends `EchoServer` |
| `SelectLoop` | what both `select()` loops share: the rounds, the read set, the scan, the closing of the table after a failed `select()`, and the properties |
| `SelectBasedServer` | c:535-654; the array: memmove, what is done when it is full, and the listening socket closed before the clients |
| `SelectEchoServer` | cpp:517-617; the vector of Sockets, reset by move assignment and destroyed before the listening socket |
| `SimpleEchoServer` | c:33-112; extends `EchoServer` |
| `EchoSession` | `simple_tcp_client` and `TCPClient` at `SimpleEchoServer`: the clients of the repository instead of any clients |
| `TCPServer` | cpp:250-360 with `Socket`; extends `EchoServer` |
| `SignalHandling` | `signal_handling.c` |
| `Pipes`, `PipesIpc` | external pipes, fork and wait; `pipes_ipc.c` |
| `ProcessManagement` | `process_management.c` |
| `UdpEcho` | the UDP server, its clients and the network between them, in C and C++ |
| `BandwidthTest` | both ends of the bandwidth test, in C and C++ |
| `NonblockingConnect` | `nonblocking_connect()` with `set_nonblocking()` |
| `FileIO`, `MemoryManagement`, `DirectoryOps` | the program of that name, its calls failing or not, and a run killed between any two |
| `MCOneThread` | one of `SelectBasedServer`, `SelectEchoServer`, `SimpleEchoServer` over one kernel and the same clients |
| `MCPrograms` | one of the other ten programs |
| other `MC...` | symmetry and constants for TLC |
| `TcpSocketProofs` | lemmas on the system calls, the streams and the steps of `EchoService`, for all TCP servers |
| `MultithreadedEchoServerProofs`, `SimpleEchoServerProofs`, `TCPServerProofs`, `SignalHandlingProofs` | theorems on the module of that name |
| `SelectServersProofs` | theorems on both select servers, and on their composition `MCOneThread` |
| `EchoSessionProofs` | theorems on `EchoSession`, from those on the simple server |
| `ProgramsProofs` | theorems on the other programs as `MCPrograms` runs them |

### How state and actions correspond to the code

A variable has the name of the program's where there is one; `pc`, and `st` in a
thread's record, say before which call the code stands.  An action is what the
code does from one system call to the next, so that everything another thread,
a client or the kernel can get in between is a step of its own.  `send()` is a
step per byte, because it blocks in the middle and the client acts meanwhile.
An error branch is an action: it is enabled where the resource really is used up
(no free descriptor, no free thread or block) or where the constant `Faults`
allows the call to fail without cause.

In `TcpSocket` the k-th byte of client c is the pair `<<c, k>>`; a byte that
reaches the wrong client, or the right one twice or too early, is seen.
`accept()` and `socket()` return the lowest free descriptor, as POSIX requires,
so numbers are reused as early as they are in reality.  A client may connect,
send, read, close in order (FIN) or with unread bytes (RST) at any moment.  A
reset is reported to one call and later writes raise SIGPIPE.  Which waiting
connection `accept()` takes is left open.

In `EchoSession` the steps of `TcpSocket`'s clients belong to two: the program of
the client (connect, hand the message to the kernel, take one `recv()`, end) and
the network, which delivers the bytes of the message and, behind them, the FIN
or RST of a client that has ended.  `disconnect()` of the C++ client (cpp:408) is
a `shutdown()` before the `close()`: its FIN goes out even if a part of the echo
is unread, and the RST that answers the rest comes after it, so that the server
meets EPIPE and not ECONNRESET (`Disconnects`).

`BandwidthTest` keeps the difference of the two byte counters, which alone
matters to how they agree and does not grow.  Its clock moves in seconds at any
time; C compares whole seconds, and C++ durations that may be a fraction less.

The three programs with files have the file system in their state: `Crash` ends
a run anywhere, or after its end, and starts the next one on the files it left.

Operators under a comment "Seeded fault" are the same step with a plausible
mistake in it.  They are not part of `Next`; each one is there to show that a
property notices the mistake.

## Runs

`expect` is what TLC must report.

| Run | Expect | Question and instance |
|---|---|---|
| `mt_safety` | pass | Do failing calls, thread interleavings, resets or reused numbers leak, share or doubly free anything, or mix streams up?  2 clients, 2 threads, 3 blocks, 2 bytes each, every call may fail.  Refines `EchoService`. |
| `mt_served` | pass | Is a client that reads served although another one never reads, and a leaver released? |
| `one_safety` | pass | Does one of the servers with one thread lose or double a connection, block in `recv()`, mix streams up or turn to the next client too early?  Does a `select()` server that leaves its loop close each socket once?  Three clients at an array (vector) of two, so that the third finds it full; failing calls. |
| `one_served` | pass | If all clients read, is each one served, and each leaver released?  By all three; for the simple server each client also leaves when it is served. |
| `sel_headofline` | violation | ... and if one does not read? |
| `tcp_safety` | pass | Ownership and the service of `TCPServer`, with `stop()` at any moment and exceptions. |
| `tcp_stop` | pass | Does `stop()` return, and does it end `run()`, if the clients leave? |
| `tcp_address` | violation | Does a thread learn the address of its own client? |
| `vec_refused` | violation | Is a client turned away only while the server is full? |
| `programs` | pass | Ten programs, each by itself: with any signals, failed `pipe()` and `fork()` calls and kills; any loss, duplication and order of datagrams; a TCP client that gives up at any moment; clocks that end a bandwidth test from either side; a connection attempt answered at any moment; failed calls and killed runs of the programs with files. |
| `bandwidth_killed` | violation | Does a bandwidth client get to print its measurement? |
| `sig_three` | violation | Do three Ctrl+C always end the program? |

What the properties mean is said at their definitions.  The ones that carry the
weight:

* `ImplementsEchoService`: each server is a refinement of one abstract service.
  A client gets nothing but its own next byte, nothing before `accept()`, and
  nothing after its connection is closed; a connection is taken up once.
* `FdOwnership`, `SlotsAreConnections`, `EveryConnectionTracked`: the open
  connections and the places that hold a descriptor correspond one to one, which
  is what goes wrong when an error path forgets a `close()`, or does it twice
  and hits a number that was given out again.  `SlotsAreConnections` goes on after
  the loop: when `select()` has failed, each entry that the closing loop
  (c:648-653), or the destruction of the vector, comes to is open, each that it
  has passed is closed, and at the end the listening socket is closed too.
* `RecvNeverBlocks`: a select loop that calls `recv()` on what is not ready
  stops for everybody.  It has to hold although the array is changed and
  descriptors are closed and given out again after `select()` returned.
* `CloseIsJustified`: apart from want of a thread and the end of the process, a
  connection is closed only after the client left, and an orderly leaver has
  been sent everything.
* `AnswersAreEchoes`: a UDP client takes whatever comes to its port for its answer.
  That is its own echo, cut to the buffers, or that of an earlier run which had
  the same port, and nobody else's.
* `StopCompletes`, `StopEndsRun`, `NoThreadOutlives`: `stop()` joins with the
  mutex held while `run()` may want it.
* `ServerSurvives`: the simple server is ended by SIGPIPE only if one of its
  clients left before it had the whole echo.
* `EveryoneEnds`: no program waits for ever for one that waits for it, in five
  programs at once: pipes, processes, UDP, the TCP session and the bandwidth
  test, where the server looks at its clock only between two calls that block.
* `ReportsAgree`: the server never counts more than the client sent, and exactly
  as much when it read to the end.
* `ConnectIsHonest`: the descriptor is returned for a connection that stood, -1
  with the descriptor closed, at whatever moment the answer or the timeout came.
* `HeapDiscipline`, `FilesWhole`, `CleanedUp`: whichever call fails, the run gives
  back what it took; the file is that of this run, whatever a killed run left;
  the tree is gone after the cleanup, that of a killed run as well, unless the
  program lost its way or somebody else has a file in it.

### Bounds

* Two clients are enough for one stream to be mixed up with another and for one
  descriptor, block or thread id to be reused while its last user is still
  there; three where an array of two must be full.  Each client connects once;
  reuse of numbers needs another client, not the same one again.
* `FD_SETSIZE` is 2 in `one_safety` (and 6, above every descriptor, in
  `one_served`).  Descriptors start at 3 as in the program, so at 2 each one is
  also out of range of `fd_set`; the model then lets the process die of it at any
  round or go on, and the properties hold on both ways.
* Two bytes per client and `BufSize = 2` allow a `recv()` of part, and of all,
  of what was sent; `SockBuf = 1` makes a two-byte `send()` block in its middle,
  where resets cut it short.  The real sizes differ only in scale: no branch of
  the code looks at a size.
* `Rlimit` leaves three descriptors for the listening socket and two clients (four
  where there are three clients), so `accept()` runs into EMFILE.
* Two threads: creation fails for a third.  Three blocks: one per thread and one
  for main.
* `programs`: three SIGINT and one of each other signal; five numbers as in the
  code, and pipes of two lines so that writers block; three runs of the UDP
  client on two ports, so that a port is reused, with messages of 1, 2 and 3
  bytes against buffers of 2 (server) and 1 (client).  The TCP session has two
  clients, so that one waits in the backlog, and messages of three bytes against
  buffers of one at the server and in the kernel and one `recv()` of three bytes
  at the client, which may get a part of the echo.  `accept()` does not fail there:
  one that failed for ever would be a loop without an end.  The bandwidth server
  receives for 2 seconds and the client sends for 0, 2 or 3: shorter, equal and
  longer; a buffer is 2 units and the kernel holds 3, so that a `send()` blocks in
  its middle.  `nonblocking_connect()` waits for 2 seconds.  Each program with
  files is killed up to twice (`MaxCrashes`): a run can find what a run left that
  itself had found something.  The programs share nothing: each behaviour is a
  run of one of them, so the run asks the questions of all ten without their
  product.  `MCOneThread` does the same with three servers.

Deadlock is not checked: every program here ends, or waits for ever when all
clients have gone.

### Fairness

* `mt_served`, `one_served`, `tcp_stop`: the scheduler runs every thread that can
  run, so weak fairness of main and of each thread.  TCP delivers the reset that
  answers data sent to a closed peer.  Nothing is assumed of a client unless it
  is in `Patient`: then it goes on reading (and, in `tcp_stop` and for the simple
  server in `one_served`, leaves when it has all).  No client has to connect, send or close in `mt_served` and
  `one_served`; `Stalled` ones never read or close.
* `programs`: every process is scheduled, and the kernel delivers a pending
  signal in the end.  Of the UDP server and the network nothing is assumed: the
  client's receive timeout ends it.  TCP does deliver: in the session the rest of
  a message and the FIN of each client, in the bandwidth test the reset; the
  clock goes on.  No signal, failure of `pipe()` or `fork()`, kill or crash has to happen.  The
  programs with files and `nonblocking_connect()` have safety properties only:
  their calls do not wait for anybody, but for the `select()` with its timeout.

`tcp_stop` needs clients that leave: `stop()` joins threads which wait in
`recv()`, and returns when their clients are gone and not before.

## Findings

Disagreements between the code and what it says, each shown by a run:

* `sel_headofline` (c:642).  Accepted descriptors of the select server are
  blocking; `send()` to a client that does not read stops the loop for all.
* `tcp_address` (cpp:321).  `client_ip` is passed to the thread as a pointer and
  converted there; the next iteration of `run()` may have overwritten it.  The
  thread then logs another client's address.
* `vec_refused` (cpp:586).  Entries of clients that left are never reused, and
  after FD_SETSIZE connections in all every client is refused.
* `bandwidth_killed` (c:770).  When the server's ten seconds are over it closes; a
  client that goes on sending gets SIGPIPE and never prints what the test
  "measures" (c:661).
* `sig_three` (signal_handling.c:15, :53).  Interrupts that are pending together
  are one; "three times" may not be enough.

Behaviour the models contain and no run is spent on:

* SIGPIPE is ignored nowhere (c:222, c:642, cpp:128): a client that resets its
  connection at the right moment ends the whole server.  `SendKills` does that
  in every server module, and the safety properties are stated with it;
  `ServerSurvives` says which clients of the repository it takes.
  `PatientServed` holds despite it because the kill needs a client that leaves
  before it has its echo, which neither a patient nor a stalled client does.
* FD_SET of a descriptor beyond FD_SETSIZE (c:590) writes outside the set.  The
  README suggests `ulimit -n 2048` (README.md:348), which makes it reachable.
  `BuildCorruptsStack` covers it.
* `stop()` joins the threads in the vector when it walks it (cpp:289-320).
  `run()` may add one afterwards; the destructor's second `stop()` joins that
  one (`NoThreadOutlives`).
* Threads are joined nowhere else (cpp:254): a long-lived server keeps a finished
  thread per client it ever had.
* `start()` sets `running` after `listen()` (cpp:281): a `stop()` before it is
  lost.  `StopEndsRun` is stated for a `stop()` that finds `running` set.
* The handlers call `printf()` (signal_handling.c:14), which the README warns of
  (README.md:308).  The model lets a re-entered `printf()` return.
* "Set connection timeout (5 seconds)" (c:139) sets the receive timeout only:
  `connect()` takes as long as the kernel tries.  In `EchoSession` a connect
  fails or succeeds at any moment, so nothing depends on it.
* Nothing calls `nonblocking_connect()`, and it does not look at the result of
  `inet_pton()` (c:479): a wrong address is 0.0.0.0, this host.
* The bandwidth test divides by the seconds that passed (c:723, c:779), which are
  0 if the client ends at once; it prints inf or nan.  The C++ client counts the
  whole buffer when `send()` took a part of it (cpp:498, cpp:691), so its figure
  is too high and not too low: `ReportsAgree` has `>=`.
* `buffer[bytes_read]` with -1 (file_io.c:39) writes before the buffer; only after
  `open()` or `read()` failed, which is the second half of `FileIsWhole`.
* "Replace "example" with "EXAMPLE"" (memory_management.c:90) writes at offset 20
  of a text that has the word at 19: the file says "eEXAMPLE- This".  The text
  that is read back (line 106) is printed without a NUL behind it.
* If `getcwd()` fails, `chdir(original_dir)` (directory_ops.c:143) goes to a path
  that was never set, and "Cleaned up test directories" (line 200) is not true of
  what the relative paths then miss (`strayed`).

## Proofs

Every safety property that a passing run checks is proved with TLAPS, for any
values of the constants that satisfy the assumptions.  These say that sizes and
times are numbers, positive where a size of nothing has no meaning, that
descriptors 0 to 2 are taken, that the patient and the stalled clients are
different ones, and which calls `Faults` may name.  `Threads` of the `TCPServer`
is finite, because the vector that `run()` fills is one; finiteness is assumed of
nothing else.  The bounds of TLC (`MaxSends`, `MaxCrashes`, `Lines`, `Runs`,
`MaxBytes`) are any numbers or sets here.

| Module | Theorem | States |
|---|---|---|
| `MultithreadedEchoServerProofs` | `TypeCorrect` | `Spec => []TypeOK` |
| | `FdsOwned`, `BlocksOwned`, `NoZombieThreads` | `FdOwnership`, `BlockOwnership`, `ThreadsReclaimed` |
| | `EchoIsPrefix`, `ClosesAreJustified`, `Refinement` | `EchoPrefix`, `CloseIsJustified`, `ImplementsEchoService` |
| `SimpleEchoServerProofs` | `TypeCorrect`, `EchoIsPrefix`, `Refinement` | as above |
| | `ServesOneAtATime` | `OneAtATime` |
| `SelectServersProofs` | `TypeCorrect`, `EchoIsPrefix`, `ClosesLeaversOnly`, `Refinement` | as above, for both servers |
| | `TableIsConnections`, `NeverBlocksInRecv`, `NothingForgotten` | `SlotsAreConnections`, `RecvNeverBlocks`, `EveryConnectionTracked` |
| | `AllTypesCorrect`, `SimpleServesOneAtATime` | `TypesOK` and `OneAtATime` of `MCOneThread` |
| `EchoSessionProofs` | `SessionImplements` | `SessionSpec => Spec`: the repository's clients are clients of the server |
| | `SurvivesWholeReaders`, `AnswersAreOwn` | `ServerSurvives`; an answer is a beginning of the client's message |
| `TCPServerProofs` | `TypeCorrect`, `EchoIsPrefix`, `ClosesAreJustified`, `Refinement` | as above |
| | `OneSocketPerConnection`, `AllThreadsJoined` | `FdOwnership`, `NoThreadOutlives` |
| | `VectorIsGuarded` | nobody else touches the vector while a `stop()` goes through it |
| `SignalHandlingProofs` | `TypeCorrect` | `Spec => []TypeOK` |
| | `CountExact`, `OneLateRound` | `CountIsExact`, `AtMostOneLateRound` |
| | `ExitsOnRequest` | it exits by itself only after three interrupts or a SIGTERM |
| `ProgramsProofs` | `TypesCorrect` | `TypesOK` of `MCPrograms` |
| | `NoChildLeft`, `PipesStayOpen`, `TruePrints` | `ChildrenReaped`, `NoSigpipe`, `PrintedIsTrue` |
| | `OwnEchoes`, `ServerLives` | `AnswersAreEchoes`, `ServerSurvives` |
| | `HonestConnect`, `Throughputs` | `ConnectIsHonest`, `ReportsAgree` |
| | `WholeFiles`, `HeapGivenBack`, `TreeRemoved` | `FilesWhole`, `HeapDiscipline`, `CleanedUp` |

Two kinds of specification occur.  `Spec` of a server allows any clients and has no
fairness in the safety proofs; `ProgramsSpec` and `OneThreadSpec` are the
compositions that the runs check, in which a step is a step of one program
(`EachProgram`), so that the invariants of the programs are proved one by one.

One habit of the models serves the proofs: two fields of a record in a function are
changed by `[f EXCEPT ![x] = [@ EXCEPT !.a = v, !.b = w]]` and not by
`[f EXCEPT ![x].a = v, ![x].b = w]`.  The two mean the same, but tlapm 1.4.5 gives
the second to SMT as two equations for one index that contradict each other, and
then proves anything.  Every leaf of the proofs given to SMT has also been tried
with `FALSE`, or its negation, as the goal: those that pass are the refutations
they are meant to be.

### The TCP servers

`TcpSocketProofs` proves for each system call that it keeps the kernel's types
(`KernelTypeOK`) and `KernelInv`: a descriptor refers to an accepted connection, no
two to the same, and only a client that left resets.  `InStep(c, b)` says that what
was echoed to c, and behind it b, is what was taken from c, unless c reset the
connection; `Prefix(c)` that c was echoed its first bytes.  After a short `send()`
bytes are lost; both still hold because the reset that cut it short stays on
record and nothing can be sent after it.  The lemmas on `EchoService` say which
change of one connection is which of its steps.

* Multithreaded server.  `TypeInv` is `TypeOK` and "a thread has bytes in its buffer
  exactly while it is in `send()`", without which `Head` and `Tail` of the buffer
  have no type.  `OwnInv` adds the three ownership properties and `MainHoldsFd`:
  between `accept()` and `pthread_create()` the block holds main's descriptor.
  They are inductive only together: that a close does not hit another thread's
  connection needs that descriptors are not shared, which when a thread starts
  needs that blocks are not shared, which when a thread is created needs that
  ids are not in use.  `StreamInv` adds `KernelInv` and `Streams`: each thread is
  in step with its client.
* Simple server.  `OneClient`: the only open connection is that behind `client_fd`,
  from `accept()` to `close()`.  `Streams`: it is in step with that client, and
  closes only one that left and got everything.
* Select servers.  `SelectSpec` is one loop that removes an entry in either way and
  turns away or forgets a client when the table is full; both servers implement
  it (`ArrayLoop`, `VectorLoop` and what follows), and the invariant is proved
  once.  Its core is `StillReadable`: what the scan has still ahead of it, and
  finds set in `read_set`, is readable *now*.  It holds although descriptors are
  closed and given out again after `select()`: an entry leaves the table with its
  descriptor, and `accept()` comes before the scan, when every descriptor in
  `read_set` is still open, so that it returns none of them.  `ListenerKept` says
  until when the listening socket is open; with the entries the closing loop has
  not reached (`Held`) it gives `SlotsAreConnections` after a failed `select()`.
* `TCPServer`.  `VectorOfThreads` (every thread ever started is in the vector, once),
  `MutexHolder` (who may be in the vector) and `Joining` (what the destructor has
  behind its iterator is joined) are inductive together and give
  `NoThreadOutlives` and `VectorIsGuarded`; `FdOwnership` and `Streams` add the
  Sockets.
* The session.  `SessionInv` relates a client's program to its connection; in the
  middle is that a reset comes only from an echo the client did not read, which
  is what `ServerSurvives` counts.

`Refinement` maps in each case the initial state and each action to an initial
state and a step of `EchoService` or a stutter; the only action that maps to
`Echo` is the sending of a byte, and that it is the right byte is `Streams`.

### The other programs

* Signals.  `Stack`: main at the bottom and above it each handler once at most, for
  a stack of any depth.  `Count`: the counter is the number of interrupts
  delivered less the one whose handler has not stored it yet, and what that one
  read is still the counter.  `Round` and `Requests` are the same for `late` and
  `should_exit`.
* Pipes.  `PipeShape` is what a process has by where it is: `PipePlaces` (at which
  calls each process can be), `PipeLife` (who is unborn, alive, a zombie or
  reaped there), `PipeOrder` (which children the parent has forked and waited
  for) and `PipeHeld` (which ends each one holds open).  `PipeFlow` counts: the numbers before the
  consumer (`Out`), its pipe (`Through`), the buffer of the squarer (`Squared`) and
  the squarer itself (`Taken`) follow one another without a gap, up to the
  process that died.  `PipeCall` does this for the line and the answer.
  `PipeQuiet`: while no fork failed and nobody was killed, whoever writes has a
  reader, whoever waits has a writer.
* Processes.  `ForkFirstTwo` and `ForkThree`: of the children the parent has as many
  settled as `wait()` returned; `ForkCodes`: one that ended has its code.
* UDP.  `UdpNet`: a datagram on its way to a port is the message, or the echo of
  the message, of a run that has had that port, cut to the server's buffer;
  `UdpPorts`: two that wait have two ports.
* Bandwidth.  `BandwidthGap`: the client is ahead by no less than what is on the
  wire, and by just that without a reset.
* Files, memory, directories.  `FileOK`, `MemoryHeld`, `MemoryDisk`, `DirTree`,
  `DirPlace`, `DirRemoved`: for each call what the run has opened, taken, written
  or removed by then if no call failed, and what holds even if one did, so that
  the next run may start from it.

Only model-checked: liveness (`PatientServed`, `LeaversReleased`, `StopCompletes`,
`StopEndsRun`, `EveryoneEnds`, `RequestHonoured`), which needs fairness and
`ENABLED` and which TLAPS does not reach; and the disagreements under Findings, which are
counterexamples.

## Not modelled

* `system_info.c` prints what `uname()`, `sysinfo()`, `getenv()` and others return;
  the `main`s choose a function by an argument; `Makefile` and guides: there is no
  state to say anything of.
* Example 4 of `memory_management.c` (lines 110-134) works on local arrays with
  constants; nothing in it depends on an input or can fail.
* Failure of `pipe()` in the third example of `pipes_ipc.c` (lines 97-98): nothing
  looks at the result, and what follows works on descriptors that were never
  set.  That of the first two (lines 13 and 52), which ends the parent, is in the
  model (`PipeFails`).
* What is printed, but for the lines a property is about; what listing and
  walking a directory shows; the temporary file in `/tmp` of a killed run.
* The five seconds of `select()` in the servers and the second of `sleep()` as
  times (a timeout may happen whenever nothing is ready); failure of `close()` and
  of `recv()` for want of memory; EINTR, as no server installs a handler.
* Several clients of one bandwidth server: it accepts one.
* Restarts of the socket programs: they keep nothing beyond the process.

## Plan

1. Done: the TCP kernel, the abstract service, the five echo servers, UDP, the
   three multi-process programs, and the proofs of the multithreaded server.
2. Done: the clients with the simple server, the non-blocking connect, the
   bandwidth test, the programs with files, memory and directories; the C++
   select server in one composition with the C one.
3. Done: the safety properties of all servers and programs as theorems.
4. Next: shorter proofs where a lemma is stated twice under two instances, further
   facts the invariants already hold (who may be waited for by whom in
   `pipes_ipc`), and leaves that take the provers long.
