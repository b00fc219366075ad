-------------------------------- MODULE FileIO --------------------------------
(***************************************************************************)
(* file_io.c: a program that writes test.txt, reads it twice and appends   *)
(* to it.  A run may be killed between any two calls and be started again; *)
(* the file stays.  Any call may fail; the program looks at the result of  *)
(* some.                                                                   *)
(***************************************************************************)
EXTENDS Naturals, Sequences

CONSTANT
    MaxCrashes  \* bound: how often a run is killed

VARIABLES
    pc,         \* the call the program makes next
    fd,         \* "open", or "-1"
    file,       \* what test.txt holds: whole writes, and "part" of a short one
    failed,     \* did a call of this run fail, or write less than it was told?
    underrun,   \* was buffer[-1] written, outside of the buffer?
    crashes

vars == <<pc, fd, file, failed, underrun, crashes>>

TypeOK ==
    /\ pc \in {"create", "write", "open", "read", "open_seek", "read_5",
               "open_append", "append", "ended", "exit", "killed"}
    /\ fd \in {"open", "-1"}
    /\ file \in UNION {[1..n -> {"data", "part", "append"}] : n \in 0..2}
    /\ failed \in BOOLEAN
    /\ underrun \in BOOLEAN
    /\ crashes \in 0..MaxCrashes

\* Nothing is there before the first run: what O_CREAT makes is empty as well.
Init ==
    /\ pc = "create"
    /\ fd = "-1"
    /\ file = <<>>
    /\ failed = FALSE
    /\ underrun = FALSE
    /\ crashes = 0

Step(from, to) == pc = from /\ pc' = to
Fails == failed' = TRUE
Works == UNCHANGED failed

\* Seeded fault: O_TRUNC is forgotten.
CreateKeeps ==
    /\ Step("create", "write")
    /\ fd' = "open"
    /\ UNCHANGED <<file, failed, underrun, crashes>>

Create ==
    /\ \/ Step("create", "write") /\ fd' = "open" /\ file' = <<>> /\ Works
       \/ Step("create", "exit") /\ UNCHANGED <<fd, file>> /\ Fails
    /\ UNCHANGED <<underrun, crashes>>

\* Written over what is at the beginning of the file; all, a part, or nothing.
Write ==
    /\ Step("write", "open")
    /\ \/ file' = <<"data">> \o SubSeq(file, 2, Len(file)) /\ Works
       \/ file' = <<"part">> \o SubSeq(file, 2, Len(file)) /\ Fails
       \/ UNCHANGED file /\ Fails
    /\ UNCHANGED <<fd, underrun, crashes>>

Open(from, checked, to) ==
    /\ \/ Step(from, to) /\ fd' = "open" /\ Works
       \/ Step(from, IF checked THEN "exit" ELSE to) /\ fd' = "-1" /\ Fails
    /\ UNCHANGED <<file, underrun, crashes>>

Opens ==
    \/ Open("open", TRUE, "read")
    \/ Open("open_seek", FALSE, "read_5")
    \/ Open("open_append", FALSE, "append")

\* A result of -1 is noticed here.
Read ==
    /\ Step("read", "open_seek")
    /\ Works \/ Fails
    /\ UNCHANGED <<fd, file, underrun, crashes>>

\* lseek() and read(); here it is an index, and what buffer[-1] overwrites may
\* or may not end the program.
Read5 ==
    /\ \/ /\ Step("read_5", "open_append") /\ fd = "open"
          /\ Works /\ UNCHANGED underrun
       \/ /\ Step("read_5", "open_append") \/ Step("read_5", "killed")
          /\ Fails /\ underrun' = TRUE
    /\ UNCHANGED <<fd, file, crashes>>

AppendLine ==
    /\ Step("append", "ended")
    /\ \/ fd = "open" /\ file' = Append(file, "append") /\ Works
       \/ fd = "open" /\ file' = Append(file, "part") /\ Fails
       \/ UNCHANGED file /\ Fails
    /\ UNCHANGED <<fd, underrun, crashes>>

\* The run is killed, or has ended, and the program is started once more.
Crash ==
    /\ crashes < MaxCrashes
    /\ crashes' = crashes + 1
    /\ pc' = "create" /\ fd' = "-1" /\ failed' = FALSE /\ underrun' = FALSE
    /\ UNCHANGED file

Next == Create \/ Write \/ Opens \/ Read \/ Read5 \/ AppendLine \/ Crash

Spec == Init /\ [][Next]_vars

-----------------------------------------------------------------------------
\* A run that ends with no call failed leaves exactly what it wrote in the file,
\* whatever runs before it left there, and it is the failure of a call that
\* nobody looks at, if anything, that makes the program write outside of its
\* buffer or takes away its end (lines 9-47).
FileIsWhole ==
    /\ pc = "ended" /\ ~failed => file = <<"data", "append">>
    /\ underrun \/ pc = "killed" => failed
=============================================================================
