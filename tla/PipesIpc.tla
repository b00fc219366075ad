------------------------------- MODULE PipesIpc -------------------------------
(***************************************************************************)
(* pipes_ipc.c: one parent that runs three examples after another.  It     *)
(* sends a message to "reader", calls "callee" and gets an answer, and     *)
(* reads what "squarer" makes of the numbers of "generator".               *)
(*                                                                         *)
(* The pipe() calls of the third example succeed: nothing looks at their   *)
(* results, and after a failure the rest works on descriptors that were    *)
(* never set.                                                              *)
(***************************************************************************)
EXTENDS Pipes

CONSTANTS
    Lines,      \* numbers the generator writes (5 in the code)
    CallsMayFail, \* may pipe() and fork() fail?
    Killable    \* processes that a signal from outside may kill

VARIABLES
    pc,         \* pc[p]: where process p is
    line,       \* line[p]: the value p read last or writes next
    wp,         \* lines in the squarer's stdio buffer
    results     \* what the parent printed in example 3

Kids == {"reader", "callee", "generator", "squarer"}

vars == <<pipes, pc, line, wp, results>>

R(i) == <<i, "r">>
W(i) == <<i, "w">>

Init ==
    /\ PipesInit("parent")
    /\ pc = [p \in Procs |-> IF p = "parent" THEN "pipe_1" ELSE "none"]
    /\ line = [p \in Procs |-> 0]
    /\ wp = <<>>
    /\ results = <<>>

At(p, label) == pc[p] = label
Goto(p, label) == pc' = [pc EXCEPT ![p] = label]

\* none: not forked yet; unforked: fork() failed; shot, killed, done: ended by a
\* signal from outside, by SIGPIPE, by itself.
Labels ==
    {"none", "unforked", "begin", "read", "write", "print", "close", "flush",
     "exit", "done", "killed", "shot",
     "pipe_1", "fork_1", "close_1", "write_1", "shut_1", "wait_1",
     "pipe_2", "fork_2", "close_2", "write_2", "read_2", "shut_2", "wait_2",
     "pipe_3", "fork_gen", "fork_sq", "close_3", "read_3", "print_3", "shut_3",
     "wait_3", "wait_4"}

TypeOK ==
    /\ held \in [Procs -> SUBSET Ends]
    /\ content \in [PipeIds -> Seq(Nat)]
    /\ \A i \in PipeIds : Len(content[i]) <= PipeSize
    /\ life \in [Procs -> {"unborn", "alive", "zombie", "reaped"}]
    /\ pc \in [Procs -> Labels]
    /\ line \in [Procs -> Nat]
    /\ line["generator"] <= Lines
    /\ wp \in Seq(Nat)
    /\ results \in Seq(Nat)

\* Process p does A, which is about the pipes only, between two places.
Step(p, from, A, to) ==
    At(p, from) /\ A /\ Goto(p, to) /\ UNCHANGED <<line, wp, results>>

\* pipe() fails when the pipes of S have been made, and the parent leaves.
PipeFails(from, S) ==
    CallsMayFail /\ Step("parent", from, Open("parent", S), "exit")

\* The child starts to run, or fork() fails.
ForkStep(from, child, to) ==
    /\ At("parent", from)
    /\ Fork("parent", child)
    /\ pc' = [pc EXCEPT !["parent"] = to, ![child] = "begin"]
    /\ UNCHANGED <<line, wp, results>>

ForkFails(from, child, to) ==
    /\ CallsMayFail
    /\ At("parent", from)
    /\ pc' = [pc EXCEPT !["parent"] = to, ![child] = "unforked"]
    /\ UNCHANGED <<pipes, line, wp, results>>

\* read() of data, or of the end of file.
ReadStep(p, from, i, to) ==
    /\ At(p, from)
    /\ Read(p, i)
    /\ line' = [line EXCEPT ![p] = Head(content[i])]
    /\ Goto(p, to)
    /\ UNCHANGED <<wp, results>>

EofStep(p, from, i, to) ==
    Step(p, from, AtEof(p, i) /\ UNCHANGED pipes, to)

\* Nobody can read what p writes: SIGPIPE ends it.
KilledStep(p, from, i) == Step(p, from, Broken(i) /\ Die(p), "killed")

-----------------------------------------------------------------------------
(* Example 1: one message to a child.                                      *)

Message == 101

Simple ==
    \/ Step("parent", "pipe_1", Open("parent", {"pipefd"}), "fork_1")
    \/ PipeFails("pipe_1", {})
    \/ ForkStep("fork_1", "reader", "close_1")
    \/ ForkFails("fork_1", "reader", "exit")
    \/ Step("parent", "close_1", Close("parent", {R("pipefd")}), "write_1")
    \/ Step("parent", "write_1", Write("parent", "pipefd", Message), "shut_1")
    \/ KilledStep("parent", "write_1", "pipefd")
    \/ Step("parent", "shut_1", Close("parent", {W("pipefd")}), "wait_1")
    \/ Step("parent", "wait_1", WaitAny(Kids), "pipe_2")

Reader ==
    \/ Step("reader", "begin", Close("reader", {W("pipefd")}), "read")
    \/ ReadStep("reader", "read", "pipefd", "close")
    \/ EofStep("reader", "read", "pipefd", "close")
    \/ Step("reader", "close", Close("reader", {R("pipefd")}), "exit")
    \/ Step("reader", "exit", Die("reader"), "done")

-----------------------------------------------------------------------------
(* Example 2: a call and its answer.  The result of fork() is not checked: *)
(* after a failure the parent runs on as if it had a child.                *)

Call == 102
Answer == 103

Bidirectional ==
    \/ Step("parent", "pipe_2", Open("parent", {"pipe_p2c", "pipe_c2p"}), "fork_2")
    \/ PipeFails("pipe_2", {})
    \/ PipeFails("pipe_2", {"pipe_p2c"})
    \/ ForkStep("fork_2", "callee", "close_2")
    \/ ForkFails("fork_2", "callee", "close_2")
    \/ Step("parent", "close_2",
            Close("parent", {R("pipe_p2c"), W("pipe_c2p")}), "write_2")
    \/ Step("parent", "write_2", Write("parent", "pipe_p2c", Call), "read_2")
    \/ KilledStep("parent", "write_2", "pipe_p2c")
    \/ ReadStep("parent", "read_2", "pipe_c2p", "shut_2")
    \/ EofStep("parent", "read_2", "pipe_c2p", "shut_2")
    \/ Step("parent", "shut_2",
            Close("parent", {W("pipe_p2c"), R("pipe_c2p")}), "wait_2")
    \/ Step("parent", "wait_2", WaitAny(Kids), "pipe_3")

\* Seeded fault: the child closes the ends the parent should close.
CalleeClosesWrongEnds ==
    Step("callee", "begin",
         Close("callee", {R("pipe_p2c"), W("pipe_c2p")}), "read")

CalleeBegins ==
    Step("callee", "begin",
         Close("callee", {W("pipe_p2c"), R("pipe_c2p")}), "read")

Callee ==
    \/ CalleeBegins
    \/ ReadStep("callee", "read", "pipe_p2c", "write")
    \/ EofStep("callee", "read", "pipe_p2c", "write")
    \/ Step("callee", "write", Write("callee", "pipe_c2p", Answer), "close")
    \/ KilledStep("callee", "write", "pipe_c2p")
    \/ Step("callee", "close",
            Close("callee", {R("pipe_p2c"), W("pipe_c2p")}), "exit")
    \/ Step("callee", "exit", Die("callee"), "done")

-----------------------------------------------------------------------------
(* Example 3: generator | squarer | parent, with fork() unchecked.         *)

PrintResult ==
    /\ At("parent", "print_3")
    /\ results' = Append(results, line["parent"])
    /\ Goto("parent", "read_3")
    /\ UNCHANGED <<pipes, line, wp>>

WaitSecond == Step("parent", "wait_4", WaitAny(Kids), "exit")

Pipeline ==
    \/ Step("parent", "pipe_3", Open("parent", {"pipe1", "pipe2"}), "fork_gen")
    \/ ForkStep("fork_gen", "generator", "fork_sq")
    \/ ForkFails("fork_gen", "generator", "fork_sq")
    \/ ForkStep("fork_sq", "squarer", "close_3")
    \/ ForkFails("fork_sq", "squarer", "close_3")
    \/ Step("parent", "close_3",
            Close("parent", {R("pipe1"), W("pipe1"), W("pipe2")}), "read_3")
    \/ ReadStep("parent", "read_3", "pipe2", "print_3")
    \/ PrintResult
    \/ EofStep("parent", "read_3", "pipe2", "shut_3")
    \/ Step("parent", "shut_3", Close("parent", {R("pipe2")}), "wait_3")
    \/ Step("parent", "wait_3", WaitAny(Kids), "wait_4")
    \/ WaitSecond
    \/ Step("parent", "exit", Die("parent"), "done")

\* The generator keeps both ends of pipe2 until it exits.
GeneratorBegins ==
    Step("generator", "begin", Close("generator", {R("pipe1")}), "write")

\* Seeded fault: the loop runs once too often.
GenerateOneMore ==
    /\ At("generator", "write")
    /\ line["generator"] <= Lines
    /\ Write("generator", "pipe1", line["generator"] + 1)
    /\ line' = [line EXCEPT !["generator"] = @ + 1]
    /\ UNCHANGED <<pc, wp, results>>

Generate ==
    /\ At("generator", "write")
    /\ line["generator"] < Lines
    /\ Write("generator", "pipe1", line["generator"] + 1)
    /\ line' = [line EXCEPT !["generator"] = @ + 1]
    /\ UNCHANGED <<pc, wp, results>>

GeneratorEnds ==
    /\ line["generator"] = Lines
    /\ Step("generator", "write", Close("generator", {W("pipe1")}), "exit")

GeneratorKilled ==
    /\ line["generator"] < Lines
    /\ KilledStep("generator", "write", "pipe1")

Generator ==
    \/ GeneratorBegins
    \/ Generate
    \/ GeneratorEnds
    \/ GeneratorKilled
    \/ Step("generator", "exit", Die("generator"), "done")

\* Seeded fault: the child keeps its copy of the write end of its input.
SquarerKeepsWriteEnd ==
    Step("squarer", "begin", Close("squarer", {R("pipe2")}), "read")

SquarerBegins ==
    Step("squarer", "begin", Close("squarer", {W("pipe1"), R("pipe2")}), "read")

\* fprintf() only fills the stdio buffer, which holds all the lines.
Square ==
    /\ At("squarer", "print")
    /\ wp' = Append(wp, line["squarer"] * line["squarer"])
    /\ Goto("squarer", "read")
    /\ UNCHANGED <<pipes, line, results>>

\* fclose(wp) writes the buffer; the pipe takes it as it has room.
Flush ==
    /\ At("squarer", "flush")
    /\ wp # <<>>
    /\ Write("squarer", "pipe2", Head(wp))
    /\ wp' = Tail(wp)
    /\ UNCHANGED <<pc, line, results>>

FlushEnds ==
    wp = <<>> /\ Step("squarer", "flush", Close("squarer", {W("pipe2")}), "exit")

Squarer ==
    \/ SquarerBegins
    \/ ReadStep("squarer", "read", "pipe1", "print")
    \/ Square
    \/ EofStep("squarer", "read", "pipe1", "close")
    \/ Step("squarer", "close", Close("squarer", {R("pipe1")}), "flush")
    \/ Flush
    \/ FlushEnds
    \/ KilledStep("squarer", "flush", "pipe2")
    \/ Step("squarer", "exit", Die("squarer"), "done")

-----------------------------------------------------------------------------
Parent == Simple \/ Bidirectional \/ Pipeline

\* kill -9 from outside.
Kill(p) ==
    /\ p \in Killable
    /\ life[p] = "alive"
    /\ Step(p, pc[p], Die(p), "shot")

Next ==
    \/ Parent
    \/ Reader
    \/ Callee
    \/ Generator
    \/ Squarer
    \/ \E p \in Procs : Kill(p)

Spec == Init /\ [][Next]_vars

-----------------------------------------------------------------------------
(* Properties.                                                             *)

Ended(p) == pc[p] \in {"done", "killed", "shot"} \/ life[p] = "unborn"

NothingFailed == \A p \in Procs : pc[p] \notin {"unforked", "shot"}

\* What all processes come to, even when others fail or are killed:
\* nobody waits for an end of file that a forgotten write end holds back, and
\* no two processes wait for each other (lines 25-43, 61-90, 103-144).
EveryoneEnded == \A p \in Procs : Ended(p)

\* When the parent is done no child is left alive or as a zombie
\* (lines 43, 90, 143-144).
ChildrenReaped ==
    At("parent", "done") =>
       \A k \in Kids : life[k] \in {"unborn", "reaped"}

\* Unless a fork failed or somebody was killed, no process ever writes to a
\* pipe without a reader: each keeps its read end for as long as it is needed
\* (lines 25-41, 61-89, 103-140).
NoSigpipe == NothingFailed => \A p \in Procs : pc[p] # "killed"

\* What is printed is what was sent.  The parent prints the squares in order,
\* and all of them before it goes on to wait; the callee has read the call, and
\* the parent the answer, before either shuts its ends; unless a fork failed or
\* somebody was killed (lines 65-89, 104-140).
PrintedIsSent ==
    /\ \A k \in DOMAIN results : results[k] = k * k
    /\ Len(results) <= Lines
    /\ NothingFailed =>
          /\ At("parent", "wait_3") => Len(results) = Lines
          /\ At("callee", "close") => line["callee"] = Call
          /\ At("parent", "shut_2") => line["parent"] = Answer
=============================================================================
