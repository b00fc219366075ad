-------------------------- MODULE ProcessManagement --------------------------
(***************************************************************************)
(* process_management.c: a parent that forks and waits for a child that    *)
(* exits with 42, one that runs ls, and then three at once.  Children may  *)
(* be killed from outside at any moment; fork() and exec may fail.         *)
(***************************************************************************)
EXTENDS Integers

VARIABLES
    pc,         \* where the parent is
    life,       \* life[k]: how far child k is
    code,       \* code[k]: how child k ended
    status,     \* what wait() left in status
    pid,        \* the child the second fork() returned, or "none" for -1
    i,          \* the loop counters of example 4
    reported    \* the exit status the parent printed

vars == <<pc, life, code, status, pid, i, reported>>

Multiple == {"child0", "child1", "child2"}
Children == {"first", "ls"} \cup Multiple
Child(n) == CASE n = 0 -> "child0" [] n = 1 -> "child1" [] n = 2 -> "child2"

\* -1 stands for death by a signal, -2 for a value nobody has set.
Signaled == -1
Unset == -2
Codes == {Signaled, Unset, 0, 1, 42}

TypeOK ==
    /\ pc \in {"fork_1", "wait_1", "report", "fork_2", "wait_2", "fork_4",
               "wait_4", "completed", "failed"}
    /\ life \in [Children -> {"unborn", "running", "zombie", "reaped"}]
    /\ code \in [Children -> Codes]
    /\ status \in Codes
    /\ pid \in {"none", "ls"}
    /\ i \in 0..3
    /\ reported \in Codes

Init ==
    /\ pc = "fork_1"
    /\ life = [k \in Children |-> "unborn"]
    /\ code = [k \in Children |-> Unset]
    /\ status = Unset
    /\ pid = "none"
    /\ i = 0
    /\ reported = Unset

Step(from, to) == pc = from /\ pc' = to

Fork(k) ==
    /\ life[k] = "unborn"
    /\ life' = [life EXCEPT ![k] = "running"]

\* wait() reaps some child, or fails at once if there is none left.
NoChildLeft == \A k \in Children : life[k] \in {"unborn", "reaped"}

Reap(k) ==
    /\ life[k] = "zombie"
    /\ life' = [life EXCEPT ![k] = "reaped"]

WaitAny == (\E k \in Children : Reap(k)) \/ (NoChildLeft /\ UNCHANGED life)

-----------------------------------------------------------------------------
(* The children.                                                           *)

Exit(k, n) ==
    /\ life[k] = "running"
    /\ life' = [life EXCEPT ![k] = "zombie"]
    /\ code' = [code EXCEPT ![k] = n]
    /\ UNCHANGED <<pc, status, pid, i, reported>>

\* exec succeeds and ls ends, or it fails and the child exits with 1.
ChildStep ==
    \/ Exit("first", 42)
    \/ Exit("ls", 0)
    \/ Exit("ls", 1)
    \/ \E k \in Multiple : Exit(k, 0)

Kill(k) == Exit(k, Signaled)

-----------------------------------------------------------------------------
(* Examples 1 and 2.                                                       *)

ForkFirst ==
    /\ Step("fork_1", "wait_1")
    /\ Fork("first")
    /\ UNCHANGED <<code, status, pid, i, reported>>

ForkFirstFails ==
    Step("fork_1", "failed") /\ UNCHANGED <<life, code, status, pid, i, reported>>

WaitFirst ==
    /\ Step("wait_1", "report")
    /\ \E k \in Children : Reap(k) /\ status' = code[k]
    /\ UNCHANGED <<code, pid, i, reported>>

\* Seeded fault: WEXITSTATUS() is printed without WIFEXITED().
ReportAlways ==
    /\ Step("report", "fork_2")
    /\ reported' = IF status = Signaled THEN 0 ELSE status
    /\ UNCHANGED <<life, code, status, pid, i>>

\* Only a child that exited by itself is reported: WIFEXITED(status).
Report ==
    /\ Step("report", "fork_2")
    /\ reported' = IF status = Signaled THEN reported ELSE status
    /\ UNCHANGED <<life, code, status, pid, i>>

-----------------------------------------------------------------------------
(* Example 3: the failure of fork() is not checked.                        *)

ForkLs ==
    /\ Step("fork_2", "wait_2")
    /\ \/ Fork("ls") /\ pid' = "ls"
       \/ UNCHANGED <<life, pid>>
    /\ UNCHANGED <<code, status, i, reported>>

\* waitpid(pid), where -1 means any child.
WaitLs ==
    /\ Step("wait_2", "fork_4")
    /\ \/ pid = "ls" /\ Reap("ls")
       \/ pid = "none" /\ WaitAny
    /\ UNCHANGED <<code, status, pid, i, reported>>

-----------------------------------------------------------------------------
(* Example 4: three children at once, three times wait().                  *)

\* One round of a for loop, or its end, where i is set for the next loop.
Round(label) ==
    /\ pc = label
    /\ i < 3
    /\ i' = i + 1
    /\ UNCHANGED <<pc, code, status, pid, reported>>

ForkNext == Round("fork_4") /\ (Fork(Child(i)) \/ UNCHANGED life)

ForkDone ==
    /\ Step("fork_4", "wait_4")
    /\ i = 3
    /\ i' = 0
    /\ UNCHANGED <<life, code, status, pid, reported>>

WaitNext == Round("wait_4") /\ WaitAny

\* Seeded fault: the loop waits one time too few.
WaitDoneEarly ==
    /\ Step("wait_4", "completed")
    /\ i = 2
    /\ UNCHANGED <<life, code, status, pid, i, reported>>

WaitDone ==
    /\ Step("wait_4", "completed")
    /\ i = 3
    /\ UNCHANGED <<life, code, status, pid, i, reported>>

Parent ==
    \/ ForkFirst
    \/ ForkFirstFails
    \/ WaitFirst
    \/ Report
    \/ ForkLs
    \/ WaitLs
    \/ ForkNext
    \/ ForkDone
    \/ WaitNext
    \/ WaitDone

Next == Parent \/ ChildStep \/ \E k \in Children : Kill(k)

Spec == Init /\ [][Next]_vars

-----------------------------------------------------------------------------
(* Properties.                                                             *)

\* "All children completed" is true: none runs or is left a zombie, whichever
\* forks failed and whoever was killed (lines 50-66).
CompletedIsTrue == pc = "completed" => NoChildLeft

\* The status printed is that of the first child, and only of a normal exit
\* (lines 26-33).
StatusIsTrue == reported # Unset => reported = 42 /\ code["first"] = 42

\* What the parent comes to, as it does not wait for a child it does not have
\* (lines 26-66).
ParentEnded == pc \in {"completed", "failed"}
=============================================================================
