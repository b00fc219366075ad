-------------------------------- MODULE Pipes --------------------------------
(***************************************************************************)
(* The kernel under pipes_ipc.c: pipes with a bounded buffer, the ends of  *)
(* them every process holds, and processes that fork, exit and are waited  *)
(* for.  None of it is code of the repository; it is modelled from how     *)
(* pipes_ipc.c uses it.                                                    *)
(***************************************************************************)
EXTENDS Integers, Sequences, FiniteSets

CONSTANTS
    Procs,      \* the processes of the program
    PipeIds,    \* its pipes
    PipeSize    \* bound: messages a pipe holds

VARIABLES
    held,       \* held[p]: the ends process p has open
    content,    \* content[i]: what has been written to pipe i and not read
    life        \* life[p]: unborn, alive, zombie or reaped

pipes == <<held, content, life>>

Ends == PipeIds \X {"r", "w"}

PipesInit(root) ==
    /\ held = [p \in Procs |-> {}]
    /\ content = [i \in PipeIds |-> <<>>]
    /\ life = [p \in Procs |-> IF p = root THEN "alive" ELSE "unborn"]

\* pipe(): p opens both ends of every pipe of S.
Open(p, S) ==
    /\ held' = [held EXCEPT ![p] = @ \cup (S \X {"r", "w"})]
    /\ UNCHANGED <<content, life>>

\* fork(): the child starts with every end its parent has.
Fork(p, child) ==
    /\ life[child] = "unborn"
    /\ life' = [life EXCEPT ![child] = "alive"]
    /\ held' = [held EXCEPT ![child] = held[p]]
    /\ UNCHANGED content

Close(p, E) ==
    /\ held' = [held EXCEPT ![p] = @ \ E]
    /\ UNCHANGED <<content, life>>

Readers(i) == {p \in Procs : <<i, "r">> \in held[p]}
Writers(i) == {p \in Procs : <<i, "w">> \in held[p]}

\* read() returns data, or 0 once no process holds the write end.
Read(p, i) ==
    /\ <<i, "r">> \in held[p]
    /\ content[i] # <<>>
    /\ content' = [content EXCEPT ![i] = Tail(@)]
    /\ UNCHANGED <<held, life>>

AtEof(p, i) ==
    <<i, "r">> \in held[p] /\ content[i] = <<>> /\ Writers(i) = {}

Write(p, i, m) ==
    /\ <<i, "w">> \in held[p]
    /\ Readers(i) # {}
    /\ Len(content[i]) < PipeSize
    /\ content' = [content EXCEPT ![i] = Append(@, m)]
    /\ UNCHANGED <<held, life>>

\* Writing to a pipe nobody can read raises SIGPIPE.
Broken(i) == Readers(i) = {}

\* exit() or a signal: every end is closed.
Die(p) ==
    /\ life' = [life EXCEPT ![p] = "zombie"]
    /\ held' = [held EXCEPT ![p] = {}]
    /\ UNCHANGED content

\* wait(NULL) among the children S; -1 at once if there is none.
WaitAny(S) ==
    /\ UNCHANGED <<held, content>>
    /\ \/ \E c \in S : life[c] = "zombie" /\ life' = [life EXCEPT ![c] = "reaped"]
       \/ (\A c \in S : life[c] \notin {"alive", "zombie"}) /\ UNCHANGED life
=============================================================================
