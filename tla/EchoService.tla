----------------------------- MODULE EchoService -----------------------------
(***************************************************************************)
(* What every TCP echo server of the repository promises, whatever its     *)
(* architecture: a client that has connected and is being served gets its  *)
(* own bytes back, each one once and in the order it sent them, and        *)
(* nothing once its connection is closed.                                  *)
(***************************************************************************)
EXTENDS Naturals, Sequences

CONSTANTS Clients, MaxBytes

VARIABLES
    phase,      \* phase[c]: how far the server is with client c
    sent,       \* sent[c]: how many bytes client c has sent
    echo        \* echo[c]: the bytes the server has returned to client c

vars == <<phase, sent, echo>>

Init ==
    /\ phase = [c \in Clients |-> "idle"]
    /\ sent = [c \in Clients |-> 0]
    /\ echo = [c \in Clients |-> <<>>]

Arrive(c) ==
    /\ phase[c] = "idle"
    /\ phase' = [phase EXCEPT ![c] = "waiting"]
    /\ UNCHANGED <<sent, echo>>

Serve(c) ==
    /\ phase[c] = "waiting"
    /\ phase' = [phase EXCEPT ![c] = "serving"]
    /\ UNCHANGED <<sent, echo>>

Send(c) ==
    /\ phase[c] \in {"waiting", "serving"}
    /\ sent[c] < MaxBytes
    /\ sent' = [sent EXCEPT ![c] = @ + 1]
    /\ UNCHANGED <<phase, echo>>

\* The next byte the client has not had back.
Echo(c) ==
    /\ phase[c] = "serving"
    /\ Len(echo[c]) < sent[c]
    /\ echo' = [echo EXCEPT ![c] = Append(@, <<c, Len(@) + 1>>)]
    /\ UNCHANGED <<phase, sent>>

\* The server closes one connection, or all it has when it ends.
Leave(S) ==
    /\ \A c \in S : phase[c] \in {"waiting", "serving"}
    /\ phase' = [c \in Clients |-> IF c \in S THEN "gone" ELSE phase[c]]
    /\ UNCHANGED <<sent, echo>>

Next ==
    \/ \E c \in Clients : Arrive(c) \/ Serve(c) \/ Send(c) \/ Echo(c)
    \/ \E S \in SUBSET Clients : Leave(S)

Spec == Init /\ [][Next]_vars
=============================================================================
