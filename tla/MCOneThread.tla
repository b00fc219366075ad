----------------------------- MODULE MCOneThread -----------------------------
(***************************************************************************)
(* The three servers that have one thread, on the same kernel and with the *)
(* same clients.  A behaviour is a run of one of them; the properties of   *)
(* SelectLoop are asked of both select() servers, those of EchoServer of   *)
(* all three.                                                              *)
(***************************************************************************)
EXTENDS SelectLoop, TLC

VARIABLES
    program,                                \* the one that was started
    simple_pc, client_fd, simple_unsent     \* of SimpleEchoServer

Array == INSTANCE SelectBasedServer
Vector == INSTANCE SelectEchoServer
Simple == INSTANCE SimpleEchoServer
            WITH pc <- simple_pc, unsent <- simple_unsent

simple_process == <<simple_pc, client_fd, simple_unsent>>
all_vars == <<program, vars, simple_process>>

InSelect(p) == program = p /\ UNCHANGED <<program, simple_process>>
InSimple == program = "simple" /\ UNCHANGED <<program, process>>
ByKernel(A) == A /\ UNCHANGED <<program, process, simple_process>>

OneThreadInit ==
    /\ program \in {"array", "vector", "simple"}
    /\ Init
    /\ Simple!Init

OneThreadNext ==
    \/ InSelect("array") /\ Array!Server
    \/ InSelect("vector") /\ Vector!Server
    \/ InSimple /\ Simple!Server
    \/ ByKernel(\E c \in Clients : ClientStep(c))

OneThreadSpec == OneThreadInit /\ [][OneThreadNext]_all_vars

\* The fairness of SelectBasedServer for all; in addition a patient client of
\* the simple server leaves once it has everything back, to let the next in.
OneThreadFairSpec ==
    /\ OneThreadSpec
    /\ WF_all_vars(InSelect("array") /\ Array!Server)
    /\ WF_all_vars(InSelect("vector") /\ Vector!Server)
    /\ WF_all_vars(InSimple /\ Simple!Server)
    /\ \A c \in Clients : WF_all_vars(ByKernel(ResetArrives(c)))
    /\ \A c \in Patient : WF_all_vars(ByKernel(ClientRecv(c)))
    /\ \A c \in Patient :
          WF_all_vars(program = "simple" /\ ByKernel(ClientClose(c)))

\* The variables of each server keep to their types (its TypeOK).
TypesOK == TypeOK /\ Simple!TypeOK

\* SimpleEchoServer's property under its own name: one client at a time, each
\* one until it leaves (simple_echo_server, lines 78-108).
OneAtATime == Simple!OneAtATime

Symmetry == Permutations(Clients)
=============================================================================
