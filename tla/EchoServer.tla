----------------------------- MODULE EchoServer -----------------------------
(***************************************************************************)
(* What is asked of every TCP echo server of the repository, in terms of   *)
(* its connections only.  The modules of the servers extend this one.      *)
(***************************************************************************)
EXTENDS TcpSocket

\* A step of a blocking send() of the bytes unsent to f, of which rest are left:
\* the kernel takes the next byte, or a reset cuts a call short that has taken
\* some.  The call has returned when rest is empty; the servers do not look at
\* the count it returned.
SendStep(f, unsent, rest, begun) ==
    \/ SendByte(f, Head(unsent)) /\ rest = Tail(unsent)
    \/ begun /\ SendCutShort(f) /\ UNCHANGED kernel /\ rest = <<>>

\* What a client gets back are the first bytes it sent, in order, each once,
\* and none of another client's, whatever the servers' threads and buffers,
\* the short sends they ignore and the resets do.
EchoPrefix ==
    \A c \in Clients :
       /\ Len(conn[c].echo) <= conn[c].taken
       /\ conn[c].taken <= conn[c].sent
       /\ \A k \in 1..Len(conn[c].echo) : conn[c].echo[k] = <<c, k>>

\* A client that keeps reading gets every byte it sends back, though another
\* one never reads: the servers say that they serve clients concurrently.
PatientServed ==
    \A c \in Patient : \A k \in 1..MaxBytes :
       conn[c].sent >= k ~> conn[c].got >= k

\* Once a client the server accepted has closed, the server closes its end,
\* even from a send() that was blocked on it.
LeaversReleased ==
    \A c \in Clients :
       conn[c].cl = "closed" /\ conn[c].sv = "accepted" ~> conn[c].sv = "closed"

Phase(sv) ==
    CASE sv = "none" -> "idle"
      [] sv = "backlog" -> "waiting"
      [] sv = "accepted" -> "serving"
      [] sv = "closed" -> "gone"

Service == INSTANCE EchoService WITH
    phase <- [c \in Clients |-> Phase(conn[c].sv)],
    sent <- [c \in Clients |-> conn[c].sent],
    echo <- [c \in Clients |-> conn[c].echo]

\* The server implements the echo service: every step of it is a step of the
\* service or invisible to the clients.
ImplementsEchoService == Service!Spec
=============================================================================
