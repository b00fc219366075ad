----------------------------- MODULE MCTCPServer -----------------------------
(* Instances of TCPServer for TLC. *)
EXTENDS TCPServer, TLC

\* Threads are interchangeable, and clients where none is patient.
Symmetry == Permutations(Threads) \cup Permutations(Clients)
=============================================================================
