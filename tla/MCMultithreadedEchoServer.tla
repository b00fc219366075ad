---------------------- MODULE MCMultithreadedEchoServer ----------------------
(* Instances of MultithreadedEchoServer for TLC. *)
EXTENDS MultithreadedEchoServer, TLC

\* Thread ids and blocks are interchangeable.
Symmetry == Permutations(Threads) \cup Permutations(Blocks)
=============================================================================
