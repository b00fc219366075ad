-------------------------- MODULE MCSignalHandling --------------------------
(* Instances of SignalHandling for TLC. *)
EXTENDS SignalHandling

ThreeInterrupts == [s \in Signals |-> IF s = "SIGINT" THEN 3 ELSE 0]
=============================================================================
