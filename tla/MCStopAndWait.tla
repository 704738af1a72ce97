---------------------------- MODULE MCStopAndWait ---------------------------
(* Instances of StopAndWait for TLC. *)
EXTENDS StopAndWait, TLC

ClientSymmetry == Permutations(Clients)
=============================================================================
