----------------------------- MODULE MCSession ------------------------------
(* Instances of Session for TLC. *)
EXTENDS OneClient, TLC

MCSockets == {ListenSocket} \union Ports \union ClientSockets

PortSymmetry == Permutations(Ports)
=============================================================================
