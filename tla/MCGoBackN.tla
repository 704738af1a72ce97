----------------------------- MODULE MCGoBackN ------------------------------
(* Instances of GoBackN for TLC. *)
EXTENDS GoBackN

CONSTANTS rcopy, server

MCSockets == {rcopy, server}
AllFaults == {"drop", "flip", "dup", "reorder", "late", "kill"}
=============================================================================
