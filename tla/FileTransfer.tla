---------------------------- MODULE FileTransfer -----------------------------
(***************************************************************************)
(* What copying a file promises its user: blocks of the remote file are    *)
(* appended to the local one in order, each once; success is reported with *)
(* the block that completes the file, and never otherwise; a copy may fail *)
(* at any time before that, and nothing is written after a verdict.        *)
(***************************************************************************)
EXTENDS Naturals, Sequences

CONSTANT LastBlock   \* the file is blocks 0 .. LastBlock

VARIABLES
    written,   \* the local file, a sequence of blocks
    verdict    \* "none", "success" or "failed"

vars == <<written, verdict>>

Init == written = <<>> /\ verdict = "none"

Write ==
    /\ verdict = "none"
    /\ Len(written) <= LastBlock
    /\ written' = Append(written, Len(written))
    /\ verdict' = IF Len(written) = LastBlock THEN "success" ELSE "none"

GiveUp ==
    /\ verdict = "none"
    /\ verdict' = "failed"
    /\ UNCHANGED written

Next == Write \/ GiveUp

Spec == Init /\ [][Next]_vars

=============================================================================
