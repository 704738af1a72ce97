------------------------------- MODULE Packet -------------------------------
(***************************************************************************)
(* struct packet of the go-back-n programs (packet.h) and the functions    *)
(* that build one (packet.c, Client::init, Server::fillWindow).            *)
(*                                                                         *)
(* The remote file is LastBlock full blocks of BufferSize bytes, blocks    *)
(* 0 .. LastBlock-1, followed by one shorter block, LastBlock, of TailSize *)
(* bytes (zero when the size is a multiple of BufferSize).  The contents   *)
(* of a block are its number; the bytes a control packet carries in its    *)
(* data field are the Fill pattern memset wrote there, which is no block   *)
(* of the file.  The checksum is modelled by its verdict: a packet whose   *)
(* bits were flipped on the way is Flipped and nothing else is known of it.*)
(***************************************************************************)
EXTENDS Integers

CONSTANTS
    BufferSize,   \* bytes of the file in a full data packet (mvBufferSize)
    LastBlock,    \* number of full blocks, and the number of the short one
    TailSize,     \* bytes in the short block
    PKT_TRNSMAX   \* packet.h:16, consecutive timeouts before giving up

ASSUME FileAssumption ==
    /\ BufferSize \in Nat \ {0}
    /\ LastBlock \in Nat
    /\ TailSize \in 0 .. (BufferSize - 1)

ASSUME RetriesAssumption == PKT_TRNSMAX \in Nat \ {0, 1}

\* packet.h:6-13
PacketType == {"CXN", "CXN2", "BUF", "WIN", "FLN", "DAT", "RR", "REJ"}

\* What memset(&pkt, type, sizeof(packet)) leaves in the data field.
Fill == -1

\* What read() returns at block position p of the file: contents and count.
\* At and beyond the end of the file it returns zero bytes.
EndOfFile == LastBlock + 1
Block(p) == IF p <= LastBlock THEN p ELSE EndOfFile
BlockSize(p) ==
    IF p < LastBlock THEN BufferSize ELSE IF p = LastBlock THEN TailSize ELSE 0

\* Packet n of the file as fillWindow builds it from file position p.
datpkt(n, p) ==
    [type |-> "DAT", sequence |-> n, size |-> BlockSize(p), data |-> Block(p)]

\* memset fills every byte, so the size field of an RR reads 0xAAAA and that
\* of a REJ 0x5555.
rrpkt(n)  == [type |-> "RR", sequence |-> n, size |-> 43690, data |-> Fill]
rejpkt(n) == [type |-> "REJ", sequence |-> n, size |-> 21845, data |-> Fill]

\* What arrives when sendtoErr flipped bits of a packet; in_cksum rejects it.
Flipped == [type |-> "FLIPPED", sequence |-> 0, size |-> 0, data |-> Fill]
Intact(pkt) == pkt.type # "FLIPPED"

PacketOf(types) == [type: types, sequence: Nat, size: Nat, data: Int]
DataPacket == PacketOf({"DAT"})
TransferPacket == PacketOf({"DAT", "RR", "REJ", "FLIPPED"})

=============================================================================
