---------------------------- MODULE StreamPacket ----------------------------
(***************************************************************************)
(* struct packet of the stop-and-wait programs and the functions that      *)
(* build one (packet.c, file_to_packet in server.c), over the file of      *)
(* module Packet, and what both programs do with a bad one.                *)
(*                                                                         *)
(* The sources are in the middle of a renaming: packet.h has RR and REJ    *)
(* where server.c and rcopy.c have ACK and RET.  The names here are those  *)
(* of the two programs.  packet.c:28, an unfinished statement, is left out:*)
(* both programs say that an acknowledgement is "identical to the data     *)
(* packet, except the type".                                               *)
(***************************************************************************)
EXTENDS Packet

CONSTANTS
    Clients,   \* rcopy processes; a client asks for the file of its name
    Twins      \* full blocks of the file that have the same contents

ASSUME TwinsAssumption == Twins \subseteq 0 .. (LastBlock - 1)

\* No two blocks of the file are the same.
BlocksDiffer == Twins = {}

\* memcmp of two data fields
SameData(a, b) == a = b \/ {a, b} \subseteq Twins

\* A packet that was never assigned, all bytes 0; its checksum is wrong.
Zeroes == [type |-> "ZEROES", sequence |-> 0, size |-> 0, data |-> Fill - 1]
BadTypes == {"FLIPPED", "REMAINDER", "ZEROES"}
GoodChecksum(pkt) == pkt.type \notin BadTypes

flnpkt(name) ==
    [type |-> "FLN", sequence |-> 0, size |-> BufferSize, data |-> name]

\* The packet file_to_packet reads at block position p, numbered n.
file_to_packet(n, p) == datpkt(n, p)

retransmitpkt(n) == [type |-> "RET", sequence |-> n, size |-> 0, data |-> Fill]

ackpkt(src) == [src EXCEPT !.type = "ACK"]

StreamPackets ==
    [type: BadTypes \union {"FLN", "ACK", "RET", "DAT"}, sequence: Nat,
     size: Nat, data: Clients \union Int]

-----------------------------------------------------------------------------
(* What the loops of client_comm and of rcopy have in common.  s is the    *)
(* state of either: status (the flags that are set), sequence, outpkt,     *)
(* tpkt, retries.                                                          *)

Set(s, flags) == [s EXCEPT !.status = @ \union flags]
Clear(s, flags) == [s EXCEPT !.status = @ \ flags]

\* Faulty variant: the last packet sent is not kept.
ForgetsTheLast(s) ==
    [s EXCEPT !.outpkt = retransmitpkt(s.sequence), !.status = @ \union {"TRANSMIT"}]

\* Faulty variant: the packet kept is the last one, even if it is a request.
KeepsTheRequest(s) ==
    [s EXCEPT !.tpkt = s.outpkt, !.outpkt = retransmitpkt(s.sequence),
              !.status = @ \union {"TRANSMIT"}]

\* Bad checksum: ask for the packet with the current sequence number, and keep
\* the last packet sent for later.
RequestsAgain(s) ==
    [s EXCEPT !.tpkt = IF s.outpkt.type = "RET" THEN @ ELSE s.outpkt,
              !.outpkt = retransmitpkt(s.sequence),
              !.status = @ \union {"TRANSMIT"}]

\* Good checksum: the packet kept is the last one sent again.
PutBack(s) == IF s.outpkt.type = "RET" THEN [s EXCEPT !.outpkt = s.tpkt] ELSE s

\* Faulty variant: any ACK is taken for the one expected.
AcceptsAnyAck(s, pkt) == "EXPECT_ACK" \in s.status

\* An ACK that is accepted: expected, and with the data of the last packet.
Acknowledges(s, pkt) ==
    "EXPECT_ACK" \in s.status /\ SameData(s.outpkt.data, pkt.data)

-----------------------------------------------------------------------------
(* Conditions on the state of either loop, for the invariants. *)

\* The last packet prepared that is no request for another one.
LastPacket(s) == IF s.outpkt.type = "RET" THEN s.tpkt ELSE s.outpkt

=============================================================================
