------------------------------- MODULE Client -------------------------------
(***************************************************************************)
(* The handlers of rcopy (class Client of the go-back-n programs) that run *)
(* while it receives the file.  A handler is an operator of the client's   *)
(* state and of what arrived; its result is the state it leaves and the    *)
(* packets it sends to mvAddr (a sequence of at most one).                 *)
(*                                                                         *)
(* The state is a record whose fields carry the names of the members:      *)
(*   mvState     "INIT", "RECV_PACKETS", "DONE" or "ERROR"                 *)
(*   mvSequence  the next block expected                                   *)
(*   mvRetries   timeouts left                                             *)
(*   mvAddr      where replies go: the sender of the last datagram         *)
(*   mvTo        the local file: what each write() appended, in order      *)
(***************************************************************************)
EXTENDS Packet, Sequences

ClientType(addresses) ==
    [mvState: {"INIT", "RECV_PACKETS", "DONE", "ERROR"}, mvSequence: Nat,
     mvRetries: 0 .. PKT_TRNSMAX, mvAddr: addresses, mvTo: Seq(Int)]

\* Condition of the loop of Run.
ClientRunning(c) == c.mvState \notin {"DONE", "ERROR"} /\ c.mvRetries > 0

\* What Run reports when the loop has ended; "none" before.
Verdict(c) ==
    CASE ClientRunning(c) -> "none"
      [] c.mvState = "DONE" /\ c.mvRetries > 0 -> "success"
      [] OTHER -> "failed"

\* Faulty variant: the timeout is not counted.
TimeoutNotCounted(c) == c

\* recvPacket when select_call returned 0.
ClientTimedOut(c) == [c EXCEPT !.mvRetries = @ - 1]

\* recvPacket when a datagram was there.  The counter is reset before the
\* checksum is verified, so a bad packet costs one retry of a full count.
ClientReceived(c, d) ==
    [c EXCEPT !.mvAddr = d.from,
              !.mvRetries = IF Intact(d.pkt) THEN PKT_TRNSMAX
                                             ELSE PKT_TRNSMAX - 1]

\* Faulty variants: a full block ends the file; only an empty one does.
FullBlockEnds(pkt) == pkt.type = "DAT" /\ pkt.size <= BufferSize
EmptyBlockEnds(pkt) == pkt.type = "DAT" /\ pkt.size = 0

\* A block shorter than a full one ends the file.
EndsFile(pkt) == pkt.type = "DAT" /\ pkt.size < BufferSize

\* Faulty variant: nothing is sent after a timeout.
SilentWhenFailed(c) == [client |-> c, out |-> <<>>]

\* recvPackets, timeout or bad checksum (case 2).
RecvPacketsFailed(c) == [client |-> c, out |-> <<rejpkt(c.mvSequence)>>]

\* Faulty variant: an older packet is written again.
WritesOldPackets(c, pkt) ==
    IF pkt.sequence > c.mvSequence THEN RecvPacketsFailed(c)
    ELSE [client |-> [c EXCEPT !.mvRetries = PKT_TRNSMAX,
                               !.mvSequence = @ + 1,
                               !.mvTo = Append(@, pkt.data),
                               !.mvState = IF EndsFile(pkt) THEN "DONE" ELSE @],
          out |-> <<rrpkt(pkt.sequence)>>]

\* Faulty variant: an RR names the block expected, as in Server::init.
AcksTheNext(c, pkt) ==
    IF pkt.sequence > c.mvSequence THEN RecvPacketsFailed(c)
    ELSE LET new == pkt.sequence = c.mvSequence
         IN  [client |-> [c EXCEPT !.mvRetries = PKT_TRNSMAX,
                                   !.mvSequence = IF new THEN @ + 1 ELSE @,
                                   !.mvTo = IF new THEN Append(@, pkt.data)
                                                   ELSE @,
                                   !.mvState = IF new /\ EndsFile(pkt)
                                               THEN "DONE" ELSE @],
              out |-> <<rrpkt(c.mvSequence)>>]

\* recvPackets, intact packet (default).  The type is not looked at before
\* the data is written.
RecvPackets(c, pkt) ==
    CASE pkt.sequence = c.mvSequence ->
           LET written == [c EXCEPT !.mvRetries = PKT_TRNSMAX,
                                    !.mvSequence = @ + 1,
                                    !.mvTo = Append(@, pkt.data)]
           IN  IF EndsFile(pkt)
               THEN [client |-> [written EXCEPT !.mvState = "DONE"],
                     out |-> <<>>]
               ELSE [client |-> written, out |-> <<rrpkt(pkt.sequence)>>]
      [] pkt.sequence < c.mvSequence ->
           [client |-> [c EXCEPT !.mvRetries = PKT_TRNSMAX],
            out |-> <<rrpkt(pkt.sequence)>>]
      [] OTHER -> RecvPacketsFailed(c)

-----------------------------------------------------------------------------
(* Conditions on the client's state, for the invariants. *)

\* The local file is a prefix of the remote one.
HasPrefix(c) ==
    /\ Len(c.mvTo) = c.mvSequence
    /\ \A i \in 1 .. Len(c.mvTo) : c.mvTo[i] = i - 1

\* DONE stands for a whole file, RECV_PACKETS for one that is not.
KnowsTheEnd(c) ==
    /\ c.mvState = "DONE" => c.mvSequence = LastBlock + 1
    /\ c.mvState = "RECV_PACKETS" => c.mvSequence <= LastBlock
    /\ c.mvSequence <= LastBlock + 1

=============================================================================
