----------------------------- MODULE WaitServer -----------------------------
(***************************************************************************)
(* client_comm of the stop-and-wait server (server.c), which serves one    *)
(* connection.  The state is a record of its locals:                       *)
(*   status      the flags that are set                                    *)
(*   sequence    number of the block to be acknowledged next               *)
(*   retries     retransmission requests since the last accepted ACK       *)
(*   outpkt      last packet prepared                                      *)
(*   tpkt        outpkt while a retransmission request is in its place     *)
(*   fromname    the file it was asked for                                 *)
(*   fromfd      read position in the file, in blocks                      *)
(*   offset      blocks read so far, not counting those read again         *)
(*   failed      a handler has returned EXIT_FAILURE                       *)
(* What client_comm returns is ignored by main (server.c:463).             *)
(***************************************************************************)
EXTENDS StreamPacket

CommType ==
    [status: SUBSET {"QUIT", "EXPECT_ACK", "EXPECT_INFO", "INFO_INIT",
                     "TRANSMIT", "RECEIVE", "NEXTDATA", "RETRANSMIT"},
     sequence: 0 .. EndOfFile, retries: 0 .. PKT_TRNSMAX,
     outpkt: StreamPackets, tpkt: StreamPackets,
     fromname: Clients \union {Fill}, fromfd: 0 .. EndOfFile,
     offset: 0 .. EndOfFile, failed: BOOLEAN]

CommStart ==
    [status |-> {"RECEIVE", "EXPECT_INFO"}, sequence |-> 0, retries |-> 0,
     outpkt |-> Zeroes, tpkt |-> Zeroes, fromname |-> Fill, fromfd |-> 0,
     offset |-> 0, failed |-> FALSE]

CommFails(s) == [s EXCEPT !.failed = TRUE]

\* The condition of the loop and the retry check at its top.
CommGoesOn(s) ==
    ~s.failed /\ "QUIT" \notin s.status /\ s.retries < PKT_TRNSMAX

\* Returning by "client unreachable" or a failure of recv() closes fromfd, which
\* nothing was assigned to until the file was opened.
FromfdUnset(s) == {"EXPECT_INFO", "INFO_INIT"} \intersect s.status # {}

Advance(s, rd) ==
    [s EXCEPT !.fromfd = IF rd > 0 THEN @ + 1 ELSE @,
              !.offset = IF rd > 0 /\ "RETRANSMIT" \notin s.status THEN @ + 1
                                                                   ELSE @]

\* The next block goes into outpkt under the current number; an empty one ends
\* the loop before it is sent.
ReadsData(s) ==
    LET pkt == file_to_packet(s.sequence, s.fromfd)
        read == Clear([Advance(s, pkt.size) EXCEPT !.outpkt = pkt],
                      {"NEXTDATA", "RECEIVE"})
    IN  Set(read, IF pkt.size = 0 THEN {"QUIT", "TRANSMIT"} ELSE {"TRANSMIT"})

\* "handle files", the end of every round that does not continue before.
HandleFiles(s, exists) ==
    LET asked == "EXPECT_INFO" \notin s.status
        opens == asked /\ "INFO_INIT" \in s.status
    IN  CASE opens /\ s.fromname \notin exists -> CommFails(s)
          [] opens /\ s.fromname \in exists -> ReadsData(Clear(s, {"INFO_INIT"}))
          [] asked /\ ~opens /\ "NEXTDATA" \in s.status -> ReadsData(s)
          [] OTHER -> s

\* The flags after outpkt was sent, and the rest of the round if nothing is
\* to be received in it.
CommSent(s, exists) ==
    CASE s.outpkt.type = "ACK" ->
           HandleFiles(Clear(s, {"TRANSMIT", "RECEIVE"}), exists)
      [] s.outpkt.type = "RET" -> Set(Clear(s, {"TRANSMIT"}), {"RECEIVE"})
      [] OTHER -> Set(Clear(s, {"TRANSMIT"}), {"RECEIVE", "EXPECT_ACK"})

\* An accepted ACK: on to the next block, from where the file was left before
\* blocks were read again.
AckAccepted(s) ==
    LET acked == Set(Clear(s, {"EXPECT_ACK", "RECEIVE", "RETRANSMIT"}), {"NEXTDATA"})
    IN  [acked EXCEPT
            !.retries = 0,
            !.sequence = IF s.outpkt.type = "DAT" THEN @ + 1 ELSE @,
            !.fromfd = IF "RETRANSMIT" \in s.status THEN s.offset ELSE @]

\* A request for the current packet repeats it.  A request for another one
\* reads that block of the file, and sends it under the current number.
Retransmits(s, pkt, exists) ==
    LET again == [s EXCEPT !.retries = @ + 1]
    IN  CASE pkt.sequence = s.sequence -> Set(again, {"TRANSMIT"})
          [] pkt.sequence # s.sequence /\ "INFO_INIT" \notin s.status ->
               HandleFiles(Set([again EXCEPT !.fromfd = pkt.sequence],
                               {"TRANSMIT", "RETRANSMIT", "NEXTDATA"}), exists)
          [] OTHER -> HandleFiles(again, exists)

\* The name of the file, confirmed at once; the size of a block is BufferSize.
TakesRequest(s, pkt) ==
    LET taken == Set(Clear(s, {"EXPECT_INFO"}), {"INFO_INIT", "TRANSMIT"})
    IN  [taken EXCEPT !.fromname = pkt.data, !.outpkt = ackpkt(pkt)]

\* A round in which a packet with a good checksum was received.
CommReceived(t, pkt, exists) ==
    LET s == PutBack(t)
    IN  CASE pkt.type = "ACK" /\ Acknowledges(s, pkt) ->
               HandleFiles(AckAccepted(s), exists)
          [] pkt.type = "ACK" /\ "EXPECT_ACK" \notin s.status -> CommFails(s)
          [] pkt.type = "RET" -> Retransmits(s, pkt, exists)
          [] pkt.type = "FLN" /\ "EXPECT_INFO" \in s.status -> TakesRequest(s, pkt)
          [] OTHER -> HandleFiles(s, exists)

\* recv() returned 0, or the checksum was bad.
CommReceivedBad(s) == RequestsAgain(s)

-----------------------------------------------------------------------------
(* Conditions on the server's state, for the invariants.  n is the block    *)
(* that the client it serves expects.                                       *)

\* Until the file is open nothing of it was sent.
NothingSent(s, n) ==
    /\ n = 0 /\ s.sequence = 0 /\ s.offset = 0 /\ s.fromfd = 0
    /\ s.outpkt.type # "DAT" /\ s.tpkt.type # "DAT"
    /\ {"RETRANSMIT", "QUIT"} \intersect s.status = {}
    /\ "INFO_INIT" \in s.status =>
          /\ "EXPECT_INFO" \notin s.status
          /\ s.outpkt.type = "ACK"
          /\ s.failed \/ "TRANSMIT" \in s.status

\* Then the last packet is the current block, and the file is positioned behind
\* it, or it carries the next block under the current number, which the client
\* has written and so refuses.
SendsBlock(s, n) ==
    /\ s.outpkt.type # "ACK"
    /\ IF "RETRANSMIT" \in s.status
       THEN LastPacket(s) = datpkt(s.sequence, s.sequence + 1) /\ n = s.sequence + 1
       ELSE /\ LastPacket(s) = datpkt(s.sequence, s.sequence)
            /\ s.fromfd = s.offset
            /\ s.offset = IF "QUIT" \in s.status THEN s.sequence ELSE s.sequence + 1
    /\ IF "QUIT" \in s.status THEN TailSize = 0 \/ n = EndOfFile
                              ELSE s.sequence <= LastBlock

CommSound(s, n) ==
    /\ s.sequence <= n /\ n <= s.sequence + 1
    /\ "NEXTDATA" \notin s.status
    /\ s.tpkt.type # "RET"
    /\ IF FromfdUnset(s) THEN NothingSent(s, n) ELSE SendsBlock(s, n)

\* What the server may have sent to a client that expects block n: a data packet
\* carries the block its number names, or one the client refuses.
FromServer(pkt, n) ==
    /\ pkt \in StreamPackets
    /\ pkt.type = "DAT" =>
          /\ pkt.sequence <= LastBlock
          /\ pkt.sequence < n \/ pkt = datpkt(pkt.sequence, pkt.sequence)

=============================================================================
