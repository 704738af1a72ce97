----------------------------- MODULE WaitClient -----------------------------
(***************************************************************************)
(* The loop of the stop-and-wait rcopy (rcopy.c), once it is connected and *)
(* its request is in outpkt.  The state is a record of main's locals:      *)
(*   status      the flags that are set                                    *)
(*   sequence    number of the block expected                              *)
(*   retries     retransmission requests received                          *)
(*   outpkt      last packet prepared                                      *)
(*   tpkt        outpkt while a retransmission request is in its place     *)
(*   tofd        the local file: what each write() appended, in order      *)
(*   returned    "no", "success", "unreachable", "failure", or "killed" by *)
(*               a signal                                                  *)
(*                                                                         *)
(* The loop has begun to be rewritten with an enum state_t (lines 31-36,   *)
(* 133, 175, 181-184), which does not compile.  What is modelled is the    *)
(* loop that was, on the status flags; TRANSMIT is set at its start, as    *)
(* the request prepared in lines 167-171 is there to be sent.              *)
(***************************************************************************)
EXTENDS StreamPacket, Sequences

RcopyType ==
    [status: SUBSET {"TRANSMIT", "RECEIVE", "EXPECT_ACK", "END", "QUIT"},
     sequence: 0 .. EndOfFile, retries: 0 .. PKT_TRNSMAX,
     outpkt: StreamPackets, tpkt: StreamPackets, tofd: Seq(Int),
     returned: {"no", "success", "unreachable", "failure", "killed",
                "interrupted"}]

RcopyStart(name) ==
    [status |-> {"TRANSMIT"}, sequence |-> 0, retries |-> 0,
     outpkt |-> flnpkt(name), tpkt |-> Zeroes, tofd |-> <<>>, returned |-> "no"]

\* The condition of the loop and the retry check at its top.
RcopyReturns(s) ==
    CASE "QUIT" \in s.status -> [s EXCEPT !.returned = "success"]
      [] OTHER -> [s EXCEPT !.returned = "unreachable"]

\* Faulty variant: it never gives up.
NeverGivesUp(s) == s.returned = "no" /\ "QUIT" \notin s.status

RcopyGoesOn(s) ==
    s.returned = "no" /\ "QUIT" \notin s.status /\ s.retries < PKT_TRNSMAX

\* The flags after outpkt was sent: an ACK of the last block ends the loop.
RcopySent(s) ==
    CASE s.outpkt.type = "ACK" /\ "END" \in s.status ->
           Set(Clear(s, {"TRANSMIT"}), {"QUIT"})
      [] s.outpkt.type = "ACK" /\ "END" \notin s.status -> Clear(s, {"TRANSMIT"})
      [] s.outpkt.type = "RET" -> Set(Clear(s, {"TRANSMIT"}), {"RECEIVE"})
      [] OTHER -> Set(Clear(s, {"TRANSMIT"}), {"RECEIVE", "EXPECT_ACK"})

\* Faulty variant: every data packet is written.
WritesRepeated(s, pkt) ==
    [s EXCEPT !.tofd = Append(@, pkt.data), !.sequence = @ + 1,
              !.outpkt = ackpkt(pkt), !.status = @ \union {"TRANSMIT"} \union
                  (IF pkt.size < BufferSize THEN {"END"} ELSE {})]

\* A data packet: written if it is the one expected, asked for if not.
TakesData(s, pkt) ==
    IF pkt.sequence = s.sequence
    THEN [s EXCEPT !.tofd = Append(@, pkt.data),
                   !.sequence = @ + 1,
                   !.outpkt = ackpkt(pkt),
                   !.status = @ \union {"TRANSMIT"} \union
                                 (IF pkt.size < BufferSize THEN {"END"} ELSE {})]
    ELSE [s EXCEPT !.outpkt = retransmitpkt(s.sequence),
                   !.status = @ \union {"TRANSMIT"}]

\* A round in which a packet with a good checksum was received.
RcopyReceived(t, pkt) ==
    LET s == PutBack(t)
    IN  CASE pkt.type = "ACK" /\ Acknowledges(s, pkt) ->
               [Clear(s, {"EXPECT_ACK"}) EXCEPT !.retries = 0]
          [] pkt.type = "RET" -> Set([s EXCEPT !.retries = @ + 1], {"TRANSMIT"})
          [] pkt.type = "DAT" -> TakesData(s, pkt)
          [] OTHER -> s

\* recv() returned 0, or the checksum was bad.
RcopyReceivedBad(s) == RequestsAgain(s)

-----------------------------------------------------------------------------
(* Conditions on the client's state, for the invariants. *)

\* What an rcopy that expects block n may have sent, or keep to send again: its
\* request, ACKs of blocks it has written, however old, and requests for
\* blocks up to n.
FromRcopy(pkt, n) ==
    /\ pkt \in StreamPackets
    /\ pkt.type # "DAT"
    /\ pkt.type = "FLN" => pkt.data \in Clients
    /\ pkt.type = "ACK" => pkt.data \in 0 .. (n - 1)
    /\ pkt.type = "RET" => pkt.sequence <= n

\* The local file is the first blocks of the remote one, END stands for all of
\* it, and a request is for the block expected.
RcopySound(s) ==
    /\ s.tofd = [i \in 1 .. s.sequence |-> i - 1]
    /\ "END" \in s.status <=> s.sequence = EndOfFile
    /\ FromRcopy(s.outpkt, s.sequence)
    /\ FromRcopy(s.tpkt, s.sequence)
    /\ s.outpkt.type = "RET" => s.outpkt.sequence = s.sequence
    /\ s.tpkt.type # "RET"

=============================================================================
