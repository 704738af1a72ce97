------------------------------- MODULE Server -------------------------------
(***************************************************************************)
(* The handlers of the server's child process (class Server of the         *)
(* go-back-n programs, Server::Child) that run while it sends the file.    *)
(*                                                                         *)
(* The state is a record whose fields carry the names of the members:      *)
(*   mvState     "INIT", "FILL_WINDOW", "SEND_WINDOW", "WAIT_RR", "DONE"   *)
(*               or "ERROR"                                                *)
(*   mvSequence  sequence number of the next packet read from the file     *)
(*   mvRetries   timeouts left                                             *)
(*   mvAddr      the client: the sender of the last datagram               *)
(*   mvWindow    packets read and not acknowledged, a sequence             *)
(*   mvOutBuf    packets still to be sent, a sequence                      *)
(*   mvFrom      read position in the file, in blocks                      *)
(***************************************************************************)
EXTENDS Packet, Sequences

CONSTANTS
    WindowSize,   \* mvWindowSize
    SeekSpan      \* blocks in 2^32 bytes: 2^32 \div BufferSize, for a
                  \* BufferSize that is a power of two

\* mvWindow.front() of an empty deque is undefined, hence the first conjunct.
ASSUME WindowAssumption == WindowSize \in Nat \ {0}
ASSUME SeekAssumption == SeekSpan \in Nat \ {0}

ServerType(addresses) ==
    [mvState: {"INIT", "FILL_WINDOW", "SEND_WINDOW", "WAIT_RR", "DONE", "ERROR"},
     mvSequence: Nat, mvRetries: 0 .. PKT_TRNSMAX, mvAddr: addresses,
     mvWindow: Seq(DataPacket), mvOutBuf: Seq(DataPacket), mvFrom: Nat]

\* Condition of the loop of Child.
ChildRunning(s) == s.mvState \notin {"DONE", "ERROR"} /\ s.mvRetries > 0

\* Faulty variants: the timeout is counted twice, or not at all.
TimeoutCountedTwice(s) == [s EXCEPT !.mvRetries = @ - 2]
TimeoutNotCountedByChild(s) == s

\* recvPacket when select_call returned 0.
ChildTimedOut(s) == [s EXCEPT !.mvRetries = @ - 1]

\* recvPacket when a datagram was there.
ChildReceived(s, d) ==
    [s EXCEPT !.mvAddr = d.from,
              !.mvRetries = IF Intact(d.pkt) THEN PKT_TRNSMAX
                                             ELSE PKT_TRNSMAX - 1]

\* Faulty variants: what the window holds is not counted; one packet too few.
RefillsWholeWindow(s) ==
    [i \in 1 .. WindowSize |-> datpkt(s.mvSequence + i - 1, s.mvFrom + i - 1)]
RefillsAllButOne(s) ==
    [i \in 1 .. (WindowSize - Len(s.mvWindow) - 1) |->
        datpkt(s.mvSequence + i - 1, s.mvFrom + i - 1)]

\* fillWindow: read packets until the window is full.
Refill(s) ==
    [i \in 1 .. (WindowSize - Len(s.mvWindow)) |->
        datpkt(s.mvSequence + i - 1, s.mvFrom + i - 1)]

FillWindow(s) ==
    [s EXCEPT !.mvState = "SEND_WINDOW",
              !.mvWindow = @ \o Refill(s),
              !.mvOutBuf = @ \o Refill(s),
              !.mvSequence = @ + Len(Refill(s)),
              !.mvFrom = @ + Len(Refill(s))]

\* sendWindow, one round of its loop: the front packet has been sent.
PopOutBuf(s) == [s EXCEPT !.mvOutBuf = Tail(@)]

\* waitRR, timeout or bad checksum: nothing is sent again.
WaitRRFailed(s) == [s EXCEPT !.mvState = "FILL_WINDOW"]

\* Faulty variant: one packet more than acknowledged leaves the window.
ShiftsOneTooFar(w, n) == SubSeq(w, n - Head(w).sequence + 3, Len(w))

\* The packets of window w that an RR of sequence number n leaves in it.
ShiftWindow(w, n) == SubSeq(w, n - Head(w).sequence + 2, Len(w))

\* Faulty variant: the file is positioned behind the rejected packet.
SeeksPast(n) == (n + 1) % SeekSpan

\* lseek(mvFrom, mvBufferSize * mvSequence): the product is an unsigned int.
SeekTo(n) == n % SeekSpan

\* Every position the client can ask for is one SeekTo gets right.
FileBelow4GiB == LastBlock + 1 < SeekSpan

\* Faulty variant: every packet that is no REJ counts as an RR.
TakesAnyTypeForRR(s, pkt) ==
    LET front == Head(s.mvWindow).sequence IN
    CASE pkt.type # "REJ" /\ pkt.sequence >= front ->
           [s EXCEPT !.mvState = "FILL_WINDOW",
                     !.mvWindow = ShiftWindow(@, pkt.sequence),
                     !.mvRetries = PKT_TRNSMAX]
      [] pkt.type = "REJ" /\ pkt.sequence >= front ->
           [s EXCEPT !.mvState = "FILL_WINDOW", !.mvOutBuf = s.mvWindow]
      [] pkt.type = "REJ" /\ pkt.sequence < front ->
           [s EXCEPT !.mvState = "FILL_WINDOW",
                     !.mvSequence = pkt.sequence,
                     !.mvFrom = SeekTo(pkt.sequence),
                     !.mvOutBuf = <<>>,
                     !.mvWindow = <<>>]
      [] OTHER -> s

\* waitRR, intact packet.
WaitRR(s, pkt) ==
    LET front == Head(s.mvWindow).sequence IN
    CASE pkt.type = "RR" /\ pkt.sequence >= front ->
           [s EXCEPT !.mvState = "FILL_WINDOW",
                     !.mvWindow = ShiftWindow(@, pkt.sequence),
                     !.mvRetries = PKT_TRNSMAX]
      [] pkt.type = "REJ" /\ pkt.sequence >= front ->
           [s EXCEPT !.mvState = "FILL_WINDOW",
                     !.mvOutBuf = s.mvWindow]
      [] pkt.type = "REJ" /\ pkt.sequence < front ->
           [s EXCEPT !.mvState = "FILL_WINDOW",
                     !.mvSequence = pkt.sequence,
                     !.mvFrom = SeekTo(pkt.sequence),
                     !.mvOutBuf = <<>>,
                     !.mvWindow = <<>>]
      [] OTHER -> s

-----------------------------------------------------------------------------
(* Conditions on the child's state, for the invariants. *)

\* Sequence number of the oldest packet in the window, or of the next one to
\* be read when the window is empty.
WindowBase(s) == s.mvSequence - Len(s.mvWindow)

\* The window is a run of consecutive packets that ends just before
\* mvSequence, each carrying the block its number names, and the file is
\* positioned at the next one.
Contiguous(s) ==
    /\ Len(s.mvWindow) <= WindowSize
    /\ WindowBase(s) >= 0
    /\ s.mvFrom = s.mvSequence
    /\ \A i \in 1 .. Len(s.mvWindow) :
          s.mvWindow[i] = datpkt(WindowBase(s) + i - 1, WindowBase(s) + i - 1)

\* What is still to be sent lies within a window of block n.
SendsWithin(s, n) ==
    \A i \in 1 .. Len(s.mvOutBuf) :
        /\ s.mvOutBuf[i].sequence < n + WindowSize
        /\ s.mvOutBuf[i] =
              datpkt(s.mvOutBuf[i].sequence, s.mvOutBuf[i].sequence)

\* fillWindow leaves a full window, and it stays full until an RR or REJ.
FullWhenSending(s) ==
    s.mvState \in {"SEND_WINDOW", "WAIT_RR"} => Len(s.mvWindow) = WindowSize

=============================================================================
