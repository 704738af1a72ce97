---------------------------- MODULE HandlerProofs ----------------------------
(***************************************************************************)
(* What the handlers of the client and of the child do to a state that     *)
(* meets the conditions stated beside them, for every file, window size    *)
(* and retry count.  The compositions' proofs cite these lemmas and never  *)
(* look inside a handler.                                                  *)
(***************************************************************************)
EXTENDS Client, Server, TLAPS, SequenceTheorems

-----------------------------------------------------------------------------
(* Packets *)

\* A data packet whose contents match its number is well typed, carries that
\* block when the file has it, and is short exactly when the file ends there
\* or before.
LEMMA DataPacketFacts ==
    ASSUME NEW n \in Nat
    PROVE  /\ datpkt(n, n) \in DataPacket
           /\ datpkt(n, n).sequence = n
           /\ n <= LastBlock => datpkt(n, n).data = n
           /\ EndsFile(datpkt(n, n)) <=> n >= LastBlock
  BY FileAssumption
  DEF datpkt, DataPacket, PacketOf, Block, BlockSize, EndOfFile, EndsFile

\* The replies are well typed.
LEMMA ReplyPacketFacts ==
    ASSUME NEW n \in Nat
    PROVE  /\ rrpkt(n) \in TransferPacket
           /\ rejpkt(n) \in TransferPacket
           /\ rrpkt(n).type = "RR" /\ rrpkt(n).sequence = n
           /\ rejpkt(n).type = "REJ" /\ rejpkt(n).sequence = n
           /\ Flipped \in TransferPacket
           /\ ~Intact(Flipped)
           /\ DataPacket \subseteq TransferPacket
  BY DEF rrpkt, rejpkt, Flipped, Intact, TransferPacket, DataPacket, PacketOf, Fill

-----------------------------------------------------------------------------
(* The client *)

\* Taking a datagram off the socket disturbs nothing but mvAddr and mvRetries.
LEMMA ClientReceivedFacts ==
    ASSUME NEW A, NEW c \in ClientType(A),
           NEW d, d.from \in A
    PROVE  /\ ClientReceived(c, d) \in ClientType(A)
           /\ ClientReceived(c, d).mvState = c.mvState
           /\ ClientReceived(c, d).mvSequence = c.mvSequence
           /\ ClientReceived(c, d).mvTo = c.mvTo
<1>1. (IF Intact(d.pkt) THEN PKT_TRNSMAX ELSE PKT_TRNSMAX - 1)
         \in 0 .. PKT_TRNSMAX
  BY RetriesAssumption
<1>2. ClientReceived(c, d) \in ClientType(A)
  BY <1>1 DEF ClientType, ClientReceived
<1>3. QED
  BY <1>2 DEF ClientType, ClientReceived

\* Nor does a timeout that leaves a retry to count down.
LEMMA ClientTimedOutFacts ==
    ASSUME NEW A, NEW c \in ClientType(A), ClientRunning(c)
    PROVE  /\ ClientTimedOut(c) \in ClientType(A)
           /\ ClientTimedOut(c).mvState = c.mvState
           /\ ClientTimedOut(c).mvSequence = c.mvSequence
           /\ ClientTimedOut(c).mvTo = c.mvTo
  BY RetriesAssumption DEF ClientType, ClientTimedOut, ClientRunning

\* A truthful reply of client c: it acknowledges a block c has written, or asks
\* for one that c lacks or has.
Truthful(c, pkt) ==
    /\ pkt \in TransferPacket
    /\ \/ pkt.type = "RR" /\ pkt.sequence < c.mvSequence
       \/ pkt.type = "REJ" /\ pkt.sequence <= c.mvSequence

\* A good outcome of recvPackets for client c: the file is still a prefix of
\* the remote one and has not shrunk, DONE is entered exactly at its end, and
\* what is sent is truthful.
GoodOutcome(A, c, reply) ==
    /\ reply.client \in ClientType(A)
    /\ reply.client.mvState # "INIT"
    /\ HasPrefix(reply.client)
    /\ KnowsTheEnd(reply.client)
    /\ reply.client.mvSequence >= c.mvSequence
    /\ reply.out # <<>> => Truthful(reply.client, Head(reply.out))

\* recvPackets has a good outcome on a timeout or a bad checksum.
LEMMA RecvPacketsFailedIsGood ==
    ASSUME NEW A, NEW c \in ClientType(A), c.mvState # "INIT",
           HasPrefix(c), KnowsTheEnd(c)
    PROVE  GoodOutcome(A, c, RecvPacketsFailed(c))
<1>1. Truthful(c, rejpkt(c.mvSequence))
  BY ReplyPacketFacts DEF ClientType, Truthful
<1>2. QED
  BY <1>1 DEF RecvPacketsFailed, GoodOutcome, ClientType

\* And on every intact data packet whose contents match its number.
LEMMA RecvPacketsIsGood ==
    ASSUME NEW A, NEW c \in ClientType(A), c.mvState = "RECV_PACKETS",
           HasPrefix(c), KnowsTheEnd(c),
           NEW n \in Nat
    PROVE  GoodOutcome(A, c, RecvPackets(c, datpkt(n, n)))
<1> DEFINE pkt == datpkt(n, n)
           reply == RecvPackets(c, pkt)
<1>0. /\ c.mvSequence \in Nat /\ c.mvTo \in Seq(Int)
      /\ c.mvSequence <= LastBlock
      /\ LastBlock \in Nat /\ PKT_TRNSMAX \in Nat
      /\ pkt.sequence = n
      /\ n <= LastBlock => pkt.data = n
      /\ EndsFile(pkt) <=> n >= LastBlock
  BY DataPacketFacts, FileAssumption, RetriesAssumption DEF ClientType, KnowsTheEnd
<1> SUFFICES GoodOutcome(A, c, reply)
  OBVIOUS
<1> HIDE DEF pkt
<1>1. CASE n = c.mvSequence
  <2> DEFINE written == [c EXCEPT !.mvRetries = PKT_TRNSMAX,
                                  !.mvSequence = @ + 1,
                                  !.mvTo = Append(@, pkt.data)]
             done == [written EXCEPT !.mvState = "DONE"]
  <2>1. pkt.data = n /\ pkt.data \in Int
    BY <1>0, <1>1
  <2>2. written \in ClientType(A) /\ written.mvState = "RECV_PACKETS"
    <3>1. PKT_TRNSMAX \in 0 .. PKT_TRNSMAX /\ c.mvSequence + 1 \in Nat
      BY <1>0
    <3>2. Append(c.mvTo, pkt.data) \in Seq(Int)
      BY <1>0, <2>1, AppendProperties
    <3>3. QED
      BY <3>1, <3>2 DEF ClientType
  <2>3. written.mvTo = Append(c.mvTo, n) /\ written.mvSequence = n + 1
    BY <2>1, <1>1 DEF ClientType
  <2>4. HasPrefix(written)
    <3>1. Len(c.mvTo) = n /\ \A i \in 1 .. n : c.mvTo[i] = i - 1
      BY <1>1 DEF HasPrefix
    <3>2. QED
      BY <3>1, <2>3, <1>0, AppendProperties DEF HasPrefix
  <2> HIDE DEF written
  <2>5. CASE EndsFile(pkt)
    <3>1. reply = [client |-> done, out |-> <<>>]
      BY <2>5, <1>0, <1>1 DEF RecvPackets, written
    <3>2. /\ done \in ClientType(A)
          /\ done.mvState = "DONE" /\ done.mvSequence = written.mvSequence
          /\ done.mvTo = written.mvTo
      BY <2>2 DEF ClientType
    <3> HIDE DEF done
    <3>3. done.mvSequence = LastBlock + 1
      BY <2>5, <1>0, <1>1, <3>2, <2>3
    <3>4. HasPrefix(done)
      BY <3>2, <2>4 DEF HasPrefix
    <3>5. KnowsTheEnd(done)
      BY <3>2, <3>3, <1>0 DEF KnowsTheEnd
    <3>6. done.mvSequence >= c.mvSequence
      BY <3>2, <2>3, <1>0, <1>1
    <3>7. QED
      BY <3>1, <3>2, <3>4, <3>5, <3>6 DEF GoodOutcome
  <2>6. CASE ~EndsFile(pkt)
    <3>1. reply = [client |-> written, out |-> <<rrpkt(n)>>]
      BY <2>6, <1>0, <1>1 DEF RecvPackets, written
    <3>2. n < LastBlock
      BY <2>6, <1>0
    <3>3. Truthful(written, rrpkt(n))
      BY <2>3, ReplyPacketFacts DEF Truthful
    <3>4. KnowsTheEnd(written) /\ written.mvSequence >= c.mvSequence
      BY <2>2, <2>3, <3>2, <1>0, <1>1 DEF KnowsTheEnd
    <3>5. Head(<<rrpkt(n)>>) = rrpkt(n)
      OBVIOUS
    <3>6. QED
      BY <3>1, <3>3, <3>4, <3>5, <2>2, <2>4 DEF GoodOutcome
  <2>7. QED
    BY <2>5, <2>6
<1>2. CASE n < c.mvSequence
  <2> DEFINE again == [c EXCEPT !.mvRetries = PKT_TRNSMAX]
  <2>1. reply = [client |-> again, out |-> <<rrpkt(n)>>]
    BY <1>2, <1>0 DEF RecvPackets
  <2>2. /\ again \in ClientType(A)
        /\ again.mvState = c.mvState /\ again.mvSequence = c.mvSequence
        /\ again.mvTo = c.mvTo
    BY <1>0 DEF ClientType
  <2> HIDE DEF again
  <2>3. Truthful(again, rrpkt(n))
    BY <1>2, <2>2, ReplyPacketFacts DEF Truthful
  <2>4. HasPrefix(again) /\ KnowsTheEnd(again)
    BY <2>2 DEF HasPrefix, KnowsTheEnd
  <2>5. QED
    BY <2>1, <2>2, <2>3, <2>4, <1>0 DEF GoodOutcome
<1>3. CASE n > c.mvSequence
  <2>1. reply = RecvPacketsFailed(c)
    BY <1>3, <1>0 DEF RecvPackets
  <2>2. QED
    BY <2>1, <1>0, RecvPacketsFailedIsGood
<1>4. QED
  BY <1>0, <1>1, <1>2, <1>3

\* What one step of the client may do to the local file: nothing, or append the
\* next block and finish exactly with the last one.
Advances(c, after) ==
    \/ after.mvTo = c.mvTo /\ after.mvState = c.mvState
    \/ /\ Len(c.mvTo) <= LastBlock
       /\ after.mvTo = Append(c.mvTo, Len(c.mvTo))
       /\ after.mvState = IF Len(c.mvTo) = LastBlock THEN "DONE"
                                                     ELSE "RECV_PACKETS"

\* recvPackets does no more than that, and a datagram leaves a retry.
LEMMA RecvPacketsAdvances ==
    ASSUME NEW A, NEW c \in ClientType(A), c.mvState = "RECV_PACKETS",
           c.mvRetries > 0, HasPrefix(c), KnowsTheEnd(c),
           NEW n \in Nat
    PROVE  /\ Advances(c, RecvPackets(c, datpkt(n, n)).client)
           /\ RecvPackets(c, datpkt(n, n)).client.mvRetries > 0
<1> DEFINE pkt == datpkt(n, n)
           after == RecvPackets(c, pkt).client
<1>0. /\ c.mvSequence \in Nat /\ c.mvTo \in Seq(Int)
      /\ Len(c.mvTo) = c.mvSequence /\ c.mvSequence <= LastBlock
      /\ LastBlock \in Nat /\ PKT_TRNSMAX > 0
      /\ pkt.sequence = n
      /\ n <= LastBlock => pkt.data = n
      /\ EndsFile(pkt) <=> n >= LastBlock
  BY DataPacketFacts, FileAssumption, RetriesAssumption
  DEF ClientType, KnowsTheEnd, HasPrefix
<1> SUFFICES Advances(c, after) /\ after.mvRetries > 0
  OBVIOUS
<1> HIDE DEF pkt
<1>1. CASE n = c.mvSequence
  <2> DEFINE written == [c EXCEPT !.mvRetries = PKT_TRNSMAX,
                                  !.mvSequence = @ + 1,
                                  !.mvTo = Append(@, pkt.data)]
             done == [written EXCEPT !.mvState = "DONE"]
  <2>1. pkt.data = n
    BY <1>0, <1>1
  <2>2. /\ written.mvTo = Append(c.mvTo, Len(c.mvTo))
        /\ written.mvState = "RECV_PACKETS" /\ written.mvRetries = PKT_TRNSMAX
        /\ done.mvTo = Append(c.mvTo, Len(c.mvTo))
        /\ done.mvState = "DONE" /\ done.mvRetries = PKT_TRNSMAX
    BY <2>1, <1>0, <1>1 DEF ClientType
  <2>3. after = IF EndsFile(pkt) THEN done ELSE written
    BY <1>0, <1>1 DEF RecvPackets
  <2> HIDE DEF written, done
  <2>4. CASE EndsFile(pkt)
    <3>1. after = done /\ Len(c.mvTo) = LastBlock
      BY <2>3, <2>4, <1>0, <1>1
    <3>2. QED
      BY <3>1, <2>2, <1>0 DEF Advances
  <2>5. CASE ~EndsFile(pkt)
    <3>1. after = written /\ Len(c.mvTo) # LastBlock
      BY <2>3, <2>5, <1>0, <1>1
    <3>2. QED
      BY <3>1, <2>2, <1>0 DEF Advances
  <2>6. QED
    BY <2>4, <2>5
<1>2. CASE n < c.mvSequence
  <2>1. after = [c EXCEPT !.mvRetries = PKT_TRNSMAX]
    BY <1>2, <1>0 DEF RecvPackets
  <2>2. QED
    BY <2>1, <1>0 DEF ClientType, Advances
<1>3. CASE n > c.mvSequence
  <2>1. after = c
    BY <1>3, <1>0 DEF RecvPackets, RecvPacketsFailed
  <2>2. QED
    BY <2>1 DEF Advances
<1>4. QED
  BY <1>0, <1>1, <1>2, <1>3

-----------------------------------------------------------------------------
(* The child process *)

\* Taking a datagram off the socket disturbs nothing but mvAddr and mvRetries.
LEMMA ChildReceivedFacts ==
    ASSUME NEW A, NEW s \in ServerType(A),
           NEW d, d.from \in A
    PROVE  /\ ChildReceived(s, d) \in ServerType(A)
           /\ ChildReceived(s, d).mvState = s.mvState
           /\ ChildReceived(s, d).mvSequence = s.mvSequence
           /\ ChildReceived(s, d).mvFrom = s.mvFrom
           /\ ChildReceived(s, d).mvWindow = s.mvWindow
           /\ ChildReceived(s, d).mvOutBuf = s.mvOutBuf
<1>1. (IF Intact(d.pkt) THEN PKT_TRNSMAX ELSE PKT_TRNSMAX - 1)
         \in 0 .. PKT_TRNSMAX
  BY RetriesAssumption
<1>2. ChildReceived(s, d) \in ServerType(A)
  BY <1>1 DEF ServerType, ChildReceived
<1>3. QED
  BY <1>2 DEF ServerType, ChildReceived

\* Nor does a timeout that leaves a retry to count down.
LEMMA ChildTimedOutFacts ==
    ASSUME NEW A, NEW s \in ServerType(A), ChildRunning(s)
    PROVE  /\ ChildTimedOut(s) \in ServerType(A)
           /\ ChildTimedOut(s).mvState = s.mvState
           /\ ChildTimedOut(s).mvSequence = s.mvSequence
           /\ ChildTimedOut(s).mvFrom = s.mvFrom
           /\ ChildTimedOut(s).mvWindow = s.mvWindow
           /\ ChildTimedOut(s).mvOutBuf = s.mvOutBuf
  BY RetriesAssumption DEF ServerType, ChildTimedOut, ChildRunning

\* A good state of a child whose client expects block n: the window is a run
\* of the file's packets that reaches down to n, it is full while the child
\* sends or waits, and what is to be sent lies within a window of n.
GoodChild(A, s, n) ==
    /\ s \in ServerType(A)
    /\ s.mvState \notin {"INIT", "DONE", "ERROR"}
    /\ Contiguous(s)
    /\ WindowBase(s) <= n
    /\ FullWhenSending(s)
    /\ SendsWithin(s, n)

\* GoodChild depends on these members only.
LEMMA GoodChildDepends ==
    ASSUME NEW A, NEW n, NEW s, GoodChild(A, s, n),
           NEW t \in ServerType(A),
           t.mvState = s.mvState, t.mvSequence = s.mvSequence,
           t.mvFrom = s.mvFrom, t.mvWindow = s.mvWindow,
           t.mvOutBuf = s.mvOutBuf
    PROVE  GoodChild(A, t, n)
  BY DEF GoodChild, Contiguous, WindowBase, FullWhenSending, SendsWithin

\* And it survives the progress of the client.
LEMMA GoodChildGrows ==
    ASSUME NEW A, NEW s, NEW m \in Nat, NEW n \in Nat, m <= n,
           GoodChild(A, s, m)
    PROVE  GoodChild(A, s, n)
<1>1. WindowBase(s) \in Int
  BY DEF GoodChild, ServerType, WindowBase
<1>2. WindowBase(s) <= n
  BY <1>1 DEF GoodChild
<1>3. SendsWithin(s, n)
  <2> SUFFICES ASSUME NEW i \in 1 .. Len(s.mvOutBuf)
               PROVE  s.mvOutBuf[i].sequence < n + WindowSize
    BY DEF SendsWithin, GoodChild
  <2>1. s.mvOutBuf[i] \in DataPacket
    BY ElementOfSeq DEF GoodChild, ServerType
  <2>2. s.mvOutBuf[i].sequence < m + WindowSize
    BY DEF SendsWithin, GoodChild
  <2>3. QED
    BY <2>1, <2>2, WindowAssumption DEF DataPacket, PacketOf
<1>4. QED
  BY <1>2, <1>3 DEF GoodChild

\* What fillWindow reads: the packets that follow the window in the file.
LEMMA RefillFacts ==
    ASSUME NEW A, NEW s \in ServerType(A), Contiguous(s)
    PROVE  /\ WindowSize - Len(s.mvWindow) \in Nat
           /\ Refill(s) \in Seq(DataPacket)
           /\ Len(Refill(s)) = WindowSize - Len(s.mvWindow)
           /\ \A i \in 1 .. Len(Refill(s)) :
                 Refill(s)[i] = datpkt(s.mvSequence + i - 1, s.mvSequence + i - 1)
<1> DEFINE m == WindowSize - Len(s.mvWindow)
<1>1. m \in Nat /\ s.mvSequence \in Nat /\ s.mvFrom = s.mvSequence
  BY WindowAssumption DEF Contiguous, ServerType
<1>2. \A i \in 1 .. m : datpkt(s.mvSequence + i - 1, s.mvSequence + i - 1) \in DataPacket
  <2> TAKE i \in 1 .. m
  <2>1. s.mvSequence + i - 1 \in Nat
    BY <1>1
  <2>2. QED
    BY <2>1, DataPacketFacts
<1>3. Refill(s) = [i \in 1 .. m |-> datpkt(s.mvSequence + i - 1, s.mvSequence + i - 1)]
  BY <1>1 DEF Refill
<1>4. Refill(s) \in [1 .. m -> DataPacket]
  BY <1>2, <1>3
<1>5. Refill(s) \in Seq(DataPacket)
  BY <1>1, <1>4, SeqDef
<1>6. Len(Refill(s)) = m
  <2>1. DOMAIN Refill(s) = 1 .. Len(Refill(s)) /\ Len(Refill(s)) \in Nat
    BY <1>5, LenProperties
  <2>2. DOMAIN Refill(s) = 1 .. m
    BY <1>3
  <2>3. QED
    BY <2>1, <2>2, <1>1
<1>7. QED
  BY <1>1, <1>3, <1>5, <1>6

\* fillWindow keeps the child good and fills its window without moving its
\* lower end.
LEMMA FillWindowIsGood ==
    ASSUME NEW A, NEW n \in Nat, NEW s, GoodChild(A, s, n)
    PROVE  GoodChild(A, FillWindow(s), n)
<1> DEFINE r == Refill(s)
           t == FillWindow(s)
           b == WindowBase(s)
<1>0. /\ s \in ServerType(A) /\ Contiguous(s)
      /\ s.mvSequence \in Nat /\ s.mvFrom = s.mvSequence
      /\ s.mvWindow \in Seq(DataPacket) /\ s.mvOutBuf \in Seq(DataPacket)
      /\ WindowSize \in Nat \ {0}
  BY WindowAssumption DEF GoodChild, ServerType, Contiguous
<1>1. /\ WindowSize - Len(s.mvWindow) \in Nat
      /\ r \in Seq(DataPacket)
      /\ Len(r) = WindowSize - Len(s.mvWindow)
      /\ \A i \in 1 .. Len(r) :
            r[i] = datpkt(s.mvSequence + i - 1, s.mvSequence + i - 1)
  BY <1>0, RefillFacts
<1>2. /\ t.mvState = "SEND_WINDOW"
      /\ t.mvWindow = s.mvWindow \o r
      /\ t.mvOutBuf = s.mvOutBuf \o r
      /\ t.mvSequence = s.mvSequence + Len(r)
      /\ t.mvFrom = s.mvFrom + Len(r)
      /\ t.mvRetries = s.mvRetries
      /\ t.mvAddr = s.mvAddr
  BY <1>0 DEF FillWindow, ServerType
<1>3. t \in ServerType(A)
  <2>1. s.mvWindow \o r \in Seq(DataPacket) /\ s.mvOutBuf \o r \in Seq(DataPacket)
    BY <1>0, <1>1, ConcatProperties
  <2>2. s.mvSequence + Len(r) \in Nat /\ s.mvFrom + Len(r) \in Nat
    BY <1>0, <1>1
  <2>3. QED
    BY <1>0, <2>1, <2>2 DEF FillWindow, ServerType
<1> HIDE DEF r, t
<1>4. /\ Len(t.mvWindow) = WindowSize
      /\ \A i \in 1 .. Len(t.mvWindow) :
            t.mvWindow[i] = IF i <= Len(s.mvWindow) THEN s.mvWindow[i]
                                                    ELSE r[i - Len(s.mvWindow)]
  BY <1>0, <1>1, <1>2, ConcatProperties
<1>5. WindowBase(t) = b /\ b \in Nat /\ b + Len(s.mvWindow) = s.mvSequence
  BY <1>0, <1>1, <1>2, <1>4 DEF WindowBase, Contiguous
<1>6. Contiguous(t)
  <2>1. ASSUME NEW i \in 1 .. Len(t.mvWindow)
        PROVE  t.mvWindow[i] = datpkt(b + i - 1, b + i - 1)
    <3>1. CASE i <= Len(s.mvWindow)
      BY <3>1, <1>0, <1>4 DEF Contiguous
    <3>2. CASE i > Len(s.mvWindow)
      <4>1. i - Len(s.mvWindow) \in 1 .. Len(r)
        BY <3>2, <1>0, <1>1, <1>4
      <4>2. r[i - Len(s.mvWindow)] =
               datpkt(s.mvSequence + (i - Len(s.mvWindow)) - 1,
                      s.mvSequence + (i - Len(s.mvWindow)) - 1)
        BY <4>1, <1>1
      <4>3. s.mvSequence + (i - Len(s.mvWindow)) - 1 = b + i - 1
        BY <1>0, <1>5, <1>4
      <4>4. t.mvWindow[i] = r[i - Len(s.mvWindow)]
        BY <3>2, <1>0, <1>4
      <4>5. QED
        BY <4>2, <4>3, <4>4
    <3>3. QED
      BY <3>1, <3>2, <1>0, <1>4
  <2>2. t.mvFrom = t.mvSequence
    BY <1>0, <1>2
  <2>3. QED
    BY <2>1, <2>2, <1>0, <1>4, <1>5 DEF Contiguous
<1>7. SendsWithin(t, n)
  <2>0. t.mvOutBuf = s.mvOutBuf \o r
    BY <1>2
  <2>1. /\ Len(s.mvOutBuf) \in Nat /\ Len(r) \in Nat
        /\ Len(t.mvOutBuf) = Len(s.mvOutBuf) + Len(r)
    BY <1>0, <1>1, <2>0, ConcatProperties, LenProperties
  <2>2. \A i \in 1 .. Len(s.mvOutBuf) + Len(r) :
           t.mvOutBuf[i] = IF i <= Len(s.mvOutBuf) THEN s.mvOutBuf[i]
                                                   ELSE r[i - Len(s.mvOutBuf)]
    BY <1>0, <1>1, <2>0, ConcatProperties
  <2> SUFFICES ASSUME NEW i \in 1 .. Len(s.mvOutBuf) + Len(r)
               PROVE  /\ t.mvOutBuf[i].sequence < n + WindowSize
                      /\ t.mvOutBuf[i] = datpkt(t.mvOutBuf[i].sequence,
                                                t.mvOutBuf[i].sequence)
    BY <2>1 DEF SendsWithin
  <2>3. CASE i <= Len(s.mvOutBuf)
    <3>1. i \in 1 .. Len(s.mvOutBuf) /\ t.mvOutBuf[i] = s.mvOutBuf[i]
      BY <2>1, <2>2, <2>3
    <3>2. QED
      BY <3>1 DEF GoodChild, SendsWithin
  <2>4. CASE i > Len(s.mvOutBuf)
    <3> DEFINE j == i - Len(s.mvOutBuf)
               k == s.mvSequence + j - 1
    <3>1. j \in 1 .. Len(r) /\ t.mvOutBuf[i] = r[j]
      BY <2>1, <2>2, <2>4
    <3>2. k \in Nat
      BY <3>1, <2>1, <1>0
    <3>3. t.mvOutBuf[i] = datpkt(k, k)
      BY <3>1, <1>1
    <3>4. k < b + WindowSize
      <4>1. /\ s.mvSequence = b + Len(s.mvWindow)
            /\ Len(r) = WindowSize - Len(s.mvWindow)
            /\ Len(s.mvWindow) \in Nat /\ WindowSize \in Nat
            /\ b \in Nat
        BY <1>0, <1>1, <1>5
      <4>2. j \in Nat /\ j <= Len(r)
        BY <3>1, <2>1
      <4> HIDE DEF b, j
      <4>3. QED
        BY <4>1, <4>2
    <3>5. k < n + WindowSize
      BY <3>2, <3>4, <1>0, <1>5 DEF GoodChild
    <3>6. QED
      BY <3>2, <3>3, <3>5, DataPacketFacts
  <2>5. QED
    BY <2>1, <2>3, <2>4
<1>8. GoodChild(A, t, n)
  BY <1>2, <1>3, <1>4, <1>5, <1>6, <1>7 DEF GoodChild, FullWhenSending
<1>9. QED
  BY <1>8 DEF t

\* waitRR on a timeout or a bad checksum keeps the child good.
LEMMA WaitRRFailedIsGood ==
    ASSUME NEW A, NEW n, NEW s, GoodChild(A, s, n)
    PROVE  GoodChild(A, WaitRRFailed(s), n)
<1> DEFINE t == WaitRRFailed(s)
<1>1. /\ t \in ServerType(A) /\ t.mvState = "FILL_WINDOW"
      /\ t.mvSequence = s.mvSequence /\ t.mvFrom = s.mvFrom
      /\ t.mvWindow = s.mvWindow /\ t.mvOutBuf = s.mvOutBuf
  BY DEF GoodChild, WaitRRFailed, ServerType
<1> HIDE DEF t
<1>2. GoodChild(A, t, n)
  BY <1>1
  DEF GoodChild, Contiguous, WindowBase, FullWhenSending, SendsWithin
<1>3. QED
  BY <1>2 DEF t

\* An RR below n slides the window to the block after it, or empties it, and
\* neither end passes n.
LEMMA ShiftIsGood ==
    ASSUME NEW A, NEW n \in Nat, NEW s, GoodChild(A, s, n),
           NEW k \in Nat, k < n, WindowBase(s) <= k,
           NEW t \in ServerType(A),
           t.mvState = "FILL_WINDOW",
           t.mvSequence = s.mvSequence, t.mvFrom = s.mvFrom,
           t.mvOutBuf = s.mvOutBuf,
           t.mvWindow = SubSeq(s.mvWindow, k - WindowBase(s) + 2, Len(s.mvWindow))
    PROVE  GoodChild(A, t, n)
<1> DEFINE w == s.mvWindow
           v == t.mvWindow
           b == WindowBase(s)
           m == k - b + 2
<1>0. /\ w \in Seq(DataPacket) /\ Len(w) \in Nat
      /\ s.mvSequence \in Nat /\ b + Len(w) = s.mvSequence
      /\ b \in Nat /\ b <= k /\ m \in Nat /\ m >= 2
      /\ WindowSize \in Nat /\ Len(w) <= WindowSize
  BY WindowAssumption DEF GoodChild, ServerType, Contiguous, WindowBase
<1>1. /\ Len(v) = IF m <= Len(w) THEN Len(w) - m + 1 ELSE 0
      /\ \A i \in 1 .. Len(w) - m + 1 : v[i] = w[m + i - 1]
  <2>1. \A i \in m .. Len(w) : w[i] \in DataPacket
    BY <1>0, ElementOfSeq
  <2>2. v = SubSeq(w, m, Len(w)) /\ m \in Int /\ Len(w) \in Int
    BY <1>0
  <2> HIDE DEF w, v, m
  <2>3. QED
    BY <2>1, <2>2, SubSeqProperties
<1>2. CASE m <= Len(w)
  <2>1. Len(v) = Len(w) - m + 1 /\ Len(v) \in Nat /\ Len(v) <= Len(w)
    BY <1>0, <1>1, <1>2
  <2>2. WindowBase(t) = k + 1
    <3>1. WindowBase(t) = s.mvSequence - Len(v)
      BY DEF WindowBase
    <3> HIDE DEF b, w, v
    <3>2. QED
      BY <3>1, <1>0, <2>1
  <2>3. ASSUME NEW i \in 1 .. Len(v)
        PROVE  v[i] = datpkt(k + 1 + i - 1, k + 1 + i - 1)
    <3>1. v[i] = w[m + i - 1]
      BY <1>1, <2>1
    <3>2. m + i - 1 \in 1 .. Len(w)
      <4> HIDE DEF m, w, v
      <4>1. QED
        BY <1>0, <2>1
    <3>3. w[m + i - 1] = datpkt(b + (m + i - 1) - 1, b + (m + i - 1) - 1)
      BY <3>2 DEF GoodChild, Contiguous
    <3>4. b + (m + i - 1) - 1 = k + 1 + i - 1
      <4> HIDE DEF b
      <4>1. QED
        BY <1>0
    <3>5. QED
      BY <3>1, <3>3, <3>4
  <2>4. Contiguous(t)
    <3>1. Len(v) <= WindowSize /\ k + 1 >= 0
      <4> HIDE DEF v, w
      <4>1. QED
        BY <2>1, <1>0
    <3>2. t.mvFrom = t.mvSequence
      BY DEF Contiguous, GoodChild
    <3>3. QED
      BY <2>2, <2>3, <3>1, <3>2 DEF Contiguous
  <2>5. QED
    BY <2>2, <2>4 DEF GoodChild, FullWhenSending, SendsWithin
<1>3. CASE m > Len(w)
  <2>1. Len(v) = 0
    BY <1>0, <1>1, <1>3
  <2>2. WindowBase(t) = s.mvSequence
    BY <1>0, <2>1 DEF WindowBase
  <2>3. s.mvSequence <= n
    <3> HIDE DEF b, w
    <3>1. QED
      BY <1>0, <1>3
  <2>4. Contiguous(t)
    BY <2>1, <2>2, <1>0 DEF Contiguous, GoodChild
  <2>5. QED
    BY <2>2, <2>3, <2>4 DEF GoodChild, FullWhenSending, SendsWithin
<1>4. QED
  BY <1>0, <1>2, <1>3

\* waitRR keeps the child good on every truthful packet of a client that
\* expects block n, provided the file is below 4 GiB.
LEMMA WaitRRIsGood ==
    ASSUME FileBelow4GiB,
           NEW A, NEW n \in Nat, n <= LastBlock + 1,
           NEW s, GoodChild(A, s, n), s.mvState = "WAIT_RR",
           NEW pkt, pkt.sequence \in Nat,
           \/ pkt.type = "RR" /\ pkt.sequence < n
           \/ pkt.type = "REJ" /\ pkt.sequence <= n
    PROVE  GoodChild(A, WaitRR(s, pkt), n)
<1> DEFINE b == WindowBase(s)
           k == pkt.sequence
           t == WaitRR(s, pkt)
<1>0. /\ s \in ServerType(A) /\ s.mvWindow \in Seq(DataPacket)
      /\ Len(s.mvWindow) = WindowSize /\ WindowSize \in Nat \ {0}
      /\ b \in Nat /\ b <= n /\ PKT_TRNSMAX \in Nat
      /\ LastBlock \in Nat /\ SeekSpan \in Nat
  BY WindowAssumption, RetriesAssumption, FileAssumption, SeekAssumption
  DEF GoodChild, FullWhenSending, ServerType, Contiguous, WindowBase
<1>1. Head(s.mvWindow).sequence = b
  <2>1. 1 \in 1 .. Len(s.mvWindow) /\ s.mvWindow # <<>>
    BY <1>0
  <2>2. s.mvWindow[1] = datpkt(b + 1 - 1, b + 1 - 1)
    BY <2>1 DEF GoodChild, Contiguous
  <2>3. Head(s.mvWindow) = s.mvWindow[1] /\ b + 1 - 1 = b
    BY <2>1, <1>0
  <2>4. QED
    BY <2>2, <2>3, <1>0, DataPacketFacts
<1> SUFFICES GoodChild(A, t, n)
  OBVIOUS
<1>2. CASE pkt.type = "RR" /\ k >= b
  <2> DEFINE v == SubSeq(s.mvWindow, k - b + 2, Len(s.mvWindow))
  <2>1. t = [s EXCEPT !.mvState = "FILL_WINDOW", !.mvWindow = v,
                      !.mvRetries = PKT_TRNSMAX]
    BY <1>0, <1>1, <1>2 DEF WaitRR, ShiftWindow, ServerType
  <2>2. v \in Seq(DataPacket)
    <3>1. k - b + 2 \in Int /\ Len(s.mvWindow) \in Int /\ k - b + 2 >= 1
      BY <1>0, <1>2
    <3>2. \A i \in k - b + 2 .. Len(s.mvWindow) : s.mvWindow[i] \in DataPacket
      BY <3>1, <1>0, ElementOfSeq
    <3>3. QED
      BY <3>1, <3>2, SubSeqProperties
  <2> HIDE DEF v
  <2>3. /\ t \in ServerType(A) /\ t.mvState = "FILL_WINDOW"
        /\ t.mvSequence = s.mvSequence /\ t.mvFrom = s.mvFrom
        /\ t.mvOutBuf = s.mvOutBuf /\ t.mvWindow = v
    <3>1. PKT_TRNSMAX \in 0 .. PKT_TRNSMAX
      BY <1>0
    <3> HIDE DEF t
    <3>2. QED
      BY <2>1, <2>2, <3>1, <1>0 DEF ServerType
  <2>4. k < n /\ b <= k
    BY <1>0, <1>2
  <2>5. QED
    BY <2>3, <2>4, ShiftIsGood DEF v
<1>3. CASE pkt.type = "RR" /\ k < b
  BY <1>0, <1>1, <1>3 DEF WaitRR
<1>4. CASE pkt.type = "REJ" /\ k >= b
  <2>1. t = [s EXCEPT !.mvState = "FILL_WINDOW", !.mvOutBuf = s.mvWindow]
    BY <1>0, <1>1, <1>4 DEF WaitRR
  <2>2. /\ t \in ServerType(A) /\ t.mvState = "FILL_WINDOW"
        /\ t.mvSequence = s.mvSequence /\ t.mvFrom = s.mvFrom
        /\ t.mvWindow = s.mvWindow /\ t.mvOutBuf = s.mvWindow
    BY <2>1, <1>0 DEF ServerType
  <2>3. ASSUME NEW i \in 1 .. Len(s.mvWindow)
        PROVE  /\ s.mvWindow[i].sequence < n + WindowSize
               /\ s.mvWindow[i] = datpkt(s.mvWindow[i].sequence,
                                         s.mvWindow[i].sequence)
    <3>1. s.mvWindow[i] = datpkt(b + i - 1, b + i - 1)
      BY DEF GoodChild, Contiguous
    <3>2. b + i - 1 \in Nat /\ b + i - 1 < n + WindowSize
      BY <1>0
    <3>3. QED
      BY <3>1, <3>2, DataPacketFacts
  <2> HIDE DEF t
  <2>4. QED
    BY <2>2, <2>3
    DEF GoodChild, Contiguous, WindowBase, FullWhenSending, SendsWithin
<1>5. CASE pkt.type = "REJ" /\ k < b
  <2>1. SeekTo(k) = k
    BY <1>0 DEF SeekTo, FileBelow4GiB
  <2>2. t = [s EXCEPT !.mvState = "FILL_WINDOW", !.mvSequence = k, !.mvFrom = k,
                      !.mvOutBuf = <<>>, !.mvWindow = <<>>]
    BY <2>1, <1>0, <1>1, <1>5 DEF WaitRR
  <2>3. /\ t \in ServerType(A) /\ t.mvState = "FILL_WINDOW"
        /\ t.mvSequence = k /\ t.mvFrom = k
        /\ t.mvWindow = <<>> /\ t.mvOutBuf = <<>>
    <3>1. <<>> \in Seq(DataPacket)
      BY EmptySeq
    <3> HIDE DEF t
    <3>2. QED
      BY <2>2, <3>1, <1>0 DEF ServerType
  <2> HIDE DEF t
  <2>4. WindowBase(t) = k /\ k <= n /\ Len(<<>>) = 0
    BY <2>3, <1>0 DEF WindowBase
  <2>5. QED
    BY <2>3, <2>4, <1>0
    DEF GoodChild, Contiguous, FullWhenSending, SendsWithin
<1>6. QED
  BY <1>0, <1>2, <1>3, <1>4, <1>5

=============================================================================
