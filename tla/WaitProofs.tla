----------------------------- MODULE WaitProofs -----------------------------
(***************************************************************************)
(* What the handlers of the stop-and-wait programs do to a state that      *)
(* meets the conditions stated beside them, for every file, number of      *)
(* retries and packet the other side may have sent.  The composition's     *)
(* proofs cite these lemmas and never look inside a handler.               *)
(***************************************************************************)
EXTENDS WaitClient, WaitServer, TLAPS, SequenceTheorems

-----------------------------------------------------------------------------
(* Packets *)

\* Every packet the programs build is a packet.
LEMMA StreamPacketFacts ==
    /\ Zeroes \in StreamPackets /\ Zeroes.type = "ZEROES"
    /\ \A n \in Nat :
          retransmitpkt(n) \in StreamPackets /\ retransmitpkt(n).type = "RET"
          /\ retransmitpkt(n).sequence = n
    /\ \A c \in Clients : flnpkt(c) \in StreamPackets
          /\ flnpkt(c).type = "FLN" /\ flnpkt(c).data = c
    /\ \A pkt \in StreamPackets :
          ackpkt(pkt) \in StreamPackets /\ ackpkt(pkt).type = "ACK"
          /\ ackpkt(pkt).data = pkt.data
  BY FileAssumption
  DEF StreamPackets, Zeroes, BadTypes, retransmitpkt, flnpkt, ackpkt, Fill

\* Packet n of the file with the contents of position p: it is full exactly
\* when there is a full block there, and empty exactly when there is none or an
\* empty one.
LEMMA BlockFacts ==
    ASSUME NEW n \in Nat, NEW p \in 0 .. EndOfFile
    PROVE  /\ datpkt(n, p) \in StreamPackets
           /\ datpkt(n, p).type = "DAT"
           /\ datpkt(n, p).sequence = n
           /\ datpkt(n, p).data = p
           /\ datpkt(n, p).size < BufferSize <=> p >= LastBlock
           /\ datpkt(n, p).size > 0 => p <= LastBlock
           /\ datpkt(n, p).size = 0 => TailSize = 0 \/ p = EndOfFile
           /\ datpkt(n, p).size >= 0
  BY FileAssumption
  DEF datpkt, StreamPackets, Block, BlockSize, EndOfFile

\* With blocks that differ, memcmp is equality.
LEMMA SameDataFacts ==
    ASSUME BlocksDiffer, NEW a, NEW b, SameData(a, b)
    PROVE  a = b
  BY DEF BlocksDiffer, SameData

-----------------------------------------------------------------------------
(* rcopy *)

\* What was sent for block n may have been sent for a later one.
LEMMA FromRcopyGrows ==
    ASSUME NEW n \in Nat, NEW m \in Nat, n <= m,
           NEW pkt, FromRcopy(pkt, n)
    PROVE  FromRcopy(pkt, m)
<1>1. pkt.sequence \in Nat
  BY DEF FromRcopy, StreamPackets
<1>2. QED
  BY <1>1 DEF FromRcopy

\* A handler that leaves the file alone: only flags, retries and packets change.
KeepsFile(s, t) ==
    /\ t \in RcopyType
    /\ RcopySound(t)
    /\ t.sequence = s.sequence
    /\ t.returned = s.returned

RcopyFlags == {"TRANSMIT", "RECEIVE", "EXPECT_ACK", "END", "QUIT"}

\* An rcopy that was just started has nothing of the file, and asks for it.
LEMMA RcopyStartIsSound ==
    ASSUME NEW c \in Clients
    PROVE  /\ RcopyStart(c) \in RcopyType
           /\ RcopySound(RcopyStart(c))
           /\ RcopyStart(c).sequence = 0
           /\ RcopyStart(c).returned = "no"
<1> DEFINE s == RcopyStart(c)
<1>1. /\ s.status = {"TRANSMIT"} /\ s.sequence = 0 /\ s.retries = 0
      /\ s.outpkt = flnpkt(c) /\ s.tpkt = Zeroes /\ s.tofd = <<>>
      /\ s.returned = "no"
  BY DEF RcopyStart
<1>2. s \in RcopyType
  BY FileAssumption, RetriesAssumption, StreamPacketFacts
  DEF RcopyStart, RcopyType, EndOfFile
<1>3. s.tofd = [i \in 1 .. 0 |-> i - 1]
  BY <1>1
<1>4. FromRcopy(s.outpkt, 0) /\ FromRcopy(s.tpkt, 0)
  BY <1>1, StreamPacketFacts DEF FromRcopy
<1>5. RcopySound(s)
  BY <1>1, <1>3, <1>4, StreamPacketFacts, FileAssumption
  DEF RcopySound, EndOfFile
<1>6. QED
  BY <1>1, <1>2, <1>5

\* What rcopy returns, or is killed by, says nothing about the file.
LEMMA RcopyReturnsIsSound ==
    ASSUME NEW s \in RcopyType, RcopySound(s),
           NEW r \in {"success", "unreachable", "failure", "killed", "interrupted"}
    PROVE  LET t == [s EXCEPT !.returned = r]
           IN  /\ t \in RcopyType /\ RcopySound(t)
               /\ t.sequence = s.sequence /\ t.returned = r
               /\ t.status = s.status /\ t.tofd = s.tofd
<1> DEFINE t == [s EXCEPT !.returned = r]
<1>1. t \in RcopyType
  BY DEF RcopyType
<1>2. /\ t.status = s.status /\ t.sequence = s.sequence /\ t.tofd = s.tofd
      /\ t.outpkt = s.outpkt /\ t.tpkt = s.tpkt /\ t.returned = r
  BY DEF RcopyType
<1> HIDE DEF t
<1>3. RcopySound(t)
  BY <1>2 DEF RcopySound
<1>4. QED
  BY <1>1, <1>2, <1>3 DEF t

\* Flags other than END, and retries, are no part of what makes it sound.
LEMMA RcopyFlagsAreSound ==
    ASSUME NEW s \in RcopyType, RcopySound(s),
           NEW f \in SUBSET RcopyFlags, "END" \in f <=> "END" \in s.status,
           NEW r \in 0 .. PKT_TRNSMAX
    PROVE  KeepsFile(s, [s EXCEPT !.status = f, !.retries = r])
<1> DEFINE t == [s EXCEPT !.status = f, !.retries = r]
<1>1. t \in RcopyType
  BY DEF RcopyType, RcopyFlags
<1>2. /\ t.status = f /\ t.sequence = s.sequence /\ t.tofd = s.tofd
      /\ t.outpkt = s.outpkt /\ t.tpkt = s.tpkt /\ t.returned = s.returned
  BY DEF RcopyType
<1> HIDE DEF t
<1>3. RcopySound(t)
  BY <1>2 DEF RcopySound
<1>4. QED
  BY <1>1, <1>2, <1>3 DEF KeepsFile, t

\* Sending the last packet.
LEMMA RcopySentIsSound ==
    ASSUME NEW s \in RcopyType, RcopySound(s)
    PROVE  KeepsFile(s, RcopySent(s))
<1>1. /\ s.status \in SUBSET RcopyFlags /\ s.retries \in 0 .. PKT_TRNSMAX
      /\ \A f \in SUBSET RcopyFlags :
            [s EXCEPT !.status = f] = [s EXCEPT !.status = f, !.retries = s.retries]
  BY DEF RcopyType, RcopyFlags
<1>2. ASSUME NEW f \in SUBSET RcopyFlags, "END" \in f <=> "END" \in s.status
      PROVE  KeepsFile(s, [s EXCEPT !.status = f])
  <2>1. KeepsFile(s, [s EXCEPT !.status = f, !.retries = s.retries])
    BY <1>1, <1>2, RcopyFlagsAreSound
  <2>2. QED
    BY <1>1, <2>1
<1> DEFINE sent == s.status \ {"TRANSMIT"}
<1>3. \/ RcopySent(s) = [s EXCEPT !.status = sent]
      \/ RcopySent(s) = [s EXCEPT !.status = sent \union {"QUIT"}]
      \/ RcopySent(s) = [s EXCEPT !.status = sent \union {"RECEIVE"}]
      \/ RcopySent(s) = [s EXCEPT !.status = sent \union {"RECEIVE", "EXPECT_ACK"}]
  BY DEF RcopySent, Set, Clear, RcopyType
<1>4. \A add \in SUBSET {"QUIT", "RECEIVE", "EXPECT_ACK"} :
         /\ sent \union add \in SUBSET RcopyFlags
         /\ "END" \in sent \union add <=> "END" \in s.status
  BY <1>1 DEF RcopyFlags
<1>5. sent \in SUBSET RcopyFlags /\ ("END" \in sent <=> "END" \in s.status)
  BY <1>1
<1>6. QED
  BY <1>2, <1>3, <1>4, <1>5

\* The packet kept is the last one sent again.
LEMMA RcopyPutBackIsSound ==
    ASSUME NEW s \in RcopyType, RcopySound(s)
    PROVE  /\ KeepsFile(s, PutBack(s))
           /\ PutBack(s).outpkt.type # "RET"
           /\ PutBack(s).status = s.status
           /\ PutBack(s).retries = s.retries
           /\ PutBack(s).tofd = s.tofd
  BY DEF PutBack, KeepsFile, RcopySound, RcopyType

\* A bad packet: nothing but the packets kept and the flags change.
LEMMA RcopyReceivedBadIsSound ==
    ASSUME NEW s \in RcopyType, RcopySound(s)
    PROVE  KeepsFile(s, RcopyReceivedBad(s))
<1> DEFINE kept == IF s.outpkt.type = "RET" THEN s.tpkt ELSE s.outpkt
           r == retransmitpkt(s.sequence)
           f == s.status \union {"TRANSMIT"}
           t == [s EXCEPT !.tpkt = kept, !.outpkt = r, !.status = f]
<1>0. s.sequence \in Nat
  BY FileAssumption DEF RcopyType, EndOfFile
<1>1. RcopyReceivedBad(s) = t
  BY DEF RcopyReceivedBad, RequestsAgain
<1>2. r \in StreamPackets /\ r.type = "RET" /\ r.sequence = s.sequence
  BY <1>0, StreamPacketFacts
<1>3. kept \in StreamPackets /\ kept.type # "RET" /\ FromRcopy(kept, s.sequence)
  BY DEF RcopyType, RcopySound
<1>4. f \in SUBSET {"TRANSMIT", "RECEIVE", "EXPECT_ACK", "END", "QUIT"}
      /\ ("END" \in f <=> "END" \in s.status)
  BY DEF RcopyType
<1>5. FromRcopy(r, s.sequence)
  BY <1>0, <1>2 DEF FromRcopy
<1> HIDE DEF kept, r, f
<1>6. t \in RcopyType
  BY <1>2, <1>3, <1>4 DEF RcopyType
<1>7. RcopySound(t)
  BY <1>2, <1>3, <1>4, <1>5, <1>6 DEF RcopyType, RcopySound
<1>8. QED
  BY <1>1, <1>6, <1>7 DEF KeepsFile, RcopyType

\* Appending the next block to the first n gives the first n + 1.
LEMMA NextBlockAppended ==
    ASSUME NEW n \in Nat, NEW to \in Seq(Int), to = [i \in 1 .. n |-> i - 1]
    PROVE  /\ Append(to, n) \in Seq(Int)
           /\ Append(to, n) = [i \in 1 .. n + 1 |-> i - 1]
<1>1. Len(to) = n
  BY LenProperties
<1>2. /\ Append(to, n) \in Seq(Int)
      /\ Len(Append(to, n)) = n + 1
      /\ \A i \in 1 .. n : Append(to, n)[i] = i - 1
      /\ Append(to, n)[n + 1] = n
  BY <1>1, AppendProperties
<1>3. Append(to, n) \in [1 .. n + 1 -> Int]
  BY <1>2, LenProperties
<1>4. \A i \in 1 .. n + 1 : Append(to, n)[i] = i - 1
  BY <1>2
<1>5. QED
  BY <1>2, <1>3, <1>4

\* A data packet is written when it is the block expected, and that only.
WritesBlock(s, t) ==
    /\ t \in RcopyType
    /\ RcopySound(t)
    /\ s.sequence <= LastBlock
    /\ t.sequence = s.sequence + 1
    /\ t.returned = s.returned

LEMMA TakesDataIsSound ==
    ASSUME NEW s \in RcopyType, RcopySound(s), s.tpkt.type # "RET",
           NEW pkt, FromServer(pkt, s.sequence), pkt.type = "DAT"
    PROVE  \/ KeepsFile(s, TakesData(s, pkt))
           \/ pkt.sequence = s.sequence /\ WritesBlock(s, TakesData(s, pkt))
<1> DEFINE n == s.sequence
<1>0. /\ n \in Nat /\ pkt.sequence \in Nat /\ pkt \in StreamPackets
      /\ LastBlock \in Nat /\ n <= EndOfFile /\ EndOfFile = LastBlock + 1
  BY FileAssumption DEF RcopyType, EndOfFile, FromServer, StreamPackets
<1>1. CASE pkt.sequence # n
  <2> DEFINE r == retransmitpkt(n)
             f == s.status \union {"TRANSMIT"}
             t == [s EXCEPT !.outpkt = r, !.status = f]
  <2>1. TakesData(s, pkt) = t
    BY <1>1 DEF TakesData
  <2>2. r \in StreamPackets /\ r.type = "RET" /\ r.sequence = n
    BY <1>0, StreamPacketFacts
  <2>3. f \in SUBSET RcopyFlags /\ ("END" \in f <=> "END" \in s.status)
    BY DEF RcopyType, RcopyFlags
  <2>4. FromRcopy(r, n)
    BY <1>0, <2>2 DEF FromRcopy
  <2> HIDE DEF r, f
  <2>5. t \in RcopyType
    BY <2>2, <2>3 DEF RcopyType, RcopyFlags
  <2>6. RcopySound(t)
    BY <2>2, <2>3, <2>4, <2>5 DEF RcopyType, RcopySound
  <2>7. QED
    BY <2>1, <2>5, <2>6 DEF KeepsFile, RcopyType
<1>2. CASE pkt.sequence = n
  <2> DEFINE to == Append(s.tofd, pkt.data)
             a == ackpkt(pkt)
             f == s.status \union {"TRANSMIT"} \union
                     (IF pkt.size < BufferSize THEN {"END"} ELSE {})
             t == [s EXCEPT !.tofd = to, !.sequence = n + 1, !.outpkt = a,
                            !.status = f]
  <2>1. TakesData(s, pkt) = t
    BY <1>2 DEF TakesData
  <2>2. pkt = datpkt(n, n) /\ n <= LastBlock
    BY <1>0, <1>2 DEF FromServer
  <2>3. pkt.data = n /\ (pkt.size < BufferSize <=> n >= LastBlock)
    BY <1>0, <2>2, BlockFacts
  <2>4. a \in StreamPackets /\ a.type = "ACK" /\ a.data = n
    BY <1>0, <2>3, StreamPacketFacts
  <2>5. to \in Seq(Int) /\ to = [i \in 1 .. n + 1 |-> i - 1]
    BY <1>0, <2>3, NextBlockAppended DEF RcopyType, RcopySound
  <2>6. f \in SUBSET RcopyFlags
    BY DEF RcopyType, RcopyFlags
  <2>7. "END" \in f <=> n + 1 = EndOfFile
    BY <1>0, <2>2, <2>3 DEF RcopySound
  <2>8. FromRcopy(a, n + 1) /\ FromRcopy(s.tpkt, n + 1)
    <3>1. FromRcopy(a, n + 1)
      BY <1>0, <2>4 DEF FromRcopy
    <3>2. FromRcopy(s.tpkt, n + 1)
      BY <1>0, FromRcopyGrows DEF RcopySound
    <3>3. QED
      BY <3>1, <3>2
  <2> HIDE DEF to, a, f
  <2>9. t \in RcopyType /\ t.sequence = n + 1
    <3>1. n + 1 \in 0 .. EndOfFile
      BY <1>0, <2>2
    <3>2. QED
      BY <2>4, <2>5, <2>6, <3>1 DEF RcopyType, RcopyFlags
  <2>10. RcopySound(t)
    BY <2>4, <2>5, <2>7, <2>8 DEF RcopyType, RcopySound
  <2>11. QED
    BY <1>2, <2>1, <2>2, <2>9, <2>10 DEF WritesBlock, RcopyType
<1>3. QED
  BY <1>1, <1>2

\* A good packet: what the client keeps stays sound, and the file grows only by
\* the block it lacks.
LEMMA RcopyReceivedIsSound ==
    ASSUME NEW s \in RcopyType, RcopySound(s), s.retries < PKT_TRNSMAX,
           NEW pkt, FromServer(pkt, s.sequence)
    PROVE  LET t == RcopyReceived(s, pkt)
           IN  \/ KeepsFile(s, t)
               \/ /\ pkt.type = "DAT" /\ pkt.sequence = s.sequence
                  /\ WritesBlock(s, t)
<1> DEFINE u == PutBack(s)
           t == RcopyReceived(s, pkt)
<1>1. /\ u \in RcopyType /\ RcopySound(u) /\ u.sequence = s.sequence
      /\ u.returned = s.returned /\ u.retries = s.retries
      /\ u.outpkt.type # "RET" /\ u.tpkt.type # "RET"
  BY RcopyPutBackIsSound DEF KeepsFile, RcopySound
<1>2. /\ u.retries + 1 \in 0 .. PKT_TRNSMAX /\ 0 \in 0 .. PKT_TRNSMAX
      /\ u.status \in SUBSET RcopyFlags
  BY <1>1, RetriesAssumption DEF RcopyType, RcopyFlags
<1> HIDE DEF u
<1>3. CASE pkt.type = "DAT"
  <2>1. t = TakesData(u, pkt)
    BY <1>3 DEF RcopyReceived, u
  <2>2. \/ KeepsFile(u, t)
        \/ pkt.sequence = u.sequence /\ WritesBlock(u, t)
    BY <1>1, <1>3, <2>1, TakesDataIsSound
  <2>3. QED
    BY <1>1, <1>3, <2>2 DEF KeepsFile, WritesBlock
<1>4. CASE pkt.type # "DAT"
  <2>1. \/ t = [u EXCEPT !.status = u.status \ {"EXPECT_ACK"}, !.retries = 0]
        \/ t = [u EXCEPT !.status = u.status \union {"TRANSMIT"},
                         !.retries = u.retries + 1]
        \/ t = u
    BY <1>1, <1>4 DEF RcopyReceived, u, Set, Clear, RcopyType
  <2> HIDE DEF t
  <2>2. /\ u.status \ {"EXPECT_ACK"} \in SUBSET RcopyFlags
        /\ u.status \union {"TRANSMIT"} \in SUBSET RcopyFlags
    BY <1>2 DEF RcopyFlags
  <2>3. KeepsFile(u, t)
    <3>0. ASSUME NEW f \in SUBSET RcopyFlags, "END" \in f <=> "END" \in u.status,
                 NEW r \in 0 .. PKT_TRNSMAX
          PROVE  KeepsFile(u, [u EXCEPT !.status = f, !.retries = r])
      BY <1>1, <3>0, RcopyFlagsAreSound
    <3>1. CASE t = u
      BY <1>1, <3>1 DEF KeepsFile
    <3>2. CASE t = [u EXCEPT !.status = u.status \ {"EXPECT_ACK"}, !.retries = 0]
      BY <1>2, <2>2, <3>0, <3>2
    <3>3. CASE t = [u EXCEPT !.status = u.status \union {"TRANSMIT"},
                             !.retries = u.retries + 1]
      BY <1>2, <2>2, <3>0, <3>3
    <3>4. QED
      BY <2>1, <3>1, <3>2, <3>3
  <2>4. QED
    BY <1>1, <2>3 DEF KeepsFile, t
<1>5. QED
  BY <1>3, <1>4

-----------------------------------------------------------------------------
(* client_comm *)

CommFlags ==
    {"QUIT", "EXPECT_ACK", "EXPECT_INFO", "INFO_INIT", "TRANSMIT", "RECEIVE",
     "NEXTDATA", "RETRANSMIT"}

\* A handler keeps the server sound towards a client that expects block n, and
\* does not close the file it has opened.
StaysSound(s, t, n) ==
    /\ t \in CommType
    /\ CommSound(t, n)
    /\ FromfdUnset(t) => FromfdUnset(s)

\* The server as it starts is sound towards a client that has nothing.
LEMMA CommStartIsSound ==
    /\ CommStart \in CommType
    /\ CommSound(CommStart, 0)
    /\ FromfdUnset(CommStart)
<1>1. CommStart \in CommType
  BY StreamPacketFacts, FileAssumption, RetriesAssumption
  DEF CommStart, CommType, EndOfFile
<1>2. FromfdUnset(CommStart)
  BY DEF CommStart, FromfdUnset
<1>3. CommSound(CommStart, 0)
  BY <1>2, StreamPacketFacts DEF CommStart, CommSound, NothingSent
<1>4. QED
  BY <1>1, <1>2, <1>3

\* The client writes the block the server has sent last: it is now one ahead.
LEMMA WrittenBlockIsSound ==
    ASSUME NEW n \in Nat, NEW s \in CommType, CommSound(s, n),
           ~FromfdUnset(s), s.sequence = n, n <= LastBlock
    PROVE  CommSound(s, n + 1)
<1>1. SendsBlock(s, n)
  BY DEF CommSound
<1>2. SendsBlock(s, n + 1)
  <2>1. "RETRANSMIT" \notin s.status
    BY <1>1 DEF SendsBlock
  <2>2. "QUIT" \in s.status => TailSize = 0
    BY <1>1, FileAssumption DEF SendsBlock, EndOfFile
  <2>3. QED
    BY <1>1, <2>1, <2>2 DEF SendsBlock
<1>3. QED
  BY <1>2 DEF CommSound

\* A handler that fails leaves the rest as it was.
LEMMA CommFailsIsSound ==
    ASSUME NEW n \in Nat, NEW s \in CommType, CommSound(s, n)
    PROVE  StaysSound(s, CommFails(s), n) /\ CommFails(s).sequence = s.sequence
<1> DEFINE t == CommFails(s)
<1>1. t \in CommType
  BY DEF CommFails, CommType
<1>2. /\ t.sequence = s.sequence /\ t.offset = s.offset /\ t.fromfd = s.fromfd
      /\ t.outpkt = s.outpkt /\ t.tpkt = s.tpkt /\ t.status = s.status /\ t.failed
  BY DEF CommFails, CommType
<1> HIDE DEF t
<1>3. FromfdUnset(t) <=> FromfdUnset(s)
  BY <1>2 DEF FromfdUnset
<1>4. NothingSent(s, n) => NothingSent(t, n)
  BY <1>2 DEF NothingSent
<1>5. SendsBlock(s, n) => SendsBlock(t, n)
  BY <1>2 DEF SendsBlock, LastPacket
<1>6. QED
  BY <1>1, <1>2, <1>3, <1>4, <1>5 DEF StaysSound, CommSound, t

\* Reading a block from position p, as the current packet.
LEMMA ReadsDataFacts ==
    ASSUME NEW s \in CommType,
           \/ "RETRANSMIT" \in s.status
           \/ s.offset = s.fromfd
    PROVE  LET pkt == datpkt(s.sequence, s.fromfd)
               t == ReadsData(s)
               next == IF pkt.size > 0 THEN s.fromfd + 1 ELSE s.fromfd
           IN  /\ t \in CommType
               /\ t.outpkt = pkt /\ t.tpkt = s.tpkt
               /\ t.sequence = s.sequence /\ t.fromfd = next
               /\ t.offset = IF "RETRANSMIT" \in s.status THEN s.offset ELSE next
               /\ t.status = (s.status \ {"NEXTDATA", "RECEIVE"}) \union
                     (IF pkt.size = 0 THEN {"QUIT", "TRANSMIT"} ELSE {"TRANSMIT"})
<1> DEFINE pkt == datpkt(s.sequence, s.fromfd)
           next == IF pkt.size > 0 THEN s.fromfd + 1 ELSE s.fromfd
           off == IF "RETRANSMIT" \in s.status THEN s.offset ELSE next
           f == (s.status \ {"NEXTDATA", "RECEIVE"}) \union
                   (IF pkt.size = 0 THEN {"QUIT", "TRANSMIT"} ELSE {"TRANSMIT"})
           t == [s EXCEPT !.fromfd = next, !.offset = off, !.outpkt = pkt,
                          !.status = f]
<1>1. /\ s.sequence \in Nat /\ s.fromfd \in 0 .. EndOfFile /\ LastBlock \in Nat
      /\ EndOfFile = LastBlock + 1
  BY FileAssumption DEF CommType, EndOfFile
<1>2. pkt \in StreamPackets /\ (pkt.size > 0 => s.fromfd <= LastBlock)
  BY <1>1, BlockFacts
<1> HIDE DEF pkt
<1>3. next \in 0 .. EndOfFile
  BY <1>1, <1>2
<1>4. off \in 0 .. EndOfFile
  BY <1>3 DEF CommType
<1>5. f \in SUBSET CommFlags
  BY DEF CommType, CommFlags
<1>6. ReadsData(s) = t
  <2>1. ReadsData(s).status = f
    BY DEF ReadsData, Set, Clear, Advance, file_to_packet, CommType, pkt
  <2>2. QED
    BY DEF ReadsData, Set, Clear, Advance, file_to_packet, CommType, pkt
<1> HIDE DEF next, off, f
<1>7. t \in CommType
  BY <1>2, <1>3, <1>4, <1>5 DEF CommType, CommFlags
<1>8. /\ t.outpkt = pkt /\ t.tpkt = s.tpkt /\ t.sequence = s.sequence
      /\ t.fromfd = next /\ t.offset = off /\ t.status = f
  BY DEF CommType
<1>9. QED
  BY <1>6, <1>7, <1>8 DEF pkt, next, off, f

\* The current block, which the client lacks: before it is first sent, and after
\* an ACK of the one before.
LEMMA ReadsCurrentIsSound ==
    ASSUME NEW s \in CommType, ~FromfdUnset(s), s.tpkt.type # "RET",
           {"RETRANSMIT", "QUIT"} \intersect s.status = {},
           s.offset = s.sequence, s.fromfd = s.sequence
    PROVE  /\ ReadsData(s) \in CommType
           /\ CommSound(ReadsData(s), s.sequence)
           /\ ~FromfdUnset(ReadsData(s))
           /\ ReadsData(s).sequence = s.sequence
<1> DEFINE n == s.sequence
           t == ReadsData(s)
           pkt == datpkt(n, n)
<1>0. n \in 0 .. EndOfFile /\ n \in Nat /\ EndOfFile = LastBlock + 1 /\ LastBlock \in Nat
  BY FileAssumption DEF CommType, EndOfFile
<1>1. /\ pkt.type = "DAT"
      /\ pkt.size > 0 => n <= LastBlock
      /\ pkt.size = 0 => TailSize = 0 \/ n = EndOfFile
      /\ pkt.size = 0 \/ pkt.size > 0
  <2>1. pkt.size \in Nat
    BY <1>0, BlockFacts DEF StreamPackets
  <2>2. QED
    BY <1>0, <2>1, BlockFacts
<1>2. /\ t \in CommType /\ t.outpkt = pkt /\ t.tpkt = s.tpkt /\ t.sequence = n
      /\ t.fromfd = IF pkt.size > 0 THEN n + 1 ELSE n
      /\ t.offset = t.fromfd
      /\ t.status = (s.status \ {"NEXTDATA", "RECEIVE"}) \union
            (IF pkt.size = 0 THEN {"QUIT", "TRANSMIT"} ELSE {"TRANSMIT"})
  BY ReadsDataFacts
<1> HIDE DEF t, pkt
<1>3. /\ "RETRANSMIT" \notin t.status /\ "NEXTDATA" \notin t.status
      /\ ~FromfdUnset(t)
      /\ "QUIT" \in t.status <=> pkt.size = 0
  BY <1>2 DEF FromfdUnset
<1>4. LastPacket(t) = pkt
  BY <1>1, <1>2 DEF LastPacket
<1>5. SendsBlock(t, n)
  BY <1>0, <1>1, <1>2, <1>3, <1>4 DEF SendsBlock, pkt
<1>6. QED
  BY <1>0, <1>2, <1>3, <1>5 DEF CommSound, t

\* The block behind the current one, which the client asks for, under the
\* current number.
LEMMA ReadsNextIsSound ==
    ASSUME NEW s \in CommType, ~FromfdUnset(s), s.tpkt.type # "RET",
           "RETRANSMIT" \in s.status, "QUIT" \notin s.status,
           s.sequence <= LastBlock, s.fromfd = s.sequence + 1
    PROVE  /\ ReadsData(s) \in CommType
           /\ CommSound(ReadsData(s), s.sequence + 1)
           /\ ~FromfdUnset(ReadsData(s))
           /\ ReadsData(s).sequence = s.sequence
<1> DEFINE n == s.sequence
           t == ReadsData(s)
           pkt == datpkt(n, n + 1)
<1>0. n \in Nat /\ n + 1 \in 0 .. EndOfFile /\ EndOfFile = LastBlock + 1 /\ LastBlock \in Nat
  BY FileAssumption DEF CommType, EndOfFile
<1>1. /\ pkt.type = "DAT"
      /\ pkt.size = 0 => TailSize = 0 \/ n + 1 = EndOfFile
  BY <1>0, BlockFacts
<1>2. /\ t \in CommType /\ t.outpkt = pkt /\ t.tpkt = s.tpkt /\ t.sequence = n
      /\ t.status = (s.status \ {"NEXTDATA", "RECEIVE"}) \union
            (IF pkt.size = 0 THEN {"QUIT", "TRANSMIT"} ELSE {"TRANSMIT"})
  BY ReadsDataFacts
<1> HIDE DEF t, pkt
<1>3. /\ "RETRANSMIT" \in t.status /\ "NEXTDATA" \notin t.status
      /\ ~FromfdUnset(t)
      /\ "QUIT" \in t.status <=> pkt.size = 0
  BY <1>2 DEF FromfdUnset
<1>4. LastPacket(t) = pkt
  BY <1>1, <1>2 DEF LastPacket
<1>5. SendsBlock(t, n + 1)
  BY <1>0, <1>1, <1>2, <1>3, <1>4 DEF SendsBlock, pkt
<1>6. QED
  BY <1>0, <1>2, <1>3, <1>5 DEF CommSound, t

\* Flags and retries that say nothing about the file, and the packets kept.
LEMMA CommFlagsAreSound ==
    ASSUME NEW n \in Nat, NEW s \in CommType, CommSound(s, n),
           NEW t \in CommType,
           t.sequence = s.sequence, t.fromfd = s.fromfd, t.offset = s.offset,
           t.failed = s.failed,
           \A f \in CommFlags \ {"TRANSMIT", "RECEIVE", "EXPECT_ACK"} :
              f \in t.status <=> f \in s.status,
           "INFO_INIT" \in s.status =>
              t.outpkt = s.outpkt /\ ("TRANSMIT" \in s.status => "TRANSMIT" \in t.status),
           LastPacket(t) = LastPacket(s),
           t.outpkt.type = "RET" \/ t.outpkt = LastPacket(s),
           t.tpkt.type # "RET",
           t.tpkt = s.tpkt \/ t.tpkt = LastPacket(s)
    PROVE  StaysSound(s, t, n)
<1>1. /\ "EXPECT_INFO" \in t.status <=> "EXPECT_INFO" \in s.status
      /\ "INFO_INIT" \in t.status <=> "INFO_INIT" \in s.status
      /\ "NEXTDATA" \in t.status <=> "NEXTDATA" \in s.status
      /\ "RETRANSMIT" \in t.status <=> "RETRANSMIT" \in s.status
      /\ "QUIT" \in t.status <=> "QUIT" \in s.status
  BY DEF CommFlags
<1>2. FromfdUnset(t) <=> FromfdUnset(s)
  BY <1>1 DEF FromfdUnset
<1>3. ASSUME NothingSent(s, n)
      PROVE  NothingSent(t, n)
  <2>1. t.outpkt.type # "DAT" /\ t.tpkt.type # "DAT"
    BY <1>3 DEF NothingSent, LastPacket
  <2>2. QED
    BY <1>1, <1>3, <2>1 DEF NothingSent
<1>4. ASSUME SendsBlock(s, n)
      PROVE  SendsBlock(t, n)
  <2>1. LastPacket(s).type = "DAT"
    BY <1>4 DEF SendsBlock, datpkt
  <2>2. t.outpkt.type # "ACK"
    BY <2>1
  <2>3. QED
    BY <1>1, <1>4, <2>2 DEF SendsBlock
<1>5. QED
  BY <1>1, <1>2, <1>3, <1>4 DEF CommSound, StaysSound

\* The packet kept is the last one sent again.
LEMMA CommPutBackIsSound ==
    ASSUME NEW n \in Nat, NEW s \in CommType, CommSound(s, n)
    PROVE  /\ StaysSound(s, PutBack(s), n)
           /\ PutBack(s).outpkt = LastPacket(s)
           /\ PutBack(s).outpkt.type # "RET"
           /\ PutBack(s).status = s.status
           /\ PutBack(s).sequence = s.sequence
           /\ PutBack(s).retries = s.retries
           /\ PutBack(s).failed = s.failed
<1> DEFINE t == PutBack(s)
<1>1. /\ t \in CommType /\ t.outpkt = LastPacket(s) /\ t.tpkt = s.tpkt
      /\ t.status = s.status /\ t.sequence = s.sequence /\ t.retries = s.retries
      /\ t.fromfd = s.fromfd /\ t.offset = s.offset /\ t.failed = s.failed
  BY DEF PutBack, LastPacket, CommType
<1>2. s.tpkt.type # "RET" /\ t.outpkt.type # "RET"
  BY <1>1 DEF CommSound, LastPacket
<1>3. "INFO_INIT" \in s.status => s.outpkt.type = "ACK"
  BY DEF CommSound, NothingSent, FromfdUnset
<1> HIDE DEF t
<1>4. LastPacket(t) = LastPacket(s)
  BY <1>1, <1>2 DEF LastPacket
<1>5. "INFO_INIT" \in s.status => t.outpkt = s.outpkt
  BY <1>1, <1>3 DEF LastPacket
<1>6. StaysSound(s, t, n)
  BY <1>1, <1>2, <1>4, <1>5, CommFlagsAreSound
<1>7. QED
  BY <1>1, <1>2, <1>6 DEF t

\* A bad packet: a request takes the place of the last one, which is kept.
LEMMA CommReceivedBadIsSound ==
    ASSUME NEW n \in Nat, NEW s \in CommType, CommSound(s, n),
           ~s.failed, "TRANSMIT" \notin s.status
    PROVE  /\ StaysSound(s, CommReceivedBad(s), n)
           /\ CommReceivedBad(s).sequence = s.sequence
<1> DEFINE r == retransmitpkt(s.sequence)
           kept == LastPacket(s)
           f == s.status \union {"TRANSMIT"}
           t == [s EXCEPT !.tpkt = kept, !.outpkt = r, !.status = f]
<1>0. s.sequence \in Nat
  BY FileAssumption DEF CommType, EndOfFile
<1>1. CommReceivedBad(s) = t
  BY DEF CommReceivedBad, RequestsAgain, LastPacket
<1>2. r \in StreamPackets /\ r.type = "RET"
  BY <1>0, StreamPacketFacts
<1>3. kept \in StreamPackets /\ kept.type # "RET"
  BY DEF LastPacket, CommType, CommSound
<1>4. f \in SUBSET CommFlags
  BY DEF CommType, CommFlags
<1> HIDE DEF r, kept, f
<1>5. /\ t \in CommType /\ t.tpkt = kept /\ t.outpkt = r /\ t.status = f
      /\ t.sequence = s.sequence /\ t.fromfd = s.fromfd /\ t.offset = s.offset
      /\ t.failed = s.failed
  BY <1>2, <1>3, <1>4 DEF CommType, CommFlags
<1>6. "INFO_INIT" \notin s.status
  BY DEF CommSound, NothingSent, FromfdUnset
<1> HIDE DEF t
<1>7. LastPacket(t) = LastPacket(s)
  BY <1>2, <1>5 DEF LastPacket, kept
<1>8. StaysSound(s, t, n)
  BY <1>2, <1>3, <1>5, <1>6, <1>7, CommFlagsAreSound DEF f, kept
<1>9. QED
  BY <1>1, <1>5, <1>8

\* What the loop sends is sound for the client, as is what follows the send: an
\* ACK of the request is followed by the first block.
LEMMA CommSentIsSound ==
    ASSUME NEW F, NEW n \in 0 .. EndOfFile, NEW s \in CommType, CommSound(s, n),
           CommGoesOn(s), "TRANSMIT" \in s.status
    PROVE  /\ StaysSound(s, CommSent(s, F), n)
           /\ CommSent(s, F).sequence = s.sequence
           /\ FromServer(s.outpkt, n)
           /\ s.outpkt.type = "DAT" =>
                 ~FromfdUnset(s) /\ s.outpkt.sequence = s.sequence
<1>0. /\ n \in Nat /\ s.sequence \in Nat /\ s.status \in SUBSET CommFlags
      /\ ~s.failed /\ "QUIT" \notin s.status
  BY FileAssumption DEF CommType, EndOfFile, CommGoesOn, CommFlags
<1>1. s.outpkt.type = "DAT" =>
         /\ ~FromfdUnset(s)
         /\ s.outpkt.sequence = s.sequence
         /\ s.sequence <= LastBlock
         /\ s.sequence < n \/ s.outpkt = datpkt(s.sequence, s.sequence)
  <2> SUFFICES ASSUME s.outpkt.type = "DAT"
               PROVE  /\ ~FromfdUnset(s)
                      /\ s.outpkt.sequence = s.sequence
                      /\ s.sequence <= LastBlock
                      /\ s.sequence < n \/ s.outpkt = datpkt(s.sequence, s.sequence)
    OBVIOUS
  <2>1. ~FromfdUnset(s) /\ SendsBlock(s, n) /\ LastPacket(s) = s.outpkt
    BY DEF CommSound, NothingSent, LastPacket
  <2>2. s.sequence <= LastBlock
    BY <1>0, <2>1 DEF SendsBlock
  <2>3. CASE "RETRANSMIT" \in s.status
    BY <1>0, <2>1, <2>2, <2>3 DEF SendsBlock, datpkt
  <2>4. CASE "RETRANSMIT" \notin s.status
    BY <2>1, <2>2, <2>4 DEF SendsBlock, datpkt
  <2>5. QED
    BY <2>1, <2>2, <2>3, <2>4
<1>2. FromServer(s.outpkt, n)
  BY <1>1 DEF FromServer, CommType
<1>3. CASE s.outpkt.type = "ACK"
  <2>1. FromfdUnset(s) /\ NothingSent(s, n) /\ s.tpkt.type # "RET"
    BY <1>3 DEF CommSound, SendsBlock
  <2> DEFINE f == s.status \ {"TRANSMIT", "RECEIVE"}
             u == [s EXCEPT !.status = f]
  <2>2. CommSent(s, F) = HandleFiles(u, F)
    BY <1>3 DEF CommSent, Clear
  <2>3. f \in SUBSET CommFlags
    BY <1>0
  <2> HIDE DEF f
  <2>4. /\ u \in CommType /\ u.status = f
        /\ u.sequence = s.sequence /\ u.fromfd = s.fromfd /\ u.offset = s.offset
        /\ u.outpkt = s.outpkt /\ u.tpkt = s.tpkt /\ u.failed = s.failed
        /\ u.fromname = s.fromname
    BY <2>3 DEF CommType, CommFlags
  <2>5. /\ "EXPECT_INFO" \in f <=> "EXPECT_INFO" \in s.status
        /\ "INFO_INIT" \in f <=> "INFO_INIT" \in s.status
        /\ "NEXTDATA" \notin f /\ "RETRANSMIT" \notin f /\ "QUIT" \notin f
    BY <1>0, <2>1 DEF f, NothingSent, CommSound
  <2> HIDE DEF u
  <2>6. CASE "EXPECT_INFO" \in s.status
    <3>1. "INFO_INIT" \notin s.status
      BY <2>1, <2>6 DEF NothingSent
    <3>2. HandleFiles(u, F) = u
      BY <2>4, <2>5, <2>6 DEF HandleFiles
    <3>3. CommSound(u, n)
      BY <2>1, <2>4, <2>5, <2>6, <3>1
      DEF CommSound, NothingSent, FromfdUnset
    <3>4. QED
      BY <1>1, <1>2, <2>1, <2>2, <2>4, <3>2, <3>3 DEF StaysSound
  <2>7. CASE "EXPECT_INFO" \notin s.status
    <3>1. "INFO_INIT" \in s.status
      BY <2>1, <2>7 DEF FromfdUnset
    <3>2. CASE u.fromname \notin F
      <4>1. HandleFiles(u, F) = CommFails(u)
        BY <2>4, <2>5, <2>7, <3>1, <3>2 DEF HandleFiles
      <4> DEFINE t == CommFails(u)
      <4>2. /\ t \in CommType /\ t.status = f /\ t.failed
            /\ t.sequence = s.sequence /\ t.fromfd = s.fromfd
            /\ t.offset = s.offset /\ t.outpkt = s.outpkt /\ t.tpkt = s.tpkt
        BY <2>4 DEF CommFails, CommType
      <4> HIDE DEF t
      <4>3. CommSound(t, n)
        BY <2>1, <2>5, <2>7, <3>1, <4>2 DEF CommSound, NothingSent, FromfdUnset
      <4>4. QED
        BY <1>1, <1>2, <2>1, <2>2, <4>1, <4>2, <4>3 DEF StaysSound, t
    <3>3. CASE u.fromname \in F
      <4> DEFINE g == f \ {"INFO_INIT"}
                 v == [u EXCEPT !.status = g]
      <4>1. HandleFiles(u, F) = ReadsData(v)
        BY <2>4, <2>5, <2>7, <3>1, <3>3 DEF HandleFiles, Clear
      <4>2. g \in SUBSET CommFlags
        BY <2>3
      <4>3. /\ "EXPECT_INFO" \notin g /\ "INFO_INIT" \notin g
            /\ "RETRANSMIT" \notin g /\ "QUIT" \notin g
        BY <2>5, <2>7
      <4> HIDE DEF g
      <4>4. /\ v \in CommType /\ v.status = g /\ v.sequence = s.sequence
            /\ v.fromfd = s.fromfd /\ v.offset = s.offset /\ v.tpkt = s.tpkt
        BY <2>4, <4>2 DEF CommType, CommFlags
      <4> HIDE DEF v
      <4>5. /\ ~FromfdUnset(v) /\ v.tpkt.type # "RET"
            /\ {"RETRANSMIT", "QUIT"} \intersect v.status = {}
            /\ v.offset = v.sequence /\ v.fromfd = v.sequence /\ v.sequence = n
        BY <2>1, <4>3, <4>4 DEF FromfdUnset, NothingSent
      <4>6. /\ ReadsData(v) \in CommType /\ CommSound(ReadsData(v), n)
            /\ ReadsData(v).sequence = s.sequence
        BY <4>4, <4>5, ReadsCurrentIsSound
      <4>7. QED
        BY <1>1, <1>2, <2>1, <2>2, <4>1, <4>6 DEF StaysSound
    <3>4. QED
      BY <3>2, <3>3
  <2>8. QED
    BY <2>6, <2>7
<1>4. CASE s.outpkt.type # "ACK"
  <2> DEFINE sent == s.status \ {"TRANSMIT"}
  <2>1. \/ CommSent(s, F) = [s EXCEPT !.status = sent \union {"RECEIVE"}]
        \/ CommSent(s, F) =
              [s EXCEPT !.status = sent \union {"RECEIVE", "EXPECT_ACK"}]
    BY <1>4 DEF CommSent, Set, Clear, CommType
  <2>2. "INFO_INIT" \notin s.status
    BY <1>4 DEF CommSound, NothingSent, FromfdUnset
  <2>3. ASSUME NEW add \in SUBSET {"RECEIVE", "EXPECT_ACK"}
        PROVE  /\ StaysSound(s, [s EXCEPT !.status = sent \union add], n)
               /\ [s EXCEPT !.status = sent \union add].sequence = s.sequence
    <3> DEFINE f == sent \union add
               t == [s EXCEPT !.status = f]
    <3>1. f \in SUBSET CommFlags
      BY <1>0 DEF CommFlags
    <3>2. \A x \in CommFlags \ {"TRANSMIT", "RECEIVE", "EXPECT_ACK"} :
             x \in f <=> x \in s.status
      OBVIOUS
    <3> HIDE DEF f
    <3>3. /\ t \in CommType /\ t.status = f
          /\ t.sequence = s.sequence /\ t.fromfd = s.fromfd /\ t.offset = s.offset
          /\ t.outpkt = s.outpkt /\ t.tpkt = s.tpkt /\ t.failed = s.failed
      BY <3>1 DEF CommType, CommFlags
    <3> HIDE DEF t
    <3>4. /\ LastPacket(t) = LastPacket(s) /\ t.tpkt.type # "RET"
          /\ t.outpkt.type = "RET" \/ t.outpkt = LastPacket(s)
      BY <3>3 DEF LastPacket, CommSound
    <3>5. StaysSound(s, t, n)
      BY <1>0, <2>2, <3>2, <3>3, <3>4, CommFlagsAreSound
    <3>6. QED
      BY <3>3, <3>5 DEF t, f
  <2>4. QED
    BY <1>1, <1>2, <2>1, <2>3
<1>5. QED
  BY <1>3, <1>4

\* An ACK that matches the last packet is the one of the current block: the
\* client has sent none of a later block, and none matches a block read again.
LEMMA AckAcceptedIsSound ==
    ASSUME BlocksDiffer, NEW F, NEW n \in 0 .. EndOfFile,
           NEW s \in CommType, CommSound(s, n), s.outpkt.type # "RET",
           {"INFO_INIT", "QUIT"} \intersect s.status = {},
           NEW pkt, FromRcopy(pkt, n), pkt.type = "ACK",
           SameData(s.outpkt.data, pkt.data)
    PROVE  /\ StaysSound(s, HandleFiles(AckAccepted(s), F), n)
           /\ pkt.data = s.sequence
           /\ HandleFiles(AckAccepted(s), F).sequence = s.sequence + 1
<1>0. /\ n \in Nat /\ s.sequence \in Nat /\ s.status \in SUBSET CommFlags
      /\ LastBlock \in Nat /\ EndOfFile = LastBlock + 1
  BY FileAssumption DEF CommType, EndOfFile, CommFlags
<1>1. s.outpkt.data = pkt.data /\ pkt.data \in 0 .. n - 1
  BY SameDataFacts DEF FromRcopy
<1>2. ~FromfdUnset(s) /\ SendsBlock(s, n) /\ LastPacket(s) = s.outpkt
  BY <1>0, <1>1 DEF CommSound, NothingSent, LastPacket
<1>3. "RETRANSMIT" \notin s.status
  <2> SUFFICES ASSUME "RETRANSMIT" \in s.status
               PROVE  FALSE
    OBVIOUS
  <2>1. s.outpkt = datpkt(s.sequence, n) /\ n = s.sequence + 1
    BY <1>2 DEF SendsBlock
  <2>2. s.outpkt.data = n
    BY <1>0, <2>1, BlockFacts
  <2>3. QED
    BY <1>0, <1>1, <2>2
<1>4. /\ s.outpkt = datpkt(s.sequence, s.sequence)
      /\ s.sequence <= LastBlock
      /\ s.fromfd = s.sequence + 1 /\ s.offset = s.sequence + 1
  BY <1>2, <1>3 DEF SendsBlock
<1>5. pkt.data = s.sequence /\ s.outpkt.type = "DAT"
  BY <1>0, <1>1, <1>4, BlockFacts DEF CommType
<1>6. n = s.sequence + 1
  BY <1>0, <1>1, <1>5 DEF CommSound
<1> DEFINE f == (s.status \ {"EXPECT_ACK", "RECEIVE", "RETRANSMIT"})
                   \union {"NEXTDATA"}
           t == [s EXCEPT !.status = f, !.retries = 0, !.sequence = n]
<1>7. AckAccepted(s) = t
  BY <1>3, <1>5, <1>6 DEF AckAccepted, Set, Clear, CommType
<1>8. f \in SUBSET CommFlags
  BY <1>0 DEF CommFlags
<1>9. /\ "EXPECT_INFO" \notin f /\ "INFO_INIT" \notin f /\ "NEXTDATA" \in f
      /\ "RETRANSMIT" \notin f /\ "QUIT" \notin f
  BY <1>2 DEF FromfdUnset
<1> HIDE DEF f
<1>10. /\ t \in CommType /\ t.status = f /\ t.sequence = n /\ t.tpkt = s.tpkt
       /\ t.fromfd = n /\ t.offset = n
  <2>1. 0 \in 0 .. PKT_TRNSMAX
    BY RetriesAssumption
  <2>2. t \in CommType
    BY <1>8, <2>1 DEF CommType, CommFlags
  <2>3. QED
    BY <1>4, <1>6, <2>2 DEF CommType
<1> HIDE DEF t
<1>11. HandleFiles(t, F) = ReadsData(t)
  BY <1>9, <1>10 DEF HandleFiles
<1>12. ~FromfdUnset(t) /\ t.tpkt.type # "RET"
       /\ {"RETRANSMIT", "QUIT"} \intersect t.status = {}
  BY <1>9, <1>10 DEF FromfdUnset, CommSound
<1>13. /\ ReadsData(t) \in CommType /\ CommSound(ReadsData(t), n)
       /\ ~FromfdUnset(ReadsData(t)) /\ ReadsData(t).sequence = n
  BY <1>10, <1>12, ReadsCurrentIsSound
<1>14. QED
  BY <1>5, <1>6, <1>7, <1>11, <1>13 DEF StaysSound

\* A request that is not for the current block is for the one behind it.
LEMMA RetransmitsIsSound ==
    ASSUME NEW F, NEW n \in 0 .. EndOfFile,
           NEW s \in CommType, CommSound(s, n), s.outpkt.type # "RET",
           {"INFO_INIT", "QUIT"} \intersect s.status = {},
           s.retries < PKT_TRNSMAX,
           NEW pkt, FromRcopy(pkt, n), pkt.type = "RET",
           s.sequence <= pkt.sequence
    PROVE  /\ StaysSound(s, Retransmits(s, pkt, F), n)
           /\ Retransmits(s, pkt, F).sequence = s.sequence
<1>0. /\ n \in Nat /\ s.sequence \in Nat /\ s.status \in SUBSET CommFlags
      /\ pkt.sequence \in Nat /\ pkt.sequence <= n
      /\ LastBlock \in Nat /\ EndOfFile = LastBlock + 1
      /\ s.retries + 1 \in 0 .. PKT_TRNSMAX
  BY FileAssumption, RetriesAssumption
  DEF CommType, EndOfFile, CommFlags, FromRcopy, StreamPackets
<1>1. s.outpkt = LastPacket(s) /\ s.tpkt.type # "RET"
  BY DEF LastPacket, CommSound
<1>2. CASE pkt.sequence = s.sequence
  <2> DEFINE f == s.status \union {"TRANSMIT"}
             t == [s EXCEPT !.status = f, !.retries = s.retries + 1]
  <2>1. Retransmits(s, pkt, F) = t
    BY <1>2 DEF Retransmits, Set, CommType
  <2>2. f \in SUBSET CommFlags
    BY <1>0 DEF CommFlags
  <2>3. \A x \in CommFlags \ {"TRANSMIT", "RECEIVE", "EXPECT_ACK"} :
           x \in f <=> x \in s.status
    OBVIOUS
  <2> HIDE DEF f
  <2>4. /\ t \in CommType /\ t.status = f
        /\ t.sequence = s.sequence /\ t.fromfd = s.fromfd /\ t.offset = s.offset
        /\ t.outpkt = s.outpkt /\ t.tpkt = s.tpkt /\ t.failed = s.failed
    BY <1>0, <2>2 DEF CommType, CommFlags
  <2> HIDE DEF t
  <2>5. LastPacket(t) = LastPacket(s)
    BY <2>4 DEF LastPacket
  <2>6. StaysSound(s, t, n)
    BY <1>0, <1>1, <2>3, <2>4, <2>5, CommFlagsAreSound
  <2>7. QED
    BY <2>1, <2>4, <2>6
<1>3. CASE pkt.sequence # s.sequence
  <2>1. pkt.sequence = s.sequence + 1 /\ n = s.sequence + 1
    BY <1>0, <1>3 DEF CommSound
  <2>2. ~FromfdUnset(s) /\ s.sequence <= LastBlock
    BY <1>0, <2>1 DEF CommSound, NothingSent, SendsBlock
  <2> DEFINE f == s.status \union {"TRANSMIT", "RETRANSMIT", "NEXTDATA"}
             t == [s EXCEPT !.status = f, !.retries = s.retries + 1,
                            !.fromfd = n]
  <2>3. Retransmits(s, pkt, F) = HandleFiles(t, F)
    BY <1>3, <2>1 DEF Retransmits, Set, CommType
  <2>4. f \in SUBSET CommFlags
    BY <1>0 DEF CommFlags
  <2>5. /\ "EXPECT_INFO" \notin f /\ "INFO_INIT" \notin f /\ "NEXTDATA" \in f
        /\ "RETRANSMIT" \in f /\ "QUIT" \notin f
    BY <2>2 DEF FromfdUnset
  <2> HIDE DEF f
  <2>6. /\ t \in CommType /\ t.status = f /\ t.fromfd = n
        /\ t.sequence = s.sequence /\ t.tpkt = s.tpkt
    BY <1>0, <2>4 DEF CommType, CommFlags
  <2> HIDE DEF t
  <2>7. HandleFiles(t, F) = ReadsData(t)
    BY <2>5, <2>6 DEF HandleFiles
  <2>8. ~FromfdUnset(t)
    BY <2>5, <2>6 DEF FromfdUnset
  <2>9. /\ ReadsData(t) \in CommType /\ CommSound(ReadsData(t), t.sequence + 1)
        /\ ~FromfdUnset(ReadsData(t)) /\ ReadsData(t).sequence = t.sequence
    BY <1>1, <2>1, <2>2, <2>5, <2>6, <2>8, ReadsNextIsSound
  <2>10. QED
    BY <2>1, <2>3, <2>6, <2>7, <2>9 DEF StaysSound
<1>4. QED
  BY <1>2, <1>3

\* The request is confirmed before anything of the file is sent.
LEMMA TakesRequestIsSound ==
    ASSUME NEW n \in Nat, NEW s \in CommType, CommSound(s, n),
           "EXPECT_INFO" \in s.status,
           NEW pkt, FromRcopy(pkt, n), pkt.type = "FLN"
    PROVE  /\ StaysSound(s, TakesRequest(s, pkt), n)
           /\ TakesRequest(s, pkt).sequence = s.sequence
<1>1. FromfdUnset(s) /\ NothingSent(s, n)
  BY DEF FromfdUnset, CommSound
<1> DEFINE f == (s.status \ {"EXPECT_INFO"}) \union {"INFO_INIT", "TRANSMIT"}
           a == ackpkt(pkt)
           t == [s EXCEPT !.status = f, !.fromname = pkt.data, !.outpkt = a]
<1>2. TakesRequest(s, pkt) = t
  BY DEF TakesRequest, Set, Clear, CommType
<1>3. f \in SUBSET CommFlags
  BY DEF CommType, CommFlags
<1>4. /\ "EXPECT_INFO" \notin f /\ "INFO_INIT" \in f /\ "TRANSMIT" \in f
      /\ "NEXTDATA" \notin f /\ "RETRANSMIT" \notin f /\ "QUIT" \notin f
  BY <1>1 DEF CommSound, NothingSent
<1>5. pkt \in StreamPackets /\ pkt.data \in Clients
  BY DEF FromRcopy
<1>6. a \in StreamPackets /\ a.type = "ACK"
  BY <1>5, StreamPacketFacts
<1> HIDE DEF f, a
<1>7. /\ t \in CommType /\ t.status = f /\ t.outpkt = a /\ t.tpkt = s.tpkt
      /\ t.sequence = s.sequence /\ t.fromfd = s.fromfd /\ t.offset = s.offset
  BY <1>3, <1>5, <1>6 DEF CommType, CommFlags
<1> HIDE DEF t
<1>8. FromfdUnset(t) /\ NothingSent(t, n)
  BY <1>1, <1>4, <1>6, <1>7 DEF FromfdUnset, NothingSent
<1>9. QED
  BY <1>1, <1>2, <1>4, <1>7, <1>8 DEF StaysSound, CommSound

\* A good packet: the server moves on by an ACK of the current block alone.
LEMMA CommReceivedIsSound ==
    ASSUME BlocksDiffer, NEW F, NEW n \in 0 .. EndOfFile,
           NEW s \in CommType, CommSound(s, n),
           CommGoesOn(s), "TRANSMIT" \notin s.status,
           NEW pkt, FromRcopy(pkt, n),
           pkt.type = "RET" => s.sequence <= pkt.sequence
    PROVE  LET t == CommReceived(s, pkt, F)
           IN  /\ StaysSound(s, t, n)
               /\ \/ t.sequence = s.sequence
                  \/ /\ t.sequence = s.sequence + 1
                     /\ pkt.type = "ACK" /\ pkt.data = s.sequence
<1> DEFINE u == PutBack(s)
           t == CommReceived(s, pkt, F)
<1>0. n \in Nat
  BY FileAssumption DEF EndOfFile
<1>1. /\ u \in CommType /\ CommSound(u, n) /\ u.sequence = s.sequence
      /\ FromfdUnset(u) <=> FromfdUnset(s)
      /\ u.status = s.status /\ u.retries = s.retries /\ u.outpkt.type # "RET"
  BY <1>0, CommPutBackIsSound DEF StaysSound, FromfdUnset
<1>2. {"INFO_INIT", "QUIT"} \intersect u.status = {} /\ u.retries < PKT_TRNSMAX
  BY <1>1 DEF CommSound, NothingSent, FromfdUnset, CommGoesOn
<1>3. HandleFiles(u, F) = u
  BY <1>1, <1>2 DEF HandleFiles, CommSound
<1> HIDE DEF u
<1>4. CASE pkt.type = "ACK" /\ Acknowledges(u, pkt)
  <2>1. t = HandleFiles(AckAccepted(u), F)
    BY <1>4 DEF CommReceived, Acknowledges, u
  <2>2. /\ StaysSound(u, t, n) /\ pkt.data = u.sequence
        /\ t.sequence = u.sequence + 1
    BY <1>1, <1>2, <1>4, <2>1, AckAcceptedIsSound DEF Acknowledges
  <2>3. QED
    BY <1>1, <1>4, <2>2 DEF StaysSound
<1>5. CASE pkt.type = "ACK" /\ "EXPECT_ACK" \notin u.status
  <2>1. t = CommFails(u)
    BY <1>5 DEF CommReceived, u, Acknowledges
  <2>2. StaysSound(u, t, n) /\ t.sequence = u.sequence
    BY <1>0, <1>1, <2>1, CommFailsIsSound
  <2>3. QED
    BY <1>1, <2>2 DEF StaysSound
<1>6. CASE pkt.type = "RET"
  <2>1. t = Retransmits(u, pkt, F)
    BY <1>6 DEF CommReceived, u
  <2>2. StaysSound(u, t, n) /\ t.sequence = u.sequence
    BY <1>1, <1>2, <1>6, <2>1, RetransmitsIsSound
  <2>3. QED
    BY <1>1, <2>2 DEF StaysSound
<1>7. CASE pkt.type = "FLN" /\ "EXPECT_INFO" \in u.status
  <2>1. t = TakesRequest(u, pkt)
    BY <1>7 DEF CommReceived, u
  <2>2. StaysSound(u, t, n) /\ t.sequence = u.sequence
    BY <1>0, <1>1, <1>7, <2>1, TakesRequestIsSound
  <2>3. QED
    BY <1>1, <2>2 DEF StaysSound
<1>8. CASE /\ ~(pkt.type = "ACK" /\ Acknowledges(u, pkt))
           /\ ~(pkt.type = "ACK" /\ "EXPECT_ACK" \notin u.status)
           /\ pkt.type # "RET"
           /\ ~(pkt.type = "FLN" /\ "EXPECT_INFO" \in u.status)
  <2>1. t = u
    BY <1>3, <1>8 DEF CommReceived, u
  <2>2. QED
    BY <1>1, <2>1 DEF StaysSound
<1>9. QED
  BY <1>4, <1>5, <1>6, <1>7, <1>8

=============================================================================
