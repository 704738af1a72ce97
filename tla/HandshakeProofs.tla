--------------------------- MODULE HandshakeProofs ---------------------------
(***************************************************************************)
(* What the handlers of rcopy, of Server::Run and of the children do in a  *)
(* session, for every file, window size, retry count and set of clients    *)
(* and ports: lemmas on states and packets alone, one per handler.         *)
(***************************************************************************)
EXTENDS Session, TLAPS, SequenceTheorems, FunctionTheorems

-----------------------------------------------------------------------------
(* Sockets and packets *)

\* No two roles share a socket.
LEMMA SocketFacts ==
    /\ ListenSocket \in Sockets /\ Ports \subseteq Sockets
    /\ ClientSockets \subseteq Sockets
    /\ ListenSocket \notin ClientSockets /\ ListenSocket \notin Ports
    /\ \A p \in Ports : p \notin ClientSockets
    /\ \A c \in Clients : /\ OldSocket(c) \in ClientSockets
                          /\ NewSocket(c) \in ClientSockets
    /\ Sockets = {ListenSocket} \union Ports \union ClientSockets
  BY SessionAssumption DEF ClientSockets

\* A client's two sockets are its own.
LEMMA OwnSockets ==
    ASSUME NEW c, NEW d
    PROVE  /\ OldSocket(c) # NewSocket(d)
           /\ OldSocket(c) = OldSocket(d) => c = d
           /\ NewSocket(c) = NewSocket(d) => c = d
  BY DEF OldSocket, NewSocket

\* The five packets of init are typed, and their types go with their numbers.
LEMMA InitPacketFacts ==
    ASSUME NEW c \in Clients, NEW n \in 0 .. 4
    PROVE  LET pkt == InitPacket(n, c)
           IN  /\ pkt \in ToServer
               /\ pkt.sequence = n
               /\ pkt.type = "CXN" <=> n = 0
               /\ pkt.type = "CXN2" <=> n = 1
               /\ pkt.type = "FLN" => pkt.data \in Clients
               /\ pkt.type \notin {"RR", "REJ", "FLIPPED"}
<1>1. /\ BufferSize \in Nat /\ WindowSize \in Nat /\ Fill \in Int
  BY FileAssumption, WindowAssumption DEF Fill
<1>2. n = 0 \/ n = 1 \/ n = 2 \/ n = 3 \/ n = 4
  OBVIOUS
<1>3. CASE n = 0
  BY <1>1, <1>3 DEF InitPacket, ToServer, PacketType
<1>4. CASE n = 1
  BY <1>1, <1>4 DEF InitPacket, ToServer, PacketType
<1>5. CASE n = 2
  BY <1>1, <1>5 DEF InitPacket, ToServer, PacketType
<1>6. CASE n = 3
  BY <1>1, <1>6 DEF InitPacket, ToServer, PacketType
<1>7. CASE n = 4
  BY <1>1, <1>7 DEF InitPacket, ToServer, PacketType
<1>8. QED
  BY <1>2, <1>3, <1>4, <1>5, <1>6, <1>7

\* RRs and REJs are typed for either end, and so is what arrives damaged.
LEMMA ReplyFacts ==
    ASSUME NEW n \in Nat
    PROVE  /\ rrpkt(n) \in ToClient /\ rrpkt(n) \in ToServer
           /\ rrpkt(n).type = "RR" /\ rrpkt(n).sequence = n
           /\ rejpkt(n) \in ToClient /\ rejpkt(n) \in ToServer
           /\ rejpkt(n).type = "REJ" /\ rejpkt(n).sequence = n
  BY DEF rrpkt, rejpkt, ToClient, ToServer, PacketType, Fill

LEMMA FlippedFacts ==
    /\ Flipped \in ToClient /\ Flipped \in ToServer
    /\ Flipped.type = "FLIPPED"
    /\ ~Intact(Flipped)
  BY DEF Flipped, ToClient, ToServer, Intact, Fill

LEMMA DataPacketsGoToClients ==
    /\ DataPacket \subseteq ToClient
    /\ \A pkt \in DataPacket : pkt.type = "DAT" /\ pkt.sequence \in Nat
  BY DEF DataPacket, PacketOf, ToClient

\* The server answers with RRs, and one numbered 0 carries a port.
LEMMA AnswerFacts ==
    /\ \A pkt \in Answers :
          /\ pkt \in ToClient /\ pkt.type = "RR" /\ pkt.sequence \in {0, 1}
          /\ pkt.sequence = 0 => pkt.size \in Ports
          /\ pkt # Unwritten /\ Intact(pkt)
    /\ \A p \in Ports : portpkt(0, p) \in Answers
    /\ rrpkt(1) \in Answers
<1>1. ASSUME NEW p \in Ports
      PROVE  LET pkt == portpkt(0, p)
             IN  /\ pkt \in ToClient /\ pkt.type = "RR" /\ pkt.sequence = 0
                 /\ pkt.size \in Ports
  BY DEF portpkt, rrpkt, ToClient, Fill
<1>2. /\ rrpkt(1) \in ToClient /\ rrpkt(1).type = "RR" /\ rrpkt(1).sequence = 1
  BY ReplyFacts
<1>3. ASSUME NEW pkt, pkt.type = "RR"
      PROVE  pkt # Unwritten /\ Intact(pkt)
  <2>1. Unwritten.type = "nothing"
    BY DEF Unwritten, Nothing
  <2>2. QED
    BY <1>3, <2>1 DEF Intact
<1>4. \A pkt \in Answers : (\E p \in Ports : pkt = portpkt(0, p)) \/ pkt = rrpkt(1)
  BY DEF Answers
<1>5. QED
  BY <1>1, <1>2, <1>3, <1>4 DEF Answers

-----------------------------------------------------------------------------
(* rcopy *)

\* A client at the head of a round: before it has been told a port it is at
\* the CXN, in init it has received no block, and it receives blocks only
\* after the fifth packet was confirmed.
ClientReady(c, s) ==
    /\ s \in ClientRecord(c)
    /\ s.mvState \in {"INIT", "RECV_PACKETS"}
    /\ s.i >= 0
    /\ s.addr # Nothing <=> s.i >= 1
    /\ s.mvState = "INIT" => s.mvSequence = 0 /\ s.i <= 4
    /\ s.mvState = "RECV_PACKETS" => s.i = 5

\* A packet that client c may send when its state is t.
Sendable(c, t, pkt) ==
    /\ pkt \in ToServer
    /\ t.i = 0 => pkt.type = "CXN"
    /\ pkt.type = "CXN" => pkt.sequence = 0
    /\ pkt.type = "CXN2" => pkt.sequence = 1
    /\ pkt.type = "FLN" => pkt.data \in Clients
    /\ pkt.type = "RR" => pkt.sequence < t.mvSequence

\* What a handler of client c makes of state s.
ClientOutcome(c, s, reply) ==
    /\ reply.client \in ClientRecord(c)
    /\ reply.client.mvSequence >= s.mvSequence
    /\ reply.client.i >= 0
    /\ reply.client.addr # Nothing <=> reply.client.i >= 1
    /\ s.i >= 1 => reply.client.i >= 1
    /\ reply.client.mvState = "INIT" =>
          reply.client.mvSequence = 0 /\ reply.client.i <= 4
    /\ reply.client.mvState \in {"RECV_PACKETS", "DONE"} => reply.client.i = 5
    /\ \/ /\ reply.client.mvSocket = s.mvSocket
          /\ reply.client.mvAddr = s.mvAddr
       \/ /\ reply.client.mvSocket = NewSocket(c)
          /\ reply.client.mvAddr \in Ports
          /\ reply.client.i >= 1
    /\ \/ reply.out = <<>>
       \/ \E pkt : reply.out = <<pkt>> /\ Sendable(c, reply.client, pkt)

\* Taking a datagram off the socket changes mvAddr and mvRetries only.
LEMMA ClientTakesDatagram ==
    ASSUME NEW c \in Clients, NEW s, ClientReady(c, s),
           NEW d, d.from \in {ListenSocket} \union Ports
    PROVE  LET t == ClientReceived(s, d)
           IN  /\ ClientReady(c, t)
               /\ t.mvAddr = d.from /\ t.mvSocket = s.mvSocket
               /\ t.i = s.i /\ t.addr = s.addr /\ t.mvState = s.mvState
               /\ t.mvSequence = s.mvSequence
<1>1. (IF Intact(d.pkt) THEN PKT_TRNSMAX ELSE PKT_TRNSMAX - 1)
         \in 0 .. PKT_TRNSMAX
  BY RetriesAssumption
<1>2. s \in ClientRecord(c)
  BY DEF ClientReady
<1>3. ClientReceived(s, d) \in ClientRecord(c)
  BY <1>1, <1>2 DEF ClientRecord, ClientReceived
<1>4. QED
  BY <1>2, <1>3 DEF ClientReady, ClientReceived, ClientRecord

\* A timeout that leaves a retry to count down changes mvRetries only.
LEMMA ClientTimeoutKeeps ==
    ASSUME NEW c \in Clients, NEW s, ClientReady(c, s), ClientRunning(s)
    PROVE  LET t == ClientTimedOut(s)
           IN  /\ ClientReady(c, t)
               /\ t.mvAddr = s.mvAddr /\ t.mvSocket = s.mvSocket
               /\ t.i = s.i /\ t.addr = s.addr /\ t.mvSequence = s.mvSequence
<1>1. s \in ClientRecord(c)
  BY DEF ClientReady
<1>2. s.mvRetries - 1 \in 0 .. PKT_TRNSMAX
  BY <1>1, RetriesAssumption DEF ClientRecord, ClientRunning
<1>3. ClientTimedOut(s) \in ClientRecord(c)
  BY <1>1, <1>2 DEF ClientRecord, ClientTimedOut
<1>4. QED
  BY <1>1, <1>3 DEF ClientReady, ClientTimedOut, ClientRecord

\* The rest of a round of init: it gives up, ends, or sends the packet it is at.
LEMMA InitGoesOnIsSound ==
    ASSUME NEW c \in Clients, NEW s, s \in ClientRecord(c),
           s.mvState = "INIT", s.mvSequence = 0, s.i \in 0 .. 5,
           s.addr # Nothing <=> s.i >= 1
    PROVE  ClientOutcome(c, s, InitGoesOn(s, c))
<1> DEFINE r == InitGoesOn(s, c)
<1>0. /\ s.mvRetries \in 0 .. PKT_TRNSMAX /\ PKT_TRNSMAX \in Nat
      /\ PKT_TRNSMAX \in 0 .. PKT_TRNSMAX
  BY RetriesAssumption DEF ClientRecord
<1>1. CASE s.mvRetries = 0
  <2> DEFINE t == [s EXCEPT !.mvState = "ERROR"]
  <2>1. r = [client |-> t, out |-> <<>>]
    BY <1>0, <1>1 DEF InitGoesOn
  <2>2. /\ t \in ClientRecord(c) /\ t.mvState = "ERROR"
        /\ t.mvSequence = s.mvSequence /\ t.i = s.i /\ t.addr = s.addr
        /\ t.mvSocket = s.mvSocket /\ t.mvAddr = s.mvAddr
    BY DEF ClientRecord
  <2> HIDE DEF t
  <2>3. QED
    BY <2>1, <2>2 DEF ClientOutcome
<1>2. CASE s.mvRetries > 0 /\ s.i = 5
  <2> DEFINE t == [s EXCEPT !.mvState = "RECV_PACKETS", !.mvSequence = 0,
                            !.mvRetries = PKT_TRNSMAX]
  <2>1. r = [client |-> t, out |-> <<>>]
    BY <1>0, <1>2 DEF InitGoesOn
  <2>2. /\ t \in ClientRecord(c) /\ t.mvState = "RECV_PACKETS"
        /\ t.mvSequence = s.mvSequence /\ t.i = s.i /\ t.addr = s.addr
        /\ t.mvSocket = s.mvSocket /\ t.mvAddr = s.mvAddr
    BY <1>0 DEF ClientRecord
  <2> HIDE DEF t
  <2>3. QED
    BY <1>2, <2>1, <2>2 DEF ClientOutcome
<1>3. CASE s.mvRetries > 0 /\ s.i # 5
  <2>1. r = [client |-> s, out |-> <<InitPacket(s.i, c)>>]
    BY <1>0, <1>3 DEF InitGoesOn
  <2>2. s.i \in 0 .. 4
    BY <1>3
  <2>3. Sendable(c, s, InitPacket(s.i, c))
    BY <2>2, InitPacketFacts DEF Sendable
  <2>4. QED
    BY <2>1, <2>2, <2>3 DEF ClientOutcome
<1>4. QED
  BY <1>0, <1>1, <1>2, <1>3

\* Client::init after a timeout or a bad checksum.
LEMMA ClientInitFailedIsSound ==
    ASSUME NEW c \in Clients, NEW s, ClientReady(c, s), s.mvState = "INIT"
    PROVE  ClientOutcome(c, s, ClientInitFailed(s, c))
<1>1. s \in ClientRecord(c) /\ s.mvSequence = 0 /\ s.i \in 0 .. 5
  BY DEF ClientReady, ClientRecord
<1>2. QED
  BY <1>1, InitGoesOnIsSound DEF ClientInitFailed, ClientReady

\* A packet that may reach client c in state s: until it has been told a port,
\* an answer of the server; afterwards no REJ takes it back to the CXN.
Receivable(s, pkt) ==
    /\ pkt \in ToClient
    /\ s.i = 0 => pkt \in Answers
    /\ pkt.type = "REJ" => pkt.sequence >= 1

\* Client::init with an intact packet: it moves to another packet, by one or
\* back, is told the port by the first answer, and changes sockets at the CXN2.
LEMMA ClientInitIsSound ==
    ASSUME NEW c \in Clients, NEW s, ClientReady(c, s), s.mvState = "INIT",
           NEW pkt, Receivable(s, pkt)
    PROVE  ClientOutcome(c, s, ClientInit(s, pkt, NewSocket(c), c))
<1> DEFINE n == NextPacket(s, pkt)
           t == Redirected(s, pkt, NewSocket(c))
<1>0. /\ s \in ClientRecord(c) /\ s.mvSequence = 0 /\ s.i \in 0 .. 4
      /\ pkt.sequence \in Nat
      /\ PKT_TRNSMAX \in 0 .. PKT_TRNSMAX
  BY RetriesAssumption DEF ClientReady, ClientRecord, Receivable, ToClient
<1>1. s.i = 0 => /\ pkt.type = "RR" /\ pkt.sequence \in {0, 1}
                 /\ pkt.sequence = 0 => pkt.size \in Ports
  BY AnswerFacts DEF Receivable
<1>2. n \in 0 .. 5 /\ (s.i >= 1 => n >= 1)
  BY <1>0 DEF NextPacket, Receivable
<1>3. /\ t \in ClientRecord(c) /\ t.mvState = "INIT" /\ t.mvSequence = 0
      /\ t.addr # Nothing <=> n >= 1
      /\ \/ t.mvSocket = s.mvSocket /\ t.mvAddr = s.mvAddr
         \/ t.mvSocket = NewSocket(c) /\ t.mvAddr \in Ports /\ n >= 1
  <2>1. CASE pkt.type = "RR" /\ pkt.sequence = s.i /\ s.i = 0
    <3>1. t = [s EXCEPT !.addr = pkt.size] /\ n = 1
      BY <2>1, <1>0 DEF Redirected, NextPacket
    <3>2. pkt.size \in Ports /\ pkt.size # Nothing
      BY <2>1, <1>1, NothingIsNoPort
    <3>3. QED
      BY <3>1, <3>2, <1>0 DEF ClientRecord, ClientReady
  <2>2. CASE pkt.type = "RR" /\ pkt.sequence = s.i /\ s.i = 1
    <3>1. t = [s EXCEPT !.mvSocket = NewSocket(c), !.mvAddr = s.addr] /\ n = 2
      BY <2>2, <1>0 DEF Redirected, NextPacket
    <3>2. s.addr \in Ports
      BY <2>2, <1>0 DEF ClientRecord, ClientReady
    <3>3. t \in ClientRecord(c)
      BY <3>1, <3>2, <1>0 DEF ClientRecord
    <3>4. /\ t.mvState = "INIT" /\ t.mvSequence = 0 /\ t.addr = s.addr
          /\ t.mvSocket = NewSocket(c) /\ t.mvAddr = s.addr
      BY <3>1, <1>0 DEF ClientRecord, ClientReady
    <3>5. s.addr # Nothing
      BY <3>2, NothingIsNoPort
    <3>6. QED
      BY <3>1, <3>2, <3>3, <3>4, <3>5
  <2>3. CASE ~(pkt.type = "RR" /\ pkt.sequence = s.i /\ s.i \in {0, 1})
    <3>1. t = s
      BY <2>3, <1>0 DEF Redirected
    <3>2. s.i = 0 => n = 0
      BY <2>3, <1>0, <1>1 DEF NextPacket
    <3>3. QED
      BY <3>1, <3>2, <1>0, <1>2 DEF ClientReady
  <2>4. QED
    BY <2>1, <2>2, <2>3
<1> HIDE DEF n, t
<1>4. PICK u : u = [t EXCEPT !.i = n, !.mvRetries = PKT_TRNSMAX]
  OBVIOUS
<1>5. /\ u \in ClientRecord(c) /\ u.mvState = "INIT" /\ u.mvSequence = 0
      /\ u.i = n /\ u.addr = t.addr /\ u.mvSocket = t.mvSocket
      /\ u.mvAddr = t.mvAddr
  <2>1. t \in ClientRecord(c) /\ n \in -1 .. 5
    BY <1>2, <1>3
  <2>2. /\ u \in ClientRecord(c) /\ u.i = n
        /\ u.mvState = t.mvState /\ u.mvSequence = t.mvSequence
        /\ u.addr = t.addr /\ u.mvSocket = t.mvSocket
        /\ u.mvAddr = t.mvAddr
    BY <1>0, <2>1, <1>4 DEF ClientRecord
  <2>3. QED
    BY <1>3, <2>2
<1>6. ClientInit(s, pkt, NewSocket(c), c) = InitGoesOn(u, c)
  BY <1>4 DEF ClientInit, n, t
<1>7. ClientOutcome(c, u, InitGoesOn(u, c))
  BY <1>2, <1>3, <1>5, InitGoesOnIsSound
<1>8. QED
  BY <1>0, <1>2, <1>3, <1>5, <1>6, <1>7 DEF ClientOutcome

\* recvPackets after a timeout or a bad checksum.
LEMMA RecvPacketsFailedIsSound ==
    ASSUME NEW c \in Clients, NEW s, ClientReady(c, s), s.mvState = "RECV_PACKETS"
    PROVE  ClientOutcome(c, s, RecvPacketsFailed(s))
<1>1. s \in ClientRecord(c) /\ s.mvSequence \in Nat /\ s.i = 5
  BY DEF ClientReady, ClientRecord
<1>2. Sendable(c, s, rejpkt(s.mvSequence))
  BY <1>1, ReplyFacts DEF Sendable
<1>3. QED
  BY <1>1, <1>2 DEF ClientOutcome, RecvPacketsFailed, ClientReady

\* recvPackets with an intact packet, whatever it is.
LEMMA RecvPacketsIsSound ==
    ASSUME NEW c \in Clients, NEW s, ClientReady(c, s), s.mvState = "RECV_PACKETS",
           NEW pkt \in ToClient
    PROVE  ClientOutcome(c, s, RecvPackets(s, pkt))
<1> DEFINE k == pkt.sequence
           r == RecvPackets(s, pkt)
<1>0. /\ s \in ClientRecord(c) /\ s.mvSequence \in Nat /\ s.i = 5
      /\ s.addr # Nothing
      /\ s.mvTo \in Seq(Int) /\ k \in Nat /\ pkt.data \in Int
      /\ PKT_TRNSMAX \in 0 .. PKT_TRNSMAX
  BY RetriesAssumption DEF ClientReady, ClientRecord, ToClient
<1>1. CASE k = s.mvSequence
  <2> DEFINE m == s.mvSequence + 1
             q == Append(s.mvTo, pkt.data)
  <2>a. m \in Nat /\ q \in Seq(Int)
    BY <1>0, AppendProperties
  <2>b. [s EXCEPT !.mvRetries = PKT_TRNSMAX, !.mvSequence = @ + 1,
                  !.mvTo = Append(@, pkt.data)]
        = [s EXCEPT !.mvRetries = PKT_TRNSMAX, !.mvSequence = m, !.mvTo = q]
    OBVIOUS
  <2> HIDE DEF m, q
  <2>1. PICK t : t = [s EXCEPT !.mvRetries = PKT_TRNSMAX, !.mvSequence = m, !.mvTo = q]
    OBVIOUS
  <2>2. /\ t \in ClientRecord(c) /\ t.mvSequence = m
        /\ t.i = s.i /\ t.addr = s.addr /\ t.mvState = s.mvState
        /\ t.mvSocket = s.mvSocket /\ t.mvAddr = s.mvAddr
    BY <1>0, <2>a, <2>1 DEF ClientRecord
  <2>c. t = [s EXCEPT !.mvRetries = PKT_TRNSMAX, !.mvSequence = @ + 1,
                      !.mvTo = Append(@, pkt.data)]
    BY <2>1, <2>b
  <2>d. t.mvSequence = s.mvSequence + 1
    BY <2>2 DEF m
  <2> DEFINE u == [t EXCEPT !.mvState = "DONE"]
  <2>3. r = IF EndsFile(pkt) THEN [client |-> u, out |-> <<>>]
                             ELSE [client |-> t, out |-> <<rrpkt(k)>>]
    BY <1>0, <1>1, <2>c DEF RecvPackets
  <2>4. /\ u \in ClientRecord(c) /\ u.mvSequence = t.mvSequence
        /\ u.i = t.i /\ u.addr = t.addr /\ u.mvState = "DONE"
        /\ u.mvSocket = t.mvSocket /\ u.mvAddr = t.mvAddr
    BY <2>2 DEF ClientRecord
  <2> HIDE DEF u
  <2>5. Sendable(c, t, rrpkt(k))
    BY <1>0, <1>1, <2>2, <2>d, ReplyFacts DEF Sendable
  <2>6. QED
    BY <1>0, <2>2, <2>d, <2>3, <2>4, <2>5 DEF ClientOutcome
<1>2. CASE k < s.mvSequence
  <2> DEFINE t == [s EXCEPT !.mvRetries = PKT_TRNSMAX]
  <2>1. r = [client |-> t, out |-> <<rrpkt(k)>>]
    BY <1>0, <1>2 DEF RecvPackets
  <2>2. /\ t \in ClientRecord(c) /\ t.mvSequence = s.mvSequence
        /\ t.i = s.i /\ t.addr = s.addr /\ t.mvState = s.mvState
        /\ t.mvSocket = s.mvSocket /\ t.mvAddr = s.mvAddr
    BY <1>0 DEF ClientRecord
  <2> HIDE DEF t
  <2>3. Sendable(c, t, rrpkt(k))
    BY <1>0, <1>2, <2>2, ReplyFacts DEF Sendable
  <2>4. QED
    BY <1>0, <2>1, <2>2, <2>3 DEF ClientOutcome
<1>3. CASE k > s.mvSequence
  <2>1. r = RecvPacketsFailed(s)
    BY <1>0, <1>3 DEF RecvPackets
  <2>2. QED
    BY <2>1, RecvPacketsFailedIsSound
<1>4. QED
  BY <1>0, <1>1, <1>2, <1>3

-----------------------------------------------------------------------------
(* The children *)

\* A child that is well-formed as it waits for a packet.
ChildReady(p, s) == s \in ChildRecord(p) /\ WellFormed(s)

\* The lower end of t's window is one that s had, or 0.
KeepsBase(s, t) ==
    Transferring(t) => \/ WindowBase(t) = 0
                       \/ Transferring(s) /\ WindowBase(t) <= WindowBase(s)

\* A packet that a child may send while it sets the transfer up.
FromInit(pkt) ==
    pkt \in ToClient /\ pkt.type \in {"RR", "REJ"} /\ pkt.sequence >= 1

\* What a handler of child p makes of state s in init.
InitOutcome(p, s, reply) ==
    /\ ChildReady(p, reply.child)
    /\ reply.child.mvAddr = s.mvAddr
    /\ KeepsBase(s, reply.child)
    /\ \E pkt : reply.out = <<pkt>> /\ FromInit(pkt)

\* A child just forked for a client waits for the BUF.
LEMMA ForkedChildFacts ==
    ASSUME NEW p, NEW a \in ClientSockets
    PROVE  LET s == ForkedChild(p, a)
           IN  /\ ChildReady(p, s) /\ s.mvAddr = a /\ s.mvState = "INIT"
               /\ s # Unforked
<1>1. PKT_TRNSMAX \in 0 .. PKT_TRNSMAX
  BY RetriesAssumption
<1>2. <<>> \in Seq(DataPacket)
  BY EmptySeq
<1>3. ForkedChild(p, a) \in ChildRecord(p)
  BY <1>1, <1>2 DEF ForkedChild, ChildRecord
<1>4. ForkedChild(p, a).mvState = "INIT" /\ Unforked.mvState = "nothing"
  BY DEF ForkedChild, Unforked, Nothing
<1>5. QED
  BY <1>3, <1>4 DEF ChildReady, WellFormed, Transferring, ForkedChild

\* A child's record is not the mark of a port without a child.
LEMMA ForkedIsNotUnforked ==
    ASSUME NEW p, NEW s \in ChildRecord(p)
    PROVE  s # Unforked
  BY DEF ChildRecord, Unforked, Nothing

\* Taking a datagram off the socket changes mvAddr and mvRetries only.
LEMMA ChildTakesDatagram ==
    ASSUME NEW p, NEW s, ChildReady(p, s), NEW d, d.from \in ClientSockets
    PROVE  LET t == ChildReceived(s, d)
           IN  /\ ChildReady(p, t) /\ t.mvAddr = d.from
               /\ t.mvState = s.mvState /\ WindowBase(t) = WindowBase(s)
               /\ t.mvRetries >= 1
<1>1. /\ (IF Intact(d.pkt) THEN PKT_TRNSMAX ELSE PKT_TRNSMAX - 1)
            \in 0 .. PKT_TRNSMAX
      /\ (IF Intact(d.pkt) THEN PKT_TRNSMAX ELSE PKT_TRNSMAX - 1) >= 1
  BY RetriesAssumption
<1>2. s \in ChildRecord(p)
  BY DEF ChildReady
<1>3. PICK t : t = ChildReceived(s, d)
  OBVIOUS
<1>4. /\ t \in ChildRecord(p) /\ t.mvAddr = d.from /\ t.mvRetries >= 1
      /\ t.mvState = s.mvState /\ t.mvSequence = s.mvSequence
      /\ t.mvWindow = s.mvWindow /\ t.mvOutBuf = s.mvOutBuf
  BY <1>1, <1>2, <1>3 DEF ChildRecord, ChildReceived
<1>5. WellFormed(t) /\ WindowBase(t) = WindowBase(s)
  BY <1>4 DEF ChildReady, WellFormed, Transferring, Numbered, WindowBase,
     FullWhenSending
<1>6. QED
  BY <1>3, <1>4, <1>5 DEF ChildReady

\* A timeout that leaves a retry to count down changes mvRetries only.
LEMMA ChildTimeoutKeeps ==
    ASSUME NEW p, NEW s, ChildReady(p, s), ChildRunning(s)
    PROVE  LET t == ChildTimedOut(s)
           IN  /\ ChildReady(p, t) /\ t.mvAddr = s.mvAddr
               /\ t.mvState = s.mvState /\ WindowBase(t) = WindowBase(s)
<1>1. s \in ChildRecord(p)
  BY DEF ChildReady
<1>2. s.mvRetries - 1 \in 0 .. PKT_TRNSMAX
  BY <1>1, RetriesAssumption DEF ChildRecord, ChildRunning
<1>3. PICK t : t = ChildTimedOut(s)
  OBVIOUS
<1>4. /\ t \in ChildRecord(p) /\ t.mvAddr = s.mvAddr
      /\ t.mvState = s.mvState /\ t.mvSequence = s.mvSequence
      /\ t.mvWindow = s.mvWindow /\ t.mvOutBuf = s.mvOutBuf
  BY <1>1, <1>2, <1>3 DEF ChildRecord, ChildTimedOut
<1>5. WellFormed(t) /\ WindowBase(t) = WindowBase(s)
  BY <1>4 DEF ChildReady, WellFormed, Transferring, Numbered, WindowBase,
     FullWhenSending
<1>6. QED
  BY <1>3, <1>4, <1>5 DEF ChildReady

\* The end of a round of init: the child gives up, opens the file with an
\* empty window at block 0, or waits on.
LEMMA InitEndsIsSound ==
    ASSUME NEW p, NEW s \in ChildRecord(p), s.mvState = "INIT", WellFormed(s)
    PROVE  LET t == InitEnds(s, Files)
           IN  ChildReady(p, t) /\ t.mvAddr = s.mvAddr /\ KeepsBase(s, t)
<1>0. s.mvRetries \in 0 .. PKT_TRNSMAX /\ PKT_TRNSMAX \in 0 .. PKT_TRNSMAX
  BY RetriesAssumption DEF ChildRecord
<1>1. PICK t : t = InitEnds(s, Files)
  OBVIOUS
<1>2. \/ t = [s EXCEPT !.mvState = "ERROR"]
      \/ t = [s EXCEPT !.mvState = "FILL_WINDOW", !.mvSequence = 0,
                       !.mvRetries = PKT_TRNSMAX]
      \/ t = s
  BY <1>0, <1>1 DEF InitEnds
<1>3. CASE t = [s EXCEPT !.mvState = "ERROR"]
  <2>1. t \in ChildRecord(p) /\ t.mvState = "ERROR" /\ t.mvAddr = s.mvAddr
    BY <1>3 DEF ChildRecord
  <2>2. QED
    BY <1>1, <2>1 DEF ChildReady, WellFormed, KeepsBase, Transferring
<1>4. CASE t = [s EXCEPT !.mvState = "FILL_WINDOW", !.mvSequence = 0,
                         !.mvRetries = PKT_TRNSMAX]
  <2>1. /\ t \in ChildRecord(p) /\ t.mvState = "FILL_WINDOW"
        /\ t.mvSequence = 0 /\ t.mvWindow = s.mvWindow
        /\ t.mvAddr = s.mvAddr
    BY <1>0, <1>4 DEF ChildRecord
  <2>2. Len(t.mvWindow) = 0
    BY <2>1, EmptySeq DEF WellFormed
  <2>3. WindowBase(t) = 0
    <3>1. t.mvSequence = 0
      BY <2>1
    <3>2. QED
      BY <3>1, <2>2 DEF WindowBase
  <2>4. Numbered(t)
    BY <2>1, <2>2, <2>3, WindowAssumption DEF Numbered, FullWhenSending
  <2>5. QED
    BY <1>1, <2>1, <2>3, <2>4 DEF ChildReady, WellFormed, KeepsBase
<1>5. CASE t = s
  BY <1>1, <1>5 DEF ChildReady, KeepsBase, Transferring
<1>6. QED
  BY <1>2, <1>3, <1>4, <1>5

\* Server::init after a timeout or a bad checksum.
LEMMA ChildInitFailedIsSound ==
    ASSUME NEW p, NEW s, ChildReady(p, s), s.mvState = "INIT"
    PROVE  InitOutcome(p, s, ChildInitFailed(s, Files))
<1>1. s.mvSequence \in Nat /\ s.mvSequence >= 1 /\ s \in ChildRecord(p)
  BY DEF ChildReady, WellFormed, ChildRecord
<1>2. FromInit(rejpkt(s.mvSequence))
  BY <1>1, ReplyFacts DEF FromInit
<1>3. QED
  BY <1>1, <1>2, InitEndsIsSound DEF InitOutcome, ChildInitFailed, ChildReady

\* Server::init with an intact packet.
LEMMA ChildInitIsSound ==
    ASSUME NEW p, NEW s, ChildReady(p, s), s.mvState = "INIT", s.mvRetries >= 1,
           NEW pkt \in ToServer, pkt.type = "FLN" => pkt.data \in Clients
    PROVE  InitOutcome(p, s, ChildInit(s, pkt, Files))
<1> DEFINE n == s.mvSequence
<1>0. /\ n \in Nat /\ n >= 1 /\ s \in ChildRecord(p)
      /\ s.mvWindow = <<>> /\ s.mvOutBuf = <<>>
      /\ s.mvRetries \in 0 .. PKT_TRNSMAX /\ PKT_TRNSMAX \in 0 .. PKT_TRNSMAX
      /\ pkt.sequence \in Nat
  BY RetriesAssumption DEF ChildReady, WellFormed, ChildRecord, ToServer
<1>1. FromInit(rrpkt(n)) /\ FromInit(rejpkt(n))
  BY <1>0, ReplyFacts DEF FromInit
<1>2. CASE pkt.sequence = n
  <2> DEFINE m == n + 1
             h == s.have \union ({pkt.type} \cap Wanted)
             f == IF pkt.type = "FLN" THEN pkt.data ELSE s.mvFromName
  <2>1. m \in Nat /\ m >= 1 /\ h \in SUBSET Wanted /\ f \in Clients \union {Fill}
    BY <1>0 DEF ChildRecord
  <2>2. Taken(s, pkt) = [s EXCEPT !.mvRetries = PKT_TRNSMAX, !.mvSequence = m,
                                  !.have = h, !.mvFromName = f]
    BY DEF Taken
  <2> HIDE DEF m, h, f
  <2>3. PICK t : t = [s EXCEPT !.mvRetries = PKT_TRNSMAX, !.mvSequence = m,
                               !.have = h, !.mvFromName = f]
    OBVIOUS
  <2>4. /\ t \in ChildRecord(p) /\ t.mvState = "INIT" /\ t.mvSequence = m
        /\ t.mvWindow = s.mvWindow /\ t.mvOutBuf = s.mvOutBuf
        /\ t.mvAddr = s.mvAddr
    BY <1>0, <2>1, <2>3 DEF ChildRecord
  <2>5. WellFormed(t) /\ ~Transferring(t)
    BY <1>0, <2>1, <2>4 DEF WellFormed, Transferring
  <2>6. PICK u : u = InitEnds(t, Files)
    OBVIOUS
  <2>7. ChildReady(p, u) /\ u.mvAddr = s.mvAddr /\ KeepsBase(t, u)
    BY <2>4, <2>5, <2>6, InitEndsIsSound
  <2>8. ChildInit(s, pkt, Files) = [child |-> u, out |-> <<rrpkt(n)>>]
    <3>1. t = Taken(s, pkt)
      BY <2>2, <2>3
    <3>2. QED
      BY <1>0, <1>2, <2>6, <3>1 DEF ChildInit
  <2>9. QED
    BY <1>1, <2>5, <2>7, <2>8 DEF InitOutcome, KeepsBase
<1>3. CASE pkt.sequence < n
  <2>1. PICK t : t = [s EXCEPT !.mvRetries = PKT_TRNSMAX]
    OBVIOUS
  <2>2. /\ t \in ChildRecord(p) /\ t.mvState = "INIT" /\ t.mvSequence = n
        /\ t.mvWindow = s.mvWindow /\ t.mvOutBuf = s.mvOutBuf
        /\ t.mvAddr = s.mvAddr
    BY <1>0, <2>1 DEF ChildRecord
  <2>3. WellFormed(t) /\ ~Transferring(t)
    BY <1>0, <2>2 DEF WellFormed, Transferring
  <2>4. ChildInit(s, pkt, Files) = [child |-> t, out |-> <<rrpkt(n)>>]
    BY <1>0, <1>3, <2>1 DEF ChildInit
  <2>5. QED
    BY <1>1, <2>2, <2>3, <2>4 DEF InitOutcome, KeepsBase, ChildReady
<1>4. CASE pkt.sequence > n
  <2> DEFINE m == s.mvRetries - 1
  <2>1. m \in 0 .. PKT_TRNSMAX
    BY <1>0
  <2>2. PICK t : t = [s EXCEPT !.mvRetries = m]
    OBVIOUS
  <2>3. ChildInit(s, pkt, Files)
           = [child |-> InitEnds(t, Files), out |-> <<rejpkt(n)>>]
    BY <1>0, <1>4, <2>2 DEF ChildInit
  <2> HIDE DEF m
  <2>4. /\ t \in ChildRecord(p) /\ t.mvState = "INIT" /\ t.mvSequence = n
        /\ t.mvWindow = s.mvWindow /\ t.mvOutBuf = s.mvOutBuf
        /\ t.mvAddr = s.mvAddr
    BY <1>0, <2>1, <2>2 DEF ChildRecord
  <2>5. WellFormed(t) /\ ~Transferring(t)
    BY <1>0, <2>4 DEF WellFormed, Transferring
  <2>6. /\ ChildReady(p, InitEnds(t, Files))
        /\ InitEnds(t, Files).mvAddr = s.mvAddr
        /\ KeepsBase(t, InitEnds(t, Files))
    BY <2>4, <2>5, InitEndsIsSound
  <2>7. QED
    BY <1>1, <2>3, <2>5, <2>6 DEF InitOutcome, KeepsBase
<1>5. QED
  BY <1>0, <1>2, <1>3, <1>4

\* fillWindow reads what the window lacks, numbered from mvSequence.
LEMMA RefillIsNumbered ==
    ASSUME NEW p, NEW s \in ChildRecord(p), Numbered(s)
    PROVE  /\ Refill(s) \in Seq(DataPacket)
           /\ Len(Refill(s)) = WindowSize - Len(s.mvWindow)
           /\ Len(Refill(s)) \in Nat
           /\ \A j \in 1 .. Len(Refill(s)) :
                 Refill(s)[j].sequence = s.mvSequence + j - 1
<1> DEFINE m == WindowSize - Len(s.mvWindow)
           packet(j) == datpkt(s.mvSequence + j - 1, s.mvFrom + j - 1)
<1>1. /\ m \in Nat /\ s.mvSequence \in Nat /\ s.mvFrom \in Nat
      /\ BufferSize \in Nat /\ LastBlock \in Nat /\ TailSize \in Nat
  BY WindowAssumption, FileAssumption DEF Numbered, ChildRecord
<1>2. ASSUME NEW j \in 1 .. m
      PROVE  packet(j) \in DataPacket /\ packet(j).sequence = s.mvSequence + j - 1
  <2>1. s.mvSequence + j - 1 \in Nat /\ s.mvFrom + j - 1 \in Nat
    BY <1>1
  <2>2. BlockSize(s.mvFrom + j - 1) \in Nat /\ Block(s.mvFrom + j - 1) \in Int
    BY <1>1, <2>1 DEF BlockSize, Block, EndOfFile
  <2>3. QED
    BY <2>1, <2>2 DEF datpkt, DataPacket, PacketOf
<1>3. Refill(s) = [j \in 1 .. m |-> packet(j)]
  BY DEF Refill
<1> HIDE DEF packet, m
<1>4. Refill(s) \in [1 .. m -> DataPacket]
  BY <1>2, <1>3
<1>5. Refill(s) \in Seq(DataPacket)
  BY <1>1, <1>4, SeqDef
<1>6. Len(Refill(s)) = m
  <2>1. DOMAIN Refill(s) = 1 .. Len(Refill(s)) /\ Len(Refill(s)) \in Nat
    BY <1>5, LenProperties
  <2>2. DOMAIN Refill(s) = 1 .. m
    BY <1>3
  <2>3. PICK k \in Nat : k = Len(Refill(s))
    BY <2>1
  <2>4. 1 .. k = 1 .. m
    BY <2>1, <2>2, <2>3
  <2>5. k = m
    BY <2>4, <1>1
  <2>6. QED
    BY <2>3, <2>5
<1>7. \A j \in 1 .. m : Refill(s)[j].sequence = s.mvSequence + j - 1
  BY <1>2, <1>3
<1>8. QED
  BY <1>1, <1>5, <1>6, <1>7 DEF m

\* fillWindow fills the window and leaves its lower end where it is.
LEMMA FillWindowIsSound ==
    ASSUME NEW p, NEW s, ChildReady(p, s), s.mvState = "FILL_WINDOW"
    PROVE  LET t == FillWindow(s)
           IN  ChildReady(p, t) /\ t.mvAddr = s.mvAddr /\ KeepsBase(s, t)
<1>0. /\ s \in ChildRecord(p) /\ Numbered(s)
      /\ s.mvSequence \in Nat /\ s.mvFrom \in Nat
      /\ s.mvWindow \in Seq(DataPacket) /\ s.mvOutBuf \in Seq(DataPacket)
      /\ WindowSize \in Nat \ {0}
  BY WindowAssumption DEF ChildReady, WellFormed, Transferring, ChildRecord
<1>1. PICK r : r = Refill(s)
  OBVIOUS
<1>2. /\ r \in Seq(DataPacket) /\ Len(r) = WindowSize - Len(s.mvWindow)
      /\ Len(r) \in Nat
      /\ \A j \in 1 .. Len(r) : r[j].sequence = s.mvSequence + j - 1
  BY <1>0, <1>1, RefillIsNumbered
<1>3. PICK w : w = s.mvWindow \o r
  OBVIOUS
<1>4. PICK o : o = s.mvOutBuf \o r
  OBVIOUS
<1>5. w \in Seq(DataPacket) /\ o \in Seq(DataPacket)
  BY <1>0, <1>2, <1>3, <1>4, ConcatProperties
<1>6. PICK n : n = s.mvSequence + Len(r)
  OBVIOUS
<1>7. PICK f : f = s.mvFrom + Len(r)
  OBVIOUS
<1>8. n \in Nat /\ f \in Nat
  BY <1>0, <1>2, <1>6, <1>7
<1>9. PICK t : t = [s EXCEPT !.mvState = "SEND_WINDOW", !.mvWindow = w,
                            !.mvOutBuf = o, !.mvSequence = n, !.mvFrom = f]
  OBVIOUS
<1>10. t = FillWindow(s)
  BY <1>1, <1>3, <1>4, <1>6, <1>7, <1>9 DEF FillWindow
<1>11. /\ t \in ChildRecord(p) /\ t.mvState = "SEND_WINDOW"
       /\ t.mvWindow = w /\ t.mvSequence = n /\ t.mvAddr = s.mvAddr
  BY <1>0, <1>5, <1>8, <1>9 DEF ChildRecord
<1>12. /\ Len(w) = WindowSize
       /\ \A i \in 1 .. Len(w) : w[i] = IF i <= Len(s.mvWindow) THEN s.mvWindow[i]
                                                        ELSE r[i - Len(s.mvWindow)]
  BY <1>0, <1>2, <1>3, ConcatProperties
<1>13. PICK b : b = WindowBase(s)
  OBVIOUS
<1>14. /\ WindowBase(t) = b /\ b \in Nat /\ b + Len(s.mvWindow) = s.mvSequence
       /\ Len(s.mvWindow) \in Nat
  <2>1. b = s.mvSequence - Len(s.mvWindow) /\ Len(s.mvWindow) \in Nat
    BY <1>0, <1>13 DEF WindowBase
  <2>2. WindowBase(t) = n - WindowSize
    BY <1>11, <1>12 DEF WindowBase
  <2>3. b >= 0
    BY <1>0, <1>13 DEF Numbered
  <2>4. QED
    <3>1. PICK l \in Nat : l = Len(s.mvWindow)
      BY <2>1
    <3>2. PICK q \in Nat : q = s.mvSequence
      BY <1>0
    <3>3. n = q + (WindowSize - l) /\ b = q - l
      BY <1>2, <1>6, <2>1, <3>1, <3>2
    <3>4. n - WindowSize = b /\ b \in Nat /\ b + l = q
      BY <1>0, <2>3, <3>3
    <3>5. QED
      BY <2>2, <3>1, <3>2, <3>4
<1>15. ASSUME NEW i \in 1 .. Len(w)
       PROVE  w[i].sequence = b + i - 1
  <2>1. CASE i <= Len(s.mvWindow)
    <3>1. i \in 1 .. Len(s.mvWindow) /\ w[i] = s.mvWindow[i]
      BY <1>12, <1>14, <2>1
    <3>2. QED
      BY <3>1, <1>0, <1>13 DEF Numbered
  <2>2. CASE i > Len(s.mvWindow)
    <3>1. /\ w[i] = r[i - Len(s.mvWindow)]
          /\ i - Len(s.mvWindow) \in 1 .. Len(r)
      BY <1>0, <1>2, <1>12, <1>14, <2>2
    <3>2. w[i].sequence = s.mvSequence + (i - Len(s.mvWindow)) - 1
      BY <3>1, <1>2
    <3>3. i \in Nat
      BY <1>0, <1>12
    <3>4. QED
      BY <3>2, <3>3, <1>0, <1>14
  <2>3. QED
    BY <2>1, <2>2, <1>0, <1>12, <1>14
<1>16. Numbered(t)
  BY <1>0, <1>11, <1>12, <1>14, <1>15 DEF Numbered, FullWhenSending
<1>17. QED
  BY <1>0, <1>10, <1>11, <1>13, <1>14, <1>16
     DEF ChildReady, WellFormed, KeepsBase, Transferring

\* A child whose state and out buffer alone changed is as well-formed as before.
LEMMA WindowUntouched ==
    ASSUME NEW p, NEW s, ChildReady(p, s), Transferring(s),
           NEW t \in ChildRecord(p), Transferring(t),
           t.mvWindow = s.mvWindow, t.mvSequence = s.mvSequence,
           t.mvState = "FILL_WINDOW" \/ Len(s.mvWindow) = WindowSize
    PROVE  ChildReady(p, t) /\ KeepsBase(s, t)
<1>1. WindowBase(t) = WindowBase(s) /\ Numbered(s) /\ WindowBase(s) \in Int
  BY DEF WindowBase, ChildReady, WellFormed, Numbered, ChildRecord
<1>2. Numbered(t)
  BY <1>1 DEF Numbered, FullWhenSending
<1>3. QED
  BY <1>1, <1>2 DEF ChildReady, WellFormed, KeepsBase, Transferring

\* sendWindow sends data, and only takes it out of the out buffer.
LEMMA PopOutBufIsSound ==
    ASSUME NEW p, NEW s, ChildReady(p, s), s.mvState = "SEND_WINDOW",
           s.mvOutBuf # <<>>
    PROVE  LET t == PopOutBuf(s)
           IN  /\ ChildReady(p, t) /\ t.mvAddr = s.mvAddr /\ KeepsBase(s, t)
               /\ Head(s.mvOutBuf) \in DataPacket
<1>1. /\ s \in ChildRecord(p) /\ s.mvOutBuf \in Seq(DataPacket)
      /\ Len(s.mvWindow) = WindowSize /\ Transferring(s)
  BY DEF ChildReady, ChildRecord, WellFormed, Transferring, Numbered, FullWhenSending
<1>2. Tail(s.mvOutBuf) \in Seq(DataPacket) /\ Head(s.mvOutBuf) \in DataPacket
  BY <1>1, HeadTailProperties
<1>3. PICK o : o = Tail(s.mvOutBuf)
  OBVIOUS
<1>4. PICK t : t = [s EXCEPT !.mvOutBuf = o]
  OBVIOUS
<1>5. t = PopOutBuf(s)
  BY <1>3, <1>4 DEF PopOutBuf
<1>6. /\ t \in ChildRecord(p) /\ t.mvWindow = s.mvWindow
      /\ t.mvSequence = s.mvSequence /\ t.mvState = s.mvState
      /\ t.mvAddr = s.mvAddr
  BY <1>1, <1>2, <1>3, <1>4 DEF ChildRecord
<1>7. ChildReady(p, t) /\ KeepsBase(s, t)
  BY <1>1, <1>6, WindowUntouched DEF Transferring
<1>8. QED
  BY <1>2, <1>5, <1>6, <1>7

\* The end of sendWindow: the child waits, its window full.
LEMMA HasSentIsSound ==
    ASSUME NEW p, NEW s, ChildReady(p, s), s.mvState = "SEND_WINDOW"
    PROVE  LET t == [s EXCEPT !.mvState = "WAIT_RR"]
           IN  ChildReady(p, t) /\ t.mvAddr = s.mvAddr /\ KeepsBase(s, t)
<1>1. /\ s \in ChildRecord(p) /\ Len(s.mvWindow) = WindowSize
      /\ Transferring(s)
  BY DEF ChildReady, WellFormed, Transferring, Numbered, FullWhenSending
<1>2. PICK t : t = [s EXCEPT !.mvState = "WAIT_RR"]
  OBVIOUS
<1>3. /\ t \in ChildRecord(p) /\ t.mvWindow = s.mvWindow
      /\ t.mvSequence = s.mvSequence /\ t.mvState = "WAIT_RR"
      /\ t.mvAddr = s.mvAddr
  BY <1>1, <1>2 DEF ChildRecord
<1>4. QED
  BY <1>1, <1>2, <1>3, WindowUntouched DEF Transferring

\* waitRR on a timeout or a bad checksum.
LEMMA WaitRRFailedIsSound ==
    ASSUME NEW p, NEW s, ChildReady(p, s), s.mvState = "WAIT_RR"
    PROVE  LET t == WaitRRFailed(s)
           IN  ChildReady(p, t) /\ t.mvAddr = s.mvAddr /\ KeepsBase(s, t)
<1>1. s \in ChildRecord(p) /\ Transferring(s)
  BY DEF ChildReady, Transferring
<1>2. PICK t : t = [s EXCEPT !.mvState = "FILL_WINDOW"]
  OBVIOUS
<1>3. /\ t \in ChildRecord(p) /\ t.mvWindow = s.mvWindow
      /\ t.mvSequence = s.mvSequence /\ t.mvState = "FILL_WINDOW"
      /\ t.mvAddr = s.mvAddr
  BY <1>1, <1>2 DEF ChildRecord
<1>4. ChildReady(p, t) /\ KeepsBase(s, t)
  BY <1>1, <1>3, WindowUntouched DEF Transferring
<1>5. QED
  BY <1>2, <1>3, <1>4 DEF WaitRRFailed

\* An RR that is not too old shifts the window by what it acknowledges.
LEMMA ShiftIsNumbered ==
    ASSUME NEW p, NEW s \in ChildRecord(p), Numbered(s),
           NEW k \in Nat, WindowBase(s) <= k,
           NEW t \in ChildRecord(p), t.mvState = "FILL_WINDOW",
           t.mvSequence = s.mvSequence,
           t.mvWindow = SubSeq(s.mvWindow, k - WindowBase(s) + 2, Len(s.mvWindow))
    PROVE  Numbered(t) /\ WindowBase(t) <= k + 1
<1>1. PICK w : w = s.mvWindow
  OBVIOUS
<1>2. PICK b : b = WindowBase(s)
  OBVIOUS
<1>3. PICK v : v = t.mvWindow
  OBVIOUS
<1>4. PICK m : m = k - b + 2
  OBVIOUS
<1>5. /\ w \in Seq(DataPacket) /\ Len(w) \in Nat /\ s.mvSequence \in Nat
      /\ b = s.mvSequence - Len(w) /\ b >= 0 /\ b <= k
      /\ WindowSize \in Nat /\ Len(w) <= WindowSize
      /\ \A i \in 1 .. Len(w) : w[i].sequence = b + i - 1
  <2>1. w \in Seq(DataPacket) /\ s.mvSequence \in Nat
    BY <1>1 DEF ChildRecord
  <2>2. Len(w) \in Nat
    BY <2>1, LenProperties
  <2>3. b = s.mvSequence - Len(w)
    BY <1>1, <1>2 DEF WindowBase
  <2>4. /\ Len(w) <= WindowSize /\ b >= 0
        /\ \A i \in 1 .. Len(w) : w[i].sequence = b + i - 1
    BY <1>1, <1>2 DEF Numbered
  <2>5. b <= k
    BY <1>2
  <2>6. QED
    BY <2>1, <2>2, <2>3, <2>4, <2>5, WindowAssumption
<1>6. PICK l \in Nat : l = Len(w)
  BY <1>5
<1>7. PICK q \in Nat : q = s.mvSequence
  BY <1>5
<1>8. b \in Nat /\ b + l = q /\ m \in Nat /\ m >= 2
  <2>1. b = q - l /\ b >= 0 /\ b <= k
    BY <1>5, <1>6, <1>7
  <2>2. QED
    BY <1>4, <2>1
<1>9. /\ Len(v) = IF m <= l THEN l - m + 1 ELSE 0
      /\ \A i \in 1 .. l - m + 1 : v[i] = w[m + i - 1]
  <2>1. \A i \in m .. l : w[i] \in DataPacket
    BY <1>5, <1>6, <1>8, ElementOfSeq
  <2>2. v = SubSeq(w, m, l) /\ m \in Int /\ l \in Int
    BY <1>1, <1>2, <1>3, <1>4, <1>6, <1>8
  <2>3. QED
    BY <2>1, <2>2, SubSeqProperties
<1>10. WindowBase(t) = q - Len(v)
  BY <1>3, <1>7 DEF WindowBase
<1>11. CASE m <= l
  <2>1. Len(v) = l - m + 1
    BY <1>9, <1>11
  <2>2. l - m + 1 \in Nat /\ l - m + 1 <= l /\ q - (l - m + 1) = k + 1
    BY <1>4, <1>8, <1>11
  <2>3. WindowBase(t) = k + 1 /\ Len(v) <= WindowSize
    BY <1>5, <1>6, <1>10, <2>1, <2>2
  <2>4. ASSUME NEW i \in 1 .. Len(v)
        PROVE  v[i].sequence = (k + 1) + i - 1
    <3>1. i \in Nat /\ i >= 1 /\ i <= l - m + 1
      BY <2>1, <2>2
    <3>2. v[i] = w[m + i - 1] /\ m + i - 1 \in 1 .. l
      BY <3>1, <1>8, <1>9
    <3>3. w[m + i - 1].sequence = b + (m + i - 1) - 1
      BY <3>2, <1>5, <1>6
    <3>4. b + (m + i - 1) - 1 = (k + 1) + i - 1
      BY <3>1, <1>4, <1>8
    <3>5. QED
      BY <3>2, <3>3, <3>4
  <2>5. Numbered(t)
    <3>1. WindowBase(t) >= 0
      BY <2>3
    <3>2. \A i \in 1 .. Len(t.mvWindow) :
             t.mvWindow[i].sequence = WindowBase(t) + i - 1
      BY <1>3, <2>3, <2>4
    <3>3. QED
      BY <1>3, <2>3, <3>1, <3>2 DEF Numbered, FullWhenSending
  <2>6. QED
    BY <2>3, <2>5
<1>12. CASE m > l
  <2>1. Len(v) = 0
    BY <1>8, <1>9, <1>12
  <2>2. WindowBase(t) = q
    BY <1>10, <2>1
  <2>3. q <= k + 1
    BY <1>4, <1>8, <1>12
  <2>4. Numbered(t)
    <3>1. Len(v) <= WindowSize /\ 1 .. Len(v) = {}
      <4>1. WindowSize \in Nat
        BY WindowAssumption
      <4>2. QED
        BY ONLY <2>1, <4>1
    <3>2. WindowBase(t) >= 0
      BY <2>2
    <3>3. FullWhenSending(t)
      BY DEF FullWhenSending
    <3>4. QED
      BY <1>3, <3>1, <3>2, <3>3, Zenon DEF Numbered
  <2>5. QED
    BY <2>2, <2>3, <2>4
<1>13. QED
  BY <1>8, <1>11, <1>12

\* waitRR with an intact packet: the window is full, so that it has a front.
\* Its lower end moves up only by an RR, to behind the block that names.
LEMMA WaitRRIsSound ==
    ASSUME NEW p, NEW s, ChildReady(p, s), s.mvState = "WAIT_RR",
           NEW pkt \in ToServer
    PROVE  LET t == WaitRR(s, pkt)
           IN  /\ ChildReady(p, t) /\ t.mvAddr = s.mvAddr
               /\ \/ KeepsBase(s, t)
                  \/ pkt.type = "RR" /\ WindowBase(t) <= pkt.sequence + 1
<1> DEFINE front == Head(s.mvWindow).sequence
           k == pkt.sequence
           w == ShiftWindow(s.mvWindow, k)
<1>0. /\ s \in ChildRecord(p) /\ Numbered(s) /\ Transferring(s)
      /\ s.mvWindow \in Seq(DataPacket)
      /\ Len(s.mvWindow) = WindowSize /\ WindowSize \in Nat \ {0}
      /\ k \in Nat /\ PKT_TRNSMAX \in 0 .. PKT_TRNSMAX
  BY WindowAssumption, RetriesAssumption
     DEF ChildReady, WellFormed, Transferring, Numbered, FullWhenSending,
         ChildRecord, ToServer
<1>1. front = WindowBase(s) /\ front \in Nat /\ s.mvWindow # <<>>
  <2>1. 1 \in 1 .. Len(s.mvWindow) /\ Head(s.mvWindow) = s.mvWindow[1]
    BY <1>0, HeadTailProperties
  <2>2. s.mvWindow[1].sequence = WindowBase(s) + 1 - 1
    BY <1>0, <2>1 DEF Numbered
  <2>3. WindowBase(s) \in Nat
    BY <1>0 DEF WindowBase, ChildRecord, Numbered
  <2>4. QED
    BY <1>0, <2>1, <2>2, <2>3, EmptySeq
<1> HIDE DEF front
<1>2. PICK t : t = WaitRR(s, pkt)
  OBVIOUS
<1>3. \/ /\ pkt.type = "RR" /\ k >= front
         /\ t = [s EXCEPT !.mvState = "FILL_WINDOW", !.mvWindow = w,
                          !.mvRetries = PKT_TRNSMAX]
      \/ t = [s EXCEPT !.mvState = "FILL_WINDOW", !.mvOutBuf = s.mvWindow]
      \/ /\ k < front
         /\ t = [s EXCEPT !.mvState = "FILL_WINDOW", !.mvSequence = k,
                          !.mvFrom = SeekTo(k), !.mvOutBuf = <<>>,
                          !.mvWindow = <<>>]
      \/ t = s
  BY <1>2 DEF WaitRR, front
<1> HIDE DEF w
<1>4. CASE /\ pkt.type = "RR" /\ k >= front
           /\ t = [s EXCEPT !.mvState = "FILL_WINDOW", !.mvWindow = w,
                            !.mvRetries = PKT_TRNSMAX]
  <2>1. w = SubSeq(s.mvWindow, k - WindowBase(s) + 2, Len(s.mvWindow))
    BY <1>1 DEF w, ShiftWindow, front
  <2>2. w \in Seq(DataPacket)
    <3>1. k - WindowBase(s) + 2 \in Int /\ k - WindowBase(s) + 2 >= 1
      BY <1>0, <1>1, <1>4
    <3>2. \A i \in (k - WindowBase(s) + 2) .. Len(s.mvWindow) :
             s.mvWindow[i] \in DataPacket
      BY <3>1, <1>0, ElementOfSeq
    <3>3. Len(s.mvWindow) \in Int
      BY <1>0
    <3>4. QED
      BY <2>1, <3>1, <3>2, <3>3, SubSeqProperties
  <2>3. /\ t \in ChildRecord(p) /\ t.mvWindow = w /\ t.mvState = "FILL_WINDOW"
        /\ t.mvSequence = s.mvSequence /\ t.mvAddr = s.mvAddr
    BY <1>0, <1>4, <2>2 DEF ChildRecord
  <2>4. WindowBase(s) <= k
    BY <1>1, <1>4
  <2>5. Numbered(t) /\ WindowBase(t) <= k + 1
    BY <1>0, <2>1, <2>3, <2>4, ShiftIsNumbered
  <2>6. QED
    BY <1>2, <1>4, <2>3, <2>5 DEF ChildReady, WellFormed
<1>5. CASE t = [s EXCEPT !.mvState = "FILL_WINDOW", !.mvOutBuf = s.mvWindow]
  <2>1. /\ t \in ChildRecord(p) /\ t.mvWindow = s.mvWindow
        /\ t.mvSequence = s.mvSequence /\ t.mvState = "FILL_WINDOW"
        /\ t.mvAddr = s.mvAddr
    BY <1>0, <1>5 DEF ChildRecord
  <2>2. ChildReady(p, t) /\ KeepsBase(s, t)
    BY <1>0, <2>1, WindowUntouched DEF Transferring
  <2>3. QED
    BY <1>2, <2>1, <2>2
<1>6. CASE /\ k < front
           /\ t = [s EXCEPT !.mvState = "FILL_WINDOW", !.mvSequence = k,
                            !.mvFrom = SeekTo(k), !.mvOutBuf = <<>>,
                            !.mvWindow = <<>>]
  <2>1. SeekTo(k) \in Nat
    BY <1>0, SeekAssumption DEF SeekTo
  <2>2. PICK f \in Nat : f = SeekTo(k)
    BY <2>1
  <2>3. PICK e \in Seq(DataPacket) : e = <<>>
    BY EmptySeq
  <2>4. t = [s EXCEPT !.mvState = "FILL_WINDOW", !.mvSequence = k, !.mvFrom = f,
                      !.mvOutBuf = e, !.mvWindow = e]
    BY <1>6, <2>2, <2>3
  <2>5. /\ t \in ChildRecord(p) /\ t.mvWindow = e /\ t.mvState = "FILL_WINDOW"
        /\ t.mvSequence = k /\ t.mvAddr = s.mvAddr
    BY <1>0, <2>4 DEF ChildRecord
  <2>6. Len(t.mvWindow) = 0
    BY <2>3, <2>5, EmptySeq
  <2>7. WindowBase(t) = k
    BY <1>0, <2>5, <2>6 DEF WindowBase
  <2>8. WindowBase(t) >= 0 /\ Len(t.mvWindow) <= WindowSize
    BY <1>0, <2>6, <2>7
  <2>9. 1 .. Len(t.mvWindow) = {}
    BY <2>6
  <2>10. Numbered(t)
    BY <2>5, <2>8, <2>9 DEF Numbered, FullWhenSending
  <2>11. WindowBase(t) <= WindowBase(s)
    BY <1>0, <1>1, <1>6, <2>7
  <2>12. QED
    BY <1>0, <1>2, <2>5, <2>10, <2>11 DEF ChildReady, WellFormed, KeepsBase
<1>7. CASE t = s
  <2>1. WindowBase(s) <= WindowBase(s)
    BY <1>1
  <2>2. QED
    BY <1>0, <1>2, <1>7, <2>1 DEF KeepsBase, ChildReady
<1>8. QED
  BY <1>3, <1>4, <1>5, <1>6, <1>7

-----------------------------------------------------------------------------
(* The server *)

\* One round of Run on an intact packet whose number is that of its type.  It
\* sends nothing or the outpkt it then has; a CXN makes it remember the new
\* socket, a CXN2 that was awaited makes it fork and await none.
LEMMA RunStepFacts ==
    ASSUME NEW l, l \in [cxn2: BOOLEAN, sk: Ports \union {Nothing},
                         outpkt: Answers \union {Unwritten}],
           NEW pkt, Intact(pkt),
           pkt.type = "CXN" => pkt.sequence = 0,
           pkt.type = "CXN2" => pkt.sequence = 1,
           NEW port, pkt.type = "CXN" => port \in Ports
    PROVE  LET step == RunStep(l, pkt, port)
           IN  /\ step.server \in [cxn2: BOOLEAN, sk: Ports \union {Nothing},
                                   outpkt: Answers \union {Unwritten}]
               /\ step.out = <<>> \/ step.out = <<step.server.outpkt>>
               /\ l.outpkt # Unwritten => step.server.outpkt # Unwritten
               /\ pkt.type \in {"CXN", "CXN2"} /\ step.out # <<>>
                     => step.server.outpkt # Unwritten
               /\ step.out # <<>> => pkt.type \in {"CXN", "CXN2", "REJ"}
               /\ step.fork => pkt.type = "CXN2" /\ l.cxn2 /\ ~step.server.cxn2
               /\ step.server.cxn2 =>
                     IF pkt.type = "CXN" THEN step.server.sk = port
                                         ELSE l.cxn2 /\ step.server.sk = l.sk
<1>1. CASE pkt.type = "CXN"
  <2>1. portpkt(0, port) \in Answers /\ portpkt(0, port) # Unwritten
    BY <1>1, AnswerFacts
  <2>2. PICK a : a = portpkt(0, port)
    OBVIOUS
  <2>3. PICK m : m = [l EXCEPT !.cxn2 = TRUE, !.sk = port, !.outpkt = a]
    OBVIOUS
  <2>4. RunStep(l, pkt, port) = [server |-> m, out |-> <<a>>, fork |-> FALSE]
    BY <1>1, <2>2, <2>3 DEF RunStep
  <2>5. m = [cxn2 |-> TRUE, sk |-> port, outpkt |-> a]
    BY <2>3
  <2>6. port \in Ports
    BY <1>1
  <2>7. QED
    BY <1>1, <2>1, <2>2, <2>4, <2>5, <2>6
<1>2. CASE pkt.type = "CXN2" /\ l.cxn2
  <2>1. rrpkt(1) \in Answers /\ rrpkt(1) # Unwritten
    BY AnswerFacts
  <2>2. PICK a : a = rrpkt(1)
    OBVIOUS
  <2>3. PICK m : m = [l EXCEPT !.cxn2 = FALSE, !.outpkt = a]
    OBVIOUS
  <2>4. RunStep(l, pkt, port) = [server |-> m, out |-> <<a>>, fork |-> TRUE]
    BY <1>2, <2>2, <2>3 DEF RunStep
  <2>5. m = [cxn2 |-> FALSE, sk |-> l.sk, outpkt |-> a]
    BY <2>3
  <2>6. QED
    BY <1>2, <2>1, <2>2, <2>4, <2>5
<1>3. CASE pkt.type = "REJ"
  <2>1. RunStep(l, pkt, port) = [server |-> l, out |-> <<l.outpkt>>, fork |-> FALSE]
    BY <1>3 DEF RunStep
  <2>2. QED
    BY <1>3, <2>1
<1>4. CASE ~(pkt.type \in {"CXN", "REJ"} \/ (pkt.type = "CXN2" /\ l.cxn2))
  <2>1. RunStep(l, pkt, port) = [server |-> l, out |-> <<>>, fork |-> FALSE]
    BY <1>4 DEF RunStep
  <2>2. QED
    BY <1>4, <2>1
<1>5. QED
  BY <1>1, <1>2, <1>3, <1>4

=============================================================================
