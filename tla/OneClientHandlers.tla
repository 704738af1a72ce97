-------------------------- MODULE OneClientHandlers --------------------------
(***************************************************************************)
(* What the handlers of a session's client and child do to the conditions  *)
(* of module OneClient.  The records of a session have more members than   *)
(* those of the transfer alone: the handlers leave these members alone, so *)
(* what HandlerProofs says of them holds here too.                         *)
(***************************************************************************)
EXTENDS OneClient, SessionProofs, HandlerProofs

-----------------------------------------------------------------------------
(* rcopy *)

\* The members that the handlers of the transfer use.
ClientCore(s) ==
    [mvState |-> s.mvState, mvSequence |-> s.mvSequence,
     mvRetries |-> s.mvRetries, mvAddr |-> s.mvAddr, mvTo |-> s.mvTo]

LEMMA ClientCoreFacts ==
    ASSUME NEW c, NEW s \in ClientRecord(c)
    PROVE  /\ ClientCore(s) \in ClientType({ListenSocket} \union Ports)
           /\ HasPrefix(ClientCore(s)) <=> HasPrefix(s)
           /\ KnowsTheEnd(ClientCore(s)) <=> KnowsTheEnd(s)
  BY DEF ClientRecord, ClientCore, ClientType, HasPrefix, KnowsTheEnd

\* recvPackets looks at these members only and leaves the others alone.
LEMMA RecvPacketsOnCore ==
    ASSUME NEW c, NEW s \in ClientRecord(c), NEW pkt, pkt.sequence \in Nat
    PROVE  LET t == RecvPackets(s, pkt).client
           IN  /\ ClientCore(t) = RecvPackets(ClientCore(s), pkt).client
               /\ t.i = s.i /\ t.mvSocket = s.mvSocket /\ t.mvAddr = s.mvAddr
<1> DEFINE k == ClientCore(s)
           q == Append(s.mvTo, pkt.data)
           m == s.mvSequence + 1
<1>0. /\ s.mvSequence \in Nat
      /\ k.mvState = s.mvState /\ k.mvSequence = s.mvSequence
      /\ k.mvRetries = s.mvRetries /\ k.mvAddr = s.mvAddr /\ k.mvTo = s.mvTo
  BY DEF ClientRecord, ClientCore
<1>1. CASE pkt.sequence = s.mvSequence
  <2>1. PICK t : t = [s EXCEPT !.mvRetries = PKT_TRNSMAX, !.mvSequence = @ + 1,
                               !.mvTo = Append(@, pkt.data)]
    OBVIOUS
  <2>2. PICK u : u = [t EXCEPT !.mvState = "DONE"]
    OBVIOUS
  <2>3. PICK v : v = [k EXCEPT !.mvRetries = PKT_TRNSMAX, !.mvSequence = @ + 1,
                               !.mvTo = Append(@, pkt.data)]
    OBVIOUS
  <2>4. PICK w : w = [v EXCEPT !.mvState = "DONE"]
    OBVIOUS
  <2>5. RecvPackets(s, pkt).client = IF EndsFile(pkt) THEN u ELSE t
    BY <1>1, <2>1, <2>2 DEF RecvPackets
  <2>6. RecvPackets(k, pkt).client = IF EndsFile(pkt) THEN w ELSE v
    BY <1>0, <1>1, <2>3, <2>4 DEF RecvPackets
  <2>7. /\ t.mvState = s.mvState /\ t.mvSequence = m /\ t.mvRetries = PKT_TRNSMAX
        /\ t.mvAddr = s.mvAddr /\ t.mvTo = q /\ t.i = s.i /\ t.mvSocket = s.mvSocket
        /\ u.mvState = "DONE" /\ u.mvSequence = m /\ u.mvRetries = PKT_TRNSMAX
        /\ u.mvAddr = s.mvAddr /\ u.mvTo = q /\ u.i = s.i /\ u.mvSocket = s.mvSocket
    BY <2>1, <2>2 DEF ClientRecord
  <2>8. v = [mvState |-> s.mvState, mvSequence |-> m, mvRetries |-> PKT_TRNSMAX,
             mvAddr |-> s.mvAddr, mvTo |-> q]
    BY <2>3 DEF ClientCore
  <2>9. w = [mvState |-> "DONE", mvSequence |-> m, mvRetries |-> PKT_TRNSMAX,
             mvAddr |-> s.mvAddr, mvTo |-> q]
    BY <2>4, <2>8
  <2> HIDE DEF q, m, k
  <2>10. ClientCore(t) = v /\ ClientCore(u) = w
    BY <2>7, <2>8, <2>9 DEF ClientCore
  <2>11. QED
    BY <2>5, <2>6, <2>7, <2>10 DEF k
<1>2. CASE pkt.sequence < s.mvSequence
  <2>1. PICK t : t = [s EXCEPT !.mvRetries = PKT_TRNSMAX]
    OBVIOUS
  <2>2. PICK v : v = [k EXCEPT !.mvRetries = PKT_TRNSMAX]
    OBVIOUS
  <2>3. RecvPackets(s, pkt).client = t /\ RecvPackets(k, pkt).client = v
    BY <1>0, <1>2, <2>1, <2>2 DEF RecvPackets
  <2>4. /\ t.mvState = s.mvState /\ t.mvSequence = s.mvSequence
        /\ t.mvRetries = PKT_TRNSMAX /\ t.mvAddr = s.mvAddr /\ t.mvTo = s.mvTo
        /\ t.i = s.i /\ t.mvSocket = s.mvSocket
    BY <2>1 DEF ClientRecord
  <2>5. ClientCore(t) = v
    BY <2>2, <2>4 DEF ClientCore
  <2>6. QED
    BY <2>3, <2>4, <2>5
<1>3. CASE pkt.sequence > s.mvSequence
  <2>1. RecvPackets(s, pkt).client = s /\ RecvPackets(k, pkt).client = k
    BY <1>0, <1>3 DEF RecvPackets, RecvPacketsFailed
  <2>2. QED
    BY <2>1
<1>4. QED
  BY <1>0, <1>1, <1>2, <1>3

\* A data packet with the block its number names: the file stays a prefix, is
\* done exactly at its end, and grows by its next block at most.
LEMMA BlockReceived ==
    ASSUME NEW c, NEW s \in ClientRecord(c), s.mvState = "RECV_PACKETS",
           s.mvRetries > 0, HasPrefix(s), KnowsTheEnd(s), NEW n \in Nat
    PROVE  LET t == RecvPackets(s, datpkt(n, n)).client
           IN  HasPrefix(t) /\ KnowsTheEnd(t) /\ Advances(s, t) /\ t.mvRetries > 0
<1>1. PICK A : A = {ListenSocket} \union Ports
  OBVIOUS
<1>2. PICK k : k = ClientCore(s)
  OBVIOUS
<1>3. PICK t : t = RecvPackets(s, datpkt(n, n)).client
  OBVIOUS
<1>4. PICK reply : reply = RecvPackets(k, datpkt(n, n))
  OBVIOUS
<1>5. /\ k \in ClientType(A) /\ HasPrefix(k) /\ KnowsTheEnd(k)
      /\ k.mvState = s.mvState /\ k.mvRetries = s.mvRetries /\ k.mvTo = s.mvTo
  BY <1>1, <1>2, ClientCoreFacts DEF ClientCore
<1>6. GoodOutcome(A, k, reply)
  BY <1>4, <1>5, RecvPacketsIsGood
<1>7. Advances(k, reply.client) /\ reply.client.mvRetries > 0
  BY <1>4, <1>5, RecvPacketsAdvances
<1>8. ClientCore(t) = reply.client
  BY <1>2, <1>3, <1>4, DataPacketFacts, RecvPacketsOnCore
<1>9. /\ HasPrefix(ClientCore(t)) /\ KnowsTheEnd(ClientCore(t))
      /\ Advances(k, ClientCore(t)) /\ ClientCore(t).mvRetries > 0
  BY <1>6, <1>7, <1>8 DEF GoodOutcome
<1>10. QED
  BY <1>3, <1>5, <1>9 DEF ClientCore, HasPrefix, KnowsTheEnd, Advances

\* A packet that the client in state t may send: the CXN only as its first, to
\* the server's loop nothing but that and the CXN2, a REJ for no block beyond
\* the one it lacks, and packets of init under their own numbers.
MaySend(t, pkt) ==
    /\ pkt.type = "CXN" => t.i = 0
    /\ t.i <= 1 => pkt.type \in {"CXN", "CXN2"}
    /\ pkt.type = "REJ" => pkt.sequence <= t.mvSequence
    /\ pkt.type \notin {"RR", "REJ"} => OfInit(pkt)

\* The packets of init have their numbers, and the child wants three of them.
LEMMA OfInitFacts ==
    ASSUME NEW n \in 0 .. 4
    PROVE  /\ \A c : OfInit(InitPacket(n, c))
           /\ n >= 2 => InitPacket(n, Fill).type \in Wanted
<1>1. \A c : /\ InitPacket(n, c).sequence = n
            /\ InitPacket(n, c).type = InitPacket(n, Fill).type
  BY DEF InitPacket
<1>2. n >= 2 => n = 2 \/ n = 3 \/ n = 4
  OBVIOUS
<1>3. n >= 2 => InitPacket(n, Fill).type \in Wanted
  BY <1>2 DEF InitPacket, Wanted
<1>4. QED
  BY <1>1, <1>3 DEF OfInit

\* It sends such a packet or nothing.
Replies(reply) ==
    \/ reply.out = <<>>
    \/ \E pkt : reply.out = <<pkt>> /\ MaySend(reply.client, pkt)

\* recvPackets, with any packet.  The first block is written for a packet
\* numbered 0 only.
LEMMA RecvPacketsReplies ==
    ASSUME NEW c \in Clients, NEW s, ClientReady(c, s), s.mvState = "RECV_PACKETS",
           NEW pkt \in ToClient
    PROVE  LET reply == RecvPackets(s, pkt)
           IN  /\ Replies(reply)
               /\ reply.client.i = 5 /\ reply.client.mvSocket = s.mvSocket
               /\ reply.client.mvAddr = s.mvAddr
               /\ reply.client.mvSequence >= 1 =>
                     s.mvSequence >= 1 \/ pkt.sequence = 0
               /\ pkt.sequence > s.mvSequence => reply.client = s
<1>0. /\ s \in ClientRecord(c) /\ s.i = 5 /\ s.mvSequence \in Nat
      /\ pkt.sequence \in Nat
  BY DEF ClientReady, ClientRecord, ToClient
<1>1. PICK reply : reply = RecvPackets(s, pkt)
  OBVIOUS
<1>2. /\ reply.client.i = 5 /\ reply.client.mvSocket = s.mvSocket
      /\ reply.client.mvAddr = s.mvAddr
  BY <1>0, <1>1, RecvPacketsOnCore
<1>3. CASE pkt.sequence <= s.mvSequence
  <2>1. reply.out = <<>> \/ reply.out = <<rrpkt(pkt.sequence)>>
    BY <1>0, <1>1, <1>3 DEF RecvPackets
  <2>2. MaySend(reply.client, rrpkt(pkt.sequence))
    BY <1>0, <1>2, ReplyFacts DEF MaySend
  <2>3. s.mvSequence >= 1 \/ pkt.sequence = 0
    BY <1>0, <1>3
  <2>4. QED
    BY <1>0, <1>1, <1>2, <1>3, <2>1, <2>2, <2>3 DEF Replies
<1>4. CASE pkt.sequence > s.mvSequence
  <2>1. reply = [client |-> s, out |-> <<rejpkt(s.mvSequence)>>]
    BY <1>0, <1>1, <1>4 DEF RecvPackets, RecvPacketsFailed
  <2>2. MaySend(s, rejpkt(s.mvSequence))
    BY <1>0, ReplyFacts DEF MaySend
  <2>3. QED
    BY <1>0, <1>1, <1>2, <2>1, <2>2 DEF Replies
<1>5. QED
  BY <1>0, <1>3, <1>4

\* The rest of a round of init leaves what was written, the packet init is at,
\* the socket and the address alone; it fails only without a retry.
LEMMA InitGoesOnReplies ==
    ASSUME NEW c \in Clients, NEW s \in ClientRecord(c),
           s.mvState = "INIT", s.mvSequence = 0, s.i \in 0 .. 5
    PROVE  LET reply == InitGoesOn(s, c)
           IN  /\ Replies(reply)
               /\ reply.client.mvTo = s.mvTo /\ reply.client.mvSequence = 0
               /\ reply.client.i = s.i /\ reply.client.mvSocket = s.mvSocket
               /\ reply.client.mvAddr = s.mvAddr
               /\ \/ /\ reply.client.mvState \in {"INIT", "RECV_PACKETS"}
                     /\ reply.client.mvRetries > 0
                  \/ reply.client.mvState = "ERROR" /\ s.mvRetries = 0
<1>0. s.mvRetries \in 0 .. PKT_TRNSMAX /\ PKT_TRNSMAX \in Nat /\ PKT_TRNSMAX > 0
  BY RetriesAssumption DEF ClientRecord
<1>1. PICK reply : reply = InitGoesOn(s, c)
  OBVIOUS
<1>2. CASE s.mvRetries = 0
  <2>1. PICK t : t = [s EXCEPT !.mvState = "ERROR"]
    OBVIOUS
  <2>2. reply = [client |-> t, out |-> <<>>]
    BY <1>0, <1>1, <1>2, <2>1 DEF InitGoesOn
  <2>3. /\ t.mvTo = s.mvTo /\ t.mvSequence = 0 /\ t.i = s.i
        /\ t.mvSocket = s.mvSocket /\ t.mvAddr = s.mvAddr /\ t.mvState = "ERROR"
    BY <2>1 DEF ClientRecord
  <2>4. QED
    BY <1>1, <1>2, <2>2, <2>3 DEF Replies
<1>3. CASE s.mvRetries > 0 /\ s.i = 5
  <2>1. PICK t : t = [s EXCEPT !.mvState = "RECV_PACKETS", !.mvSequence = 0,
                               !.mvRetries = PKT_TRNSMAX]
    OBVIOUS
  <2>2. reply = [client |-> t, out |-> <<>>]
    BY <1>0, <1>1, <1>3, <2>1 DEF InitGoesOn
  <2>3. /\ t.mvTo = s.mvTo /\ t.mvSequence = 0 /\ t.i = s.i
        /\ t.mvSocket = s.mvSocket /\ t.mvAddr = s.mvAddr
        /\ t.mvState = "RECV_PACKETS" /\ t.mvRetries > 0
    BY <1>0, <2>1 DEF ClientRecord
  <2>4. QED
    BY <1>1, <2>2, <2>3 DEF Replies
<1>4. CASE s.mvRetries > 0 /\ s.i # 5
  <2>1. PICK pkt : pkt = InitPacket(s.i, c)
    OBVIOUS
  <2>2. reply = [client |-> s, out |-> <<pkt>>]
    BY <1>0, <1>1, <1>4, <2>1 DEF InitGoesOn
  <2>3. /\ s.i \in 0 .. 4 /\ (pkt.type = "CXN" <=> s.i = 0)
        /\ (pkt.type = "CXN2" <=> s.i = 1) /\ pkt.type # "REJ"
    BY <1>4, <2>1, InitPacketFacts
  <2>4. MaySend(s, pkt)
    BY <2>1, <2>3, OfInitFacts DEF MaySend
  <2>5. QED
    BY <1>1, <1>4, <2>2, <2>4 DEF Replies
<1>5. QED
  BY <1>0, <1>2, <1>3, <1>4

\* A timeout or a bad checksum leaves them alone in either state.
LEMMA ClientFailsReplies ==
    ASSUME NEW c \in Clients, NEW s, ClientReady(c, s)
    PROVE  LET reply == ClientFails(c, s)
           IN  /\ Replies(reply)
               /\ reply.client.mvTo = s.mvTo
               /\ reply.client.mvSequence = s.mvSequence
               /\ reply.client.i = s.i /\ reply.client.mvSocket = s.mvSocket
               /\ reply.client.mvAddr = s.mvAddr
               /\ \/ reply.client = s
                  \/ /\ s.mvState = "INIT"
                     /\ reply.client.mvState \in {"INIT", "RECV_PACKETS", "ERROR"}
               /\ s.mvState = "INIT" /\ s.mvRetries > 0 =>
                     /\ reply.client.mvState \in {"INIT", "RECV_PACKETS"}
                     /\ reply.client.mvRetries > 0
<1>0. s \in ClientRecord(c) /\ s.mvSequence \in Nat
  BY DEF ClientReady, ClientRecord
<1>1. PICK reply : reply = ClientFails(c, s)
  OBVIOUS
<1>2. CASE s.mvState = "INIT"
  <2>1. reply = InitGoesOn(s, c) /\ s.mvSequence = 0 /\ s.i \in 0 .. 5
    BY <1>0, <1>1, <1>2 DEF ClientFails, ClientInitFailed, ClientReady, ClientRecord
  <2>2. /\ Replies(reply)
        /\ reply.client.mvTo = s.mvTo /\ reply.client.mvSequence = 0
        /\ reply.client.i = s.i /\ reply.client.mvSocket = s.mvSocket
        /\ reply.client.mvAddr = s.mvAddr
        /\ \/ /\ reply.client.mvState \in {"INIT", "RECV_PACKETS"}
              /\ reply.client.mvRetries > 0
           \/ reply.client.mvState = "ERROR" /\ s.mvRetries = 0
    BY <1>0, <1>2, <2>1, InitGoesOnReplies
  <2>3. QED
    BY <1>1, <1>2, <2>1, <2>2
<1>3. CASE s.mvState = "RECV_PACKETS"
  <2>1. reply = [client |-> s, out |-> <<rejpkt(s.mvSequence)>>]
    BY <1>1, <1>3 DEF ClientFails, RecvPacketsFailed
  <2>2. s.i = 5 /\ MaySend(s, rejpkt(s.mvSequence))
    BY <1>0, <1>3, ReplyFacts DEF MaySend, ClientReady
  <2>3. QED
    BY <1>1, <1>3, <2>1, <2>2 DEF Replies
<1>4. QED
  BY <1>2, <1>3 DEF ClientReady

\* init with an intact packet: it goes ahead by one packet only for an RR of the
\* packet it is at, a REJ of a later one, or what is neither; it changes socket
\* and address only for an RR of packet 1.
LEMMA ClientInitReplies ==
    ASSUME NEW c \in Clients, NEW s, ClientReady(c, s), s.mvState = "INIT",
           NEW pkt, Receivable(s, pkt)
    PROVE  LET reply == ClientInit(s, pkt, NewSocket(c), c)
           IN  /\ Replies(reply)
               /\ reply.client.mvTo = s.mvTo /\ reply.client.mvSequence = 0
               /\ reply.client.mvState \in {"INIT", "RECV_PACKETS"}
               /\ reply.client.mvRetries > 0
               /\ \/ reply.client.i <= s.i
                  \/ /\ reply.client.i = s.i + 1
                     /\ pkt.type = "RR" => pkt.sequence = s.i
                     /\ pkt.type = "REJ" => pkt.sequence > s.i
               /\ \/ /\ reply.client.mvSocket = s.mvSocket
                     /\ reply.client.mvAddr = s.mvAddr
                     /\ ~(pkt.type = "RR" /\ pkt.sequence = 1 /\ s.i = 1)
                  \/ /\ reply.client.mvSocket = NewSocket(c)
                     /\ reply.client.mvAddr \in Ports
                     /\ pkt.type = "RR" /\ pkt.sequence = 1 /\ s.i = 1
<1> DEFINE n == NextPacket(s, pkt)
           t == Redirected(s, pkt, NewSocket(c))
           moved == pkt.type = "RR" /\ pkt.sequence = 1 /\ s.i = 1
<1>0. /\ s \in ClientRecord(c) /\ s.mvSequence = 0 /\ s.i \in 0 .. 4
      /\ pkt.sequence \in Nat
      /\ PKT_TRNSMAX \in 0 .. PKT_TRNSMAX /\ PKT_TRNSMAX > 0
      /\ s.i = 1 => s.addr \in Ports
  BY RetriesAssumption DEF ClientReady, ClientRecord, Receivable, ToClient
<1>1. /\ n \in 0 .. 5
      /\ n <= s.i \/ /\ n = s.i + 1
                     /\ pkt.type = "RR" => pkt.sequence = s.i
                     /\ pkt.type = "REJ" => pkt.sequence > s.i
  BY <1>0 DEF NextPacket
<1>2. /\ t \in ClientRecord(c) /\ t.mvState = "INIT" /\ t.mvSequence = 0
      /\ t.mvTo = s.mvTo
      /\ \/ ~moved /\ t.mvSocket = s.mvSocket /\ t.mvAddr = s.mvAddr
         \/ moved /\ t.mvSocket = NewSocket(c) /\ t.mvAddr \in Ports
  <2>1. CASE pkt.type = "RR" /\ pkt.sequence = s.i /\ s.i = 0
    <3>1. t = [s EXCEPT !.addr = pkt.size]
      BY <2>1, <1>0 DEF Redirected
    <3>2. pkt.size \in Ports
      BY <2>1, AnswerFacts DEF Receivable
    <3>3. QED
      BY <3>1, <3>2, <2>1, <1>0 DEF ClientRecord
  <2>2. CASE moved
    <3>1. t = [s EXCEPT !.mvSocket = NewSocket(c), !.mvAddr = s.addr]
      BY <2>2, <1>0 DEF Redirected
    <3>2. QED
      BY <3>1, <2>2, <1>0 DEF ClientRecord
  <2>3. CASE ~(pkt.type = "RR" /\ pkt.sequence = s.i /\ s.i = 0) /\ ~moved
    <3>1. t = s
      BY <2>3, <1>0 DEF Redirected
    <3>2. QED
      BY <3>1, <2>3, <1>0
  <2>4. QED
    BY <2>1, <2>2, <2>3
<1>3. PICK u : u = [t EXCEPT !.i = n, !.mvRetries = PKT_TRNSMAX]
  OBVIOUS
<1>4. ClientInit(s, pkt, NewSocket(c), c) = InitGoesOn(u, c)
  BY <1>3 DEF ClientInit
<1> HIDE DEF n, t
<1>5. /\ u \in ClientRecord(c) /\ u.mvState = "INIT" /\ u.mvSequence = 0
      /\ u.i = n /\ u.mvTo = s.mvTo /\ u.mvRetries = PKT_TRNSMAX
      /\ u.mvSocket = t.mvSocket /\ u.mvAddr = t.mvAddr
  <2>1. n \in -1 .. 5
    BY <1>1
  <2>2. /\ u \in ClientRecord(c) /\ u.i = n /\ u.mvState = t.mvState
        /\ u.mvSequence = t.mvSequence /\ u.mvTo = t.mvTo
        /\ u.mvRetries = PKT_TRNSMAX
        /\ u.mvSocket = t.mvSocket /\ u.mvAddr = t.mvAddr
    BY <1>0, <1>2, <1>3, <2>1 DEF ClientRecord
  <2>3. QED
    BY <1>2, <2>2
<1>6. PICK reply : reply = InitGoesOn(u, c)
  OBVIOUS
<1>7. /\ Replies(reply)
      /\ reply.client.mvTo = s.mvTo /\ reply.client.mvSequence = 0
      /\ reply.client.i = n /\ reply.client.mvSocket = t.mvSocket
      /\ reply.client.mvAddr = t.mvAddr
      /\ reply.client.mvState \in {"INIT", "RECV_PACKETS"}
      /\ reply.client.mvRetries > 0
  <2>1. u.mvRetries # 0 /\ u.i \in 0 .. 5
    BY <1>0, <1>1, <1>5
  <2>2. QED
    BY <1>5, <1>6, <2>1, InitGoesOnReplies
<1>8. QED
  BY <1>1, <1>2, <1>4, <1>6, <1>7

-----------------------------------------------------------------------------
(* The child *)

\* The members that the handlers of the transfer use.
ChildCore(s) ==
    [mvState |-> s.mvState, mvSequence |-> s.mvSequence,
     mvRetries |-> s.mvRetries, mvAddr |-> s.mvAddr, mvWindow |-> s.mvWindow,
     mvOutBuf |-> s.mvOutBuf, mvFrom |-> s.mvFrom]

\* A true window is what HandlerProofs calls a good child.
LEMMA ChildCoreFacts ==
    ASSUME NEW p, NEW s, ChildReady(p, s), Transferring(s), NEW n
    PROVE  TrueWindow(s, n) <=> GoodChild(ClientSockets, ChildCore(s), n)
<1>1. PICK k : k = ChildCore(s)
  OBVIOUS
<1>2. s \in ChildRecord(p) /\ FullWhenSending(s)
  BY DEF ChildReady, WellFormed, Numbered
<1>3. /\ k.mvState = s.mvState /\ k.mvSequence = s.mvSequence
      /\ k.mvWindow = s.mvWindow /\ k.mvOutBuf = s.mvOutBuf
      /\ k.mvFrom = s.mvFrom
  BY <1>1 DEF ChildCore
<1>4. k \in ServerType(ClientSockets)
  BY <1>1, <1>2 DEF ChildCore, ServerType, ChildRecord
<1>5. k.mvState \notin {"INIT", "DONE", "ERROR"}
  BY <1>3 DEF Transferring
<1>6. /\ Contiguous(k) <=> Contiguous(s)
      /\ WindowBase(k) = WindowBase(s)
      /\ SendsWithin(k, n) <=> SendsWithin(s, n)
      /\ FullWhenSending(k)
  BY <1>2, <1>3 DEF Contiguous, WindowBase, SendsWithin, FullWhenSending
<1>7. QED
  BY <1>1, <1>4, <1>5, <1>6 DEF TrueWindow, GoodChild

\* A window is as true as one with the same members, and stays true while the
\* client writes.
LEMMA TrueWindowDepends ==
    ASSUME NEW s, NEW t, NEW n, TrueWindow(s, n),
           t.mvSequence = s.mvSequence, t.mvFrom = s.mvFrom,
           t.mvWindow = s.mvWindow, t.mvOutBuf = s.mvOutBuf
    PROVE  TrueWindow(t, n)
  BY DEF TrueWindow, Contiguous, WindowBase, SendsWithin

LEMMA TrueWindowGrows ==
    ASSUME NEW p, NEW s, ChildReady(p, s), Transferring(s),
           NEW m \in Nat, NEW n \in Nat, m <= n, TrueWindow(s, m)
    PROVE  TrueWindow(s, n)
<1>1. GoodChild(ClientSockets, ChildCore(s), m)
  BY ChildCoreFacts
<1>2. GoodChild(ClientSockets, ChildCore(s), n)
  BY <1>1, GoodChildGrows
<1>3. QED
  BY <1>2, ChildCoreFacts

\* fillWindow.
LEMMA FillWindowIsTrue ==
    ASSUME NEW p, NEW s, ChildReady(p, s), s.mvState = "FILL_WINDOW",
           NEW n \in Nat, TrueWindow(s, n)
    PROVE  TrueWindow(FillWindow(s), n) /\ FillWindow(s).mvState = "SEND_WINDOW"
<1>1. PICK k : k = ChildCore(s)
  OBVIOUS
<1>2. PICK t : t = FillWindow(s)
  OBVIOUS
<1>3. PICK u : u = FillWindow(k)
  OBVIOUS
<1>4. s \in ChildRecord(p) /\ Transferring(s)
  BY DEF ChildReady, Transferring
<1>5. GoodChild(ClientSockets, k, n)
  BY <1>1, <1>4, ChildCoreFacts
<1>6. GoodChild(ClientSockets, u, n)
  BY <1>3, <1>5, FillWindowIsGood
<1>7. PICK r : r = Refill(s)
  OBVIOUS
<1>8. Refill(k) = r
  BY <1>1, <1>7 DEF Refill, ChildCore
<1>9. /\ t.mvState = "SEND_WINDOW" /\ t.mvWindow = s.mvWindow \o r
      /\ t.mvOutBuf = s.mvOutBuf \o r /\ t.mvSequence = s.mvSequence + Len(r)
      /\ t.mvFrom = s.mvFrom + Len(r)
      /\ t.mvRetries = s.mvRetries /\ t.mvAddr = s.mvAddr
  BY <1>2, <1>4, <1>7 DEF FillWindow, ChildRecord
<1>10. u = [mvState |-> "SEND_WINDOW", mvSequence |-> s.mvSequence + Len(r),
            mvRetries |-> s.mvRetries, mvAddr |-> s.mvAddr,
            mvWindow |-> s.mvWindow \o r, mvOutBuf |-> s.mvOutBuf \o r,
            mvFrom |-> s.mvFrom + Len(r)]
  BY <1>1, <1>3, <1>8 DEF FillWindow, ChildCore
<1>11. ChildCore(t) = u
  BY <1>9, <1>10 DEF ChildCore
<1>12. ChildReady(p, t) /\ Transferring(t)
  BY <1>2, <1>9, FillWindowIsSound DEF Transferring
<1>13. TrueWindow(t, n)
  BY <1>6, <1>11, <1>12, ChildCoreFacts
<1>14. QED
  BY <1>2, <1>9, <1>13

\* sendWindow: what it sends is a true block, and what is left stays true.
LEMMA PopOutBufIsTrue ==
    ASSUME NEW p, NEW s, ChildReady(p, s), s.mvState = "SEND_WINDOW",
           s.mvOutBuf # <<>>, NEW n \in Nat, TrueWindow(s, n)
    PROVE  LET pkt == Head(s.mvOutBuf)
           IN  /\ TrueWindow(PopOutBuf(s), n)
               /\ pkt = datpkt(pkt.sequence, pkt.sequence)
<1>1. PICK out : out = s.mvOutBuf
  OBVIOUS
<1>2. PICK t : t = PopOutBuf(s)
  OBVIOUS
<1>3. s \in ChildRecord(p) /\ out \in Seq(DataPacket) /\ out # <<>>
  BY <1>1 DEF ChildReady, ChildRecord
<1>4. /\ Len(out) \in Nat /\ Len(out) >= 1 /\ Head(out) = out[1]
      /\ Len(Tail(out)) = Len(out) - 1
      /\ \A i \in 1 .. Len(Tail(out)) : Tail(out)[i] = out[i + 1]
  <2>1. Len(out) \in Nat \ {0}
    BY <1>3, EmptySeq, LenProperties
  <2>2. QED
    BY <2>1, <1>3, HeadTailProperties
<1>5. \A i \in 1 .. Len(out) :
         /\ out[i].sequence < n + WindowSize
         /\ out[i] = datpkt(out[i].sequence, out[i].sequence)
  BY <1>1 DEF TrueWindow, SendsWithin
<1>6. /\ t.mvSequence = s.mvSequence /\ t.mvFrom = s.mvFrom
      /\ t.mvWindow = s.mvWindow /\ t.mvOutBuf = Tail(out)
  BY <1>1, <1>2, <1>3 DEF PopOutBuf, ChildRecord
<1>7. SendsWithin(t, n)
  <2> SUFFICES ASSUME NEW i \in 1 .. Len(Tail(out))
               PROVE  /\ Tail(out)[i].sequence < n + WindowSize
                      /\ Tail(out)[i] = datpkt(Tail(out)[i].sequence,
                                               Tail(out)[i].sequence)
    BY <1>6 DEF SendsWithin
  <2>1. i + 1 \in 1 .. Len(out) /\ Tail(out)[i] = out[i + 1]
    BY <1>4
  <2>2. QED
    BY <2>1, <1>5
<1>8. TrueWindow(t, n)
  BY <1>6, <1>7 DEF TrueWindow, Contiguous, WindowBase
<1>9. Head(out) = datpkt(Head(out).sequence, Head(out).sequence)
  BY <1>4, <1>5
<1>10. QED
  BY <1>1, <1>2, <1>8, <1>9

\* waitRR, with what a client that lacks block n may have sent: it looks at an
\* RR and a REJ only.
LEMMA WaitRRIsTrue ==
    ASSUME FileBelow4GiB, NEW p, NEW s, ChildReady(p, s), s.mvState = "WAIT_RR",
           NEW n \in Nat, n <= LastBlock + 1, TrueWindow(s, n),
           NEW pkt \in ToServer,
           pkt.type = "RR" => pkt.sequence < n,
           pkt.type = "REJ" => pkt.sequence <= n
    PROVE  TrueWindow(WaitRR(s, pkt), n)
<1>1. PICK k : k = ChildCore(s)
  OBVIOUS
<1>2. PICK t : t = WaitRR(s, pkt)
  OBVIOUS
<1>3. s \in ChildRecord(p) /\ Transferring(s) /\ pkt.sequence \in Nat
  BY DEF ChildReady, Transferring, ToServer
<1>4. CASE pkt.type \notin {"RR", "REJ"}
  BY <1>4 DEF WaitRR
<1>5. CASE pkt.type \in {"RR", "REJ"}
  <2>1. GoodChild(ClientSockets, k, n) /\ k.mvState = "WAIT_RR"
    BY <1>1, <1>3, ChildCoreFacts DEF ChildCore
  <2>2. GoodChild(ClientSockets, WaitRR(k, pkt), n)
    BY <1>3, <1>5, <2>1, WaitRRIsGood
  <2>3. PICK front : front = Head(s.mvWindow).sequence
    OBVIOUS
  <2>4. k.mvWindow = s.mvWindow
    BY <1>1 DEF ChildCore
  <2>5. PICK w : w = ShiftWindow(s.mvWindow, pkt.sequence)
    OBVIOUS
  <2>6. ChildCore(t) = WaitRR(k, pkt)
    <3>1. CASE pkt.type = "RR" /\ pkt.sequence >= front
      <4>1. t = [s EXCEPT !.mvState = "FILL_WINDOW", !.mvWindow = w,
                          !.mvRetries = PKT_TRNSMAX]
        BY <1>2, <2>3, <2>5, <3>1 DEF WaitRR
      <4>2. WaitRR(k, pkt) = [k EXCEPT !.mvState = "FILL_WINDOW", !.mvWindow = w,
                                       !.mvRetries = PKT_TRNSMAX]
        BY <2>3, <2>4, <2>5, <3>1 DEF WaitRR
      <4>3. QED
        BY <1>1, <1>3, <4>1, <4>2 DEF ChildCore, ChildRecord
    <3>2. CASE pkt.type = "REJ" /\ pkt.sequence >= front /\ ~(pkt.sequence < front)
      <4>1. t = [s EXCEPT !.mvState = "FILL_WINDOW", !.mvOutBuf = s.mvWindow]
        BY <1>2, <2>3, <3>2 DEF WaitRR
      <4>2. WaitRR(k, pkt) = [k EXCEPT !.mvState = "FILL_WINDOW",
                                       !.mvOutBuf = s.mvWindow]
        BY <2>3, <2>4, <3>2 DEF WaitRR
      <4>3. QED
        BY <1>1, <1>3, <4>1, <4>2 DEF ChildCore, ChildRecord
    <3>3. CASE pkt.type = "REJ" /\ pkt.sequence < front /\ ~(pkt.sequence >= front)
      <4>1. t = [s EXCEPT !.mvState = "FILL_WINDOW", !.mvSequence = pkt.sequence,
                          !.mvFrom = SeekTo(pkt.sequence), !.mvOutBuf = <<>>,
                          !.mvWindow = <<>>]
        BY <1>2, <2>3, <3>3 DEF WaitRR
      <4>2. WaitRR(k, pkt)
               = [k EXCEPT !.mvState = "FILL_WINDOW", !.mvSequence = pkt.sequence,
                           !.mvFrom = SeekTo(pkt.sequence), !.mvOutBuf = <<>>,
                           !.mvWindow = <<>>]
        BY <2>3, <2>4, <3>3 DEF WaitRR
      <4>3. QED
        BY <1>1, <1>3, <4>1, <4>2 DEF ChildCore, ChildRecord
    <3>4. CASE /\ ~(pkt.type = "RR" /\ pkt.sequence >= front)
               /\ ~(pkt.type = "REJ" /\ pkt.sequence >= front)
               /\ ~(pkt.type = "REJ" /\ pkt.sequence < front)
      <4>1. t = s /\ WaitRR(k, pkt) = k
        BY <1>2, <2>3, <2>4, <3>4 DEF WaitRR
      <4>2. QED
        BY <1>1, <4>1
    <3>5. front \in Int
      <4>1. s.mvWindow \in Seq(DataPacket) /\ Len(s.mvWindow) = WindowSize
        BY <1>3 DEF ChildReady, WellFormed, Numbered, FullWhenSending, ChildRecord
      <4>2. s.mvWindow # <<>>
        BY <4>1, WindowAssumption
      <4>3. Head(s.mvWindow) \in DataPacket
        BY <4>1, <4>2, HeadTailProperties
      <4>4. QED
        BY <2>3, <4>3, DataPacketsGoToClients
    <3>6. QED
      BY <1>3, <3>1, <3>2, <3>3, <3>4, <3>5
  <2>7. ChildReady(p, t)
    BY <1>2, WaitRRIsSound
  <2>8. Transferring(t)
    <3>1. ChildCore(t).mvState \notin {"INIT", "DONE", "ERROR"}
      BY <2>2, <2>6 DEF GoodChild
    <3>2. t.mvState = ChildCore(t).mvState
      BY DEF ChildCore
    <3>3. QED
      BY <2>7, <3>1, <3>2 DEF Transferring, ChildReady, ChildRecord
  <2>9. QED
    BY <1>2, <2>2, <2>6, <2>7, <2>8, ChildCoreFacts
<1>6. QED
  BY <1>4, <1>5

\* Server::init sends one RR or REJ of the packet it waited for.  It never goes
\* back, and when it has opened the file its window is true.
InitReplies(s, reply) ==
    /\ \E pkt : /\ reply.out = <<pkt>> /\ pkt.type \in {"RR", "REJ"}
                /\ pkt.sequence = s.mvSequence
    /\ reply.child.mvState = "INIT" =>
          HasTaken(reply.child) /\ reply.child.mvSequence >= s.mvSequence
    /\ Transferring(reply.child) => \A n \in Nat : TrueWindow(reply.child, n)

LEMMA InitEndsServes ==
    ASSUME NEW p, NEW s \in ChildRecord(p), s.mvState = "INIT", WellFormed(s),
           HasTaken(s)
    PROVE  LET t == InitEnds(s, Files)
           IN  /\ t.mvState = "INIT" => HasTaken(t) /\ t.mvSequence = s.mvSequence
               /\ Transferring(t) => \A n \in Nat : TrueWindow(t, n)
<1>0. s.mvRetries \in 0 .. PKT_TRNSMAX /\ PKT_TRNSMAX \in Nat
  BY RetriesAssumption DEF ChildRecord
<1>1. PICK t : t = InitEnds(s, Files)
  OBVIOUS
<1>2. PICK e \in Seq(DataPacket) : e = <<>> /\ Len(e) = 0
  BY EmptySeq
<1>3. CASE t = [s EXCEPT !.mvState = "ERROR"]
  <2>1. t.mvState = "ERROR"
    BY <1>3 DEF ChildRecord
  <2>2. QED
    BY <1>1, <2>1 DEF Transferring
<1>4. CASE t = [s EXCEPT !.mvState = "FILL_WINDOW", !.mvSequence = 0,
                         !.mvRetries = PKT_TRNSMAX]
  <2>1. /\ t.mvState = "FILL_WINDOW" /\ t.mvSequence = 0 /\ t.mvFrom = 0
        /\ t.mvWindow = e /\ t.mvOutBuf = e
    BY <1>2, <1>4 DEF ChildRecord, WellFormed, HasTaken
  <2>2. ASSUME NEW n \in Nat
        PROVE  TrueWindow(t, n)
    <3>0. t.mvSequence = 0 /\ Len(t.mvWindow) = 0
      BY <1>2, <2>1
    <3>1. WindowBase(t) = 0 /\ 0 <= n /\ 0 <= WindowSize
      BY <3>0, WindowAssumption DEF WindowBase
    <3>2. Contiguous(t)
      BY <1>2, <2>1, <3>1 DEF Contiguous
    <3>3. SendsWithin(t, n)
      BY <1>2, <2>1 DEF SendsWithin
    <3>4. QED
      BY <3>1, <3>2, <3>3 DEF TrueWindow
  <2>3. QED
    BY <1>1, <2>1, <2>2
<1>5. CASE t = s
  BY <1>1, <1>5 DEF Transferring
<1>6. QED
  BY <1>0, <1>1, <1>3, <1>4, <1>5 DEF InitEnds

LEMMA ChildInitFailedReplies ==
    ASSUME NEW p, NEW s, ChildReady(p, s), s.mvState = "INIT", HasTaken(s)
    PROVE  InitReplies(s, ChildInitFailed(s, Files))
<1>1. PICK t : t = InitEnds(s, Files)
  OBVIOUS
<1>2. s \in ChildRecord(p) /\ WellFormed(s) /\ s.mvSequence \in Nat
  BY DEF ChildReady, ChildRecord
<1>3. /\ t.mvState = "INIT" => HasTaken(t) /\ t.mvSequence = s.mvSequence
      /\ Transferring(t) => \A n \in Nat : TrueWindow(t, n)
  BY <1>1, <1>2, InitEndsServes
<1>4. ChildInitFailed(s, Files) = [child |-> t, out |-> <<rejpkt(s.mvSequence)>>]
  BY <1>1 DEF ChildInitFailed
<1>5. rejpkt(s.mvSequence).type = "REJ" /\ rejpkt(s.mvSequence).sequence = s.mvSequence
  BY <1>2, ReplyFacts
<1>6. s.mvSequence >= s.mvSequence
  BY <1>2
<1>7. QED
  BY <1>3, <1>4, <1>5, <1>6 DEF InitReplies

LEMMA ChildInitReplies ==
    ASSUME NEW p, NEW s, ChildReady(p, s), s.mvState = "INIT", HasTaken(s),
           s.mvRetries >= 1, NEW pkt \in ToServer,
           pkt.type = "FLN" => pkt.data \in Clients,
           pkt.sequence = s.mvSequence => OfInit(pkt)
    PROVE  InitReplies(s, ChildInit(s, pkt, Files))
<1>1. PICK n : n = s.mvSequence
  OBVIOUS
<1>2. PICK e \in Seq(DataPacket) : e = <<>>
  BY EmptySeq
<1>3. /\ s \in ChildRecord(p) /\ n \in Nat /\ n >= 1 /\ pkt.sequence \in Nat
      /\ s.mvWindow = e /\ s.mvOutBuf = e
      /\ s.mvRetries \in 0 .. PKT_TRNSMAX /\ PKT_TRNSMAX \in 0 .. PKT_TRNSMAX
  BY <1>1, <1>2, RetriesAssumption DEF ChildReady, WellFormed, ChildRecord, ToServer
<1>4. /\ rrpkt(n).type = "RR" /\ rrpkt(n).sequence = n
      /\ rejpkt(n).type = "REJ" /\ rejpkt(n).sequence = n
  BY <1>3, ReplyFacts
<1>5. CASE pkt.sequence = n
  <2>1. PICK h : h = s.have \union ({pkt.type} \cap Wanted)
    OBVIOUS
  <2>2. PICK f : f = IF pkt.type = "FLN" THEN pkt.data ELSE s.mvFromName
    OBVIOUS
  <2>3. PICK m : m = n + 1
    OBVIOUS
  <2>4. PICK t : t = [s EXCEPT !.mvRetries = PKT_TRNSMAX, !.mvSequence = m,
                               !.have = h, !.mvFromName = f]
    OBVIOUS
  <2>5. t = Taken(s, pkt)
    BY <1>1, <2>1, <2>2, <2>3, <2>4 DEF Taken
  <2>6. h \in SUBSET Wanted /\ f \in Clients \union {Fill} /\ m \in Nat /\ m >= 1
    BY <1>3, <2>1, <2>2, <2>3 DEF ChildRecord
  <2>7. /\ t \in ChildRecord(p) /\ t.mvState = "INIT" /\ t.mvSequence = m
        /\ t.mvWindow = e /\ t.mvOutBuf = e /\ t.mvFrom = s.mvFrom /\ t.have = h
    BY <1>3, <2>4, <2>6 DEF ChildRecord
  <2>8. WellFormed(t)
    BY <1>2, <2>6, <2>7 DEF WellFormed, Transferring
  <2>9. PICK u : u = InitEnds(t, Files)
    OBVIOUS
  <2>10. HasTaken(t)
    <3>1. ASSUME NEW k \in 2 .. 4, k < m
          PROVE  InitPacket(k, Fill).type \in h
      <4>1. CASE k < n
        BY <1>1, <2>1, <4>1 DEF HasTaken
      <4>2. CASE k = n
        <5>1. pkt.type = InitPacket(k, Fill).type
          BY <1>1, <1>5, <4>2 DEF OfInit
        <5>2. InitPacket(k, Fill).type \in Wanted
          BY OfInitFacts
        <5>3. QED
          BY <2>1, <5>1, <5>2
      <4>3. QED
        BY <1>3, <2>3, <3>1, <4>1, <4>2
    <3>2. s.mvFrom = 0
      BY DEF HasTaken
    <3>3. QED
      BY <2>7, <3>1, <3>2 DEF HasTaken
  <2>11. /\ u.mvState = "INIT" => HasTaken(u) /\ u.mvSequence = m
         /\ Transferring(u) => \A x \in Nat : TrueWindow(u, x)
    BY <2>7, <2>8, <2>9, <2>10, InitEndsServes
  <2>12. ChildInit(s, pkt, Files) = [child |-> u, out |-> <<rrpkt(n)>>]
    BY <1>1, <1>3, <1>5, <2>5, <2>9 DEF ChildInit
  <2>13. QED
    BY <1>1, <1>3, <1>4, <2>3, <2>11, <2>12 DEF InitReplies
<1>6. CASE pkt.sequence < n
  <2>1. PICK t : t = [s EXCEPT !.mvRetries = PKT_TRNSMAX]
    OBVIOUS
  <2>2. t.mvState = "INIT" /\ t.mvSequence = n /\ HasTaken(t)
    <3>1. /\ t.mvState = "INIT" /\ t.mvSequence = n
          /\ t.mvFrom = s.mvFrom /\ t.have = s.have
      BY <1>1, <1>3, <2>1 DEF ChildRecord
    <3>2. QED
      BY <1>1, <3>1 DEF HasTaken
  <2>3. ChildInit(s, pkt, Files) = [child |-> t, out |-> <<rrpkt(n)>>]
    BY <1>1, <1>3, <1>6, <2>1 DEF ChildInit
  <2>4. QED
    BY <1>1, <1>3, <1>4, <2>2, <2>3 DEF InitReplies, Transferring
<1>7. CASE pkt.sequence > n
  <2>1. PICK m : m = s.mvRetries - 1
    OBVIOUS
  <2>2. PICK t : t = [s EXCEPT !.mvRetries = m]
    OBVIOUS
  <2>3. m \in 0 .. PKT_TRNSMAX
    BY <1>3, <2>1
  <2>4. /\ t \in ChildRecord(p) /\ t.mvState = "INIT" /\ t.mvSequence = n
        /\ t.mvWindow = e /\ t.mvOutBuf = e
        /\ t.mvFrom = s.mvFrom /\ t.have = s.have
    BY <1>1, <1>3, <2>2, <2>3 DEF ChildRecord
  <2>5. WellFormed(t) /\ HasTaken(t)
    BY <1>1, <1>2, <1>3, <2>4 DEF WellFormed, Transferring, HasTaken
  <2>6. PICK u : u = InitEnds(t, Files)
    OBVIOUS
  <2>7. /\ u.mvState = "INIT" => HasTaken(u) /\ u.mvSequence = n
        /\ Transferring(u) => \A x \in Nat : TrueWindow(u, x)
    BY <2>4, <2>5, <2>6, InitEndsServes
  <2>8. ChildInit(s, pkt, Files) = [child |-> u, out |-> <<rejpkt(n)>>]
    BY <1>1, <1>3, <1>7, <2>1, <2>2, <2>6 DEF ChildInit
  <2>9. QED
    BY <1>1, <1>3, <1>4, <2>7, <2>8 DEF InitReplies
<1>8. QED
  BY <1>3, <1>5, <1>6, <1>7

=============================================================================
