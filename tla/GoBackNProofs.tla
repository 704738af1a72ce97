---------------------------- MODULE GoBackNProofs ----------------------------
(***************************************************************************)
(* The safety of the transfer, for every file below 4 GiB, window size,    *)
(* retry count, queue capacity and any number and mixture of faults: IInv  *)
(* of GoBackN is inductive.                                                *)
(***************************************************************************)
EXTENDS GoBackN, HandlerProofs

-----------------------------------------------------------------------------
(* Queues *)

\* Delivering a datagram, or losing it, adds at most its packet, to the
\* addressee's queue only.
LEMMA DeliverFacts ==
    ASSUME NEW queues, AreQueues(queues),
           NEW to \in Sockets, NEW d \in Mail(to), NEW after,
           \/ after = queues
           \/ after = [queues EXCEPT ![to] = Append(@, d)]
    PROVE  /\ AreQueues(after)
           /\ PacketsOf(after[to]) \subseteq PacketsOf(queues[to]) \union {d.pkt}
           /\ \A s \in Sockets \ {to} : after[s] = queues[s]
<1> DEFINE q == queues[to]
<1>1. q \in Seq(Mail(to)) /\ Append(q, d) \in Seq(Mail(to))
  BY AppendProperties DEF AreQueues
<1>2. PacketsOf(Append(q, d)) \subseteq PacketsOf(q) \union {d.pkt}
  <2> SUFFICES ASSUME NEW i \in DOMAIN Append(q, d)
               PROVE  Append(q, d)[i].pkt \in PacketsOf(q) \union {d.pkt}
    BY DEF PacketsOf
  <2>1. i \in 1 .. Len(q) + 1 /\ Len(q) \in Nat /\ DOMAIN q = 1 .. Len(q)
    BY <1>1, AppendProperties, LenProperties
  <2>2. CASE i = Len(q) + 1
    BY <2>2, <1>1, AppendProperties
  <2>3. CASE i \in 1 .. Len(q)
    BY <2>1, <2>3, <1>1, AppendProperties DEF PacketsOf
  <2>4. QED
    BY <2>1, <2>2, <2>3
<1>3. CASE after = [queues EXCEPT ![to] = Append(@, d)]
  <2>1. after[to] = Append(q, d) /\ \A s \in Sockets \ {to} : after[s] = queues[s]
    BY <1>3 DEF AreQueues
  <2>2. AreQueues(after)
    BY <1>1, <1>3, <2>1 DEF AreQueues
  <2>3. QED
    BY <1>2, <2>1, <2>2
<1>4. CASE after = queues
  BY <1>4
<1>5. QED
  BY <1>3, <1>4

\* sendtoErr adds at most the packet or a flipped one, to the addressee's queue
\* only.
LEMMA SendtoErrFacts ==
    ASSUME NEW queues, AreQueues(queues), faults \in Nat,
           NEW from \in Sockets, NEW to \in Sockets, from # to,
           NEW pkt \in TransferPacket,
           SendtoErr(queues, from, to, pkt)
    PROVE  /\ AreQueues(inbox')
           /\ PacketsOf(inbox'[to])
                 \subseteq PacketsOf(queues[to]) \union {pkt, Flipped}
           /\ \A s \in Sockets \ {to} : inbox'[s] = queues[s]
           /\ faults' \in Nat
<1>1. ASSUME NEW p \in {pkt, Flipped},
             inbox' = Deliver(queues, to, Datagram(from, p))
      PROVE  /\ AreQueues(inbox')
             /\ PacketsOf(inbox'[to]) \subseteq PacketsOf(queues[to]) \union {p}
             /\ \A s \in Sockets \ {to} : inbox'[s] = queues[s]
  <2> DEFINE d == Datagram(from, p)
  <2>1. d \in Mail(to) /\ d.pkt = p
    BY ReplyPacketFacts DEF Mail, Datagram
  <2>2. \/ inbox' = queues
        \/ inbox' = [queues EXCEPT ![to] = Append(@, d)]
    BY <1>1 DEF Deliver
  <2> HIDE DEF d
  <2>3. QED
    BY <2>1, <2>2, DeliverFacts
<1>2. CASE inbox' = Deliver(queues, to, Datagram(from, pkt)) /\ UNCHANGED faults
  BY <1>1, <1>2
<1>3. CASE Fault("drop") /\ inbox' = queues
  BY <1>3 DEF Fault
<1>4. CASE Fault("flip") /\ inbox' = Deliver(queues, to, Datagram(from, Flipped))
  BY <1>1, <1>4 DEF Fault
<1>5. QED
  BY <1>2, <1>3, <1>4 DEF SendtoErr

\* recvfrom returns something that was in the queue, from another socket, and
\* adds nothing to any queue.
LEMMA ReceivedFacts ==
    ASSUME AreQueues(inbox), NEW s \in Sockets, Readable(s)
    PROVE  /\ Head(inbox[s]) \in Mail(s)
           /\ Head(inbox[s]).pkt \in PacketsOf(inbox[s])
           /\ AreQueues(Received(s))
           /\ \A t \in Sockets : PacketsOf(Received(s)[t]) \subseteq PacketsOf(inbox[t])
<1> DEFINE q == inbox[s]
<1>1. q \in Seq(Mail(s)) /\ q # <<>>
  BY DEF AreQueues, Readable
<1>2. /\ Head(q) \in Mail(s) /\ Tail(q) \in Seq(Mail(s))
      /\ Len(q) \in Nat /\ Len(q) >= 1
      /\ DOMAIN q = 1 .. Len(q) /\ DOMAIN Tail(q) = 1 .. Len(Tail(q))
      /\ Len(Tail(q)) = Len(q) - 1
      /\ \A i \in 1 .. Len(Tail(q)) : Tail(q)[i] = q[i + 1]
      /\ Head(q) = q[1]
  <2>1. Tail(q) \in Seq(Mail(s)) /\ Len(q) \in Nat \ {0}
    BY <1>1, HeadTailProperties, EmptySeq
  <2>2. QED
    BY <2>1, <1>1, HeadTailProperties, LenProperties
<1>3. Head(q).pkt \in PacketsOf(q)
  BY <1>2 DEF PacketsOf
<1>4. PacketsOf(Tail(q)) \subseteq PacketsOf(q)
  <2> SUFFICES ASSUME NEW i \in 1 .. Len(Tail(q))
               PROVE  Tail(q)[i].pkt \in PacketsOf(q)
    BY <1>2 DEF PacketsOf
  <2>1. i + 1 \in DOMAIN q /\ Tail(q)[i] = q[i + 1]
    BY <1>2
  <2>2. QED
    BY <2>1 DEF PacketsOf
<1>5. AreQueues(Received(s))
  BY <1>2 DEF AreQueues, Received
<1>6. \A t \in Sockets : Received(s)[t] = IF t = s THEN Tail(q) ELSE inbox[t]
  BY DEF AreQueues, Received
<1>7. QED
  BY <1>2, <1>3, <1>4, <1>5, <1>6

\* close and the network's own steps add nothing to any queue.
LEMMA CloseFacts ==
    ASSUME AreQueues(inbox), NEW closed, Close(closed),
           open \in SUBSET Sockets, due \in SUBSET Sockets
    PROVE  /\ AreQueues(inbox')
           /\ \A s \in Sockets : PacketsOf(inbox'[s]) \subseteq PacketsOf(inbox[s])
           /\ open' \in SUBSET Sockets
           /\ due' \in SUBSET Sockets
<1>1. \A s \in Sockets : inbox'[s] = IF s \in closed THEN <<>> ELSE inbox[s]
  BY DEF Close
<1>2. PacketsOf(<<>>) = {}
  BY DEF PacketsOf
<1>3. AreQueues(inbox')
  BY <1>1, EmptySeq DEF AreQueues, Close
<1>4. QED
  BY <1>1, <1>2, <1>3 DEF Close

\* The network's own steps neither add packets nor make them.
LEMMA NetworkStepFacts ==
    ASSUME AreQueues(inbox), NetworkStep(Sockets),
           open \in SUBSET Sockets, due \in SUBSET Sockets, faults \in Nat
    PROVE  /\ AreQueues(inbox')
           /\ \A s \in Sockets : PacketsOf(inbox'[s]) \subseteq PacketsOf(inbox[s])
           /\ open' \in SUBSET Sockets
           /\ due' \in SUBSET Sockets
           /\ faults' \in Nat
<1>1. CASE Duplicate
  <2>0. PICK s \in Sockets : \E i \in DOMAIN inbox[s] :
           inbox' = [inbox EXCEPT ![s] = Append(@, inbox[s][i])]
    BY <1>1 DEF Duplicate
  <2>1. PICK i \in DOMAIN inbox[s] :
           inbox' = [inbox EXCEPT ![s] = Append(@, inbox[s][i])]
    BY <2>0
  <2>2. inbox[s] \in Seq(Mail(s))
    BY DEF AreQueues
  <2>3. inbox[s][i] \in Mail(s) /\ inbox[s][i].pkt \in PacketsOf(inbox[s])
    BY <2>2, ElementOfSeq, LenProperties DEF PacketsOf
  <2>4. /\ AreQueues(inbox')
        /\ PacketsOf(inbox'[s])
              \subseteq PacketsOf(inbox[s]) \union {inbox[s][i].pkt}
        /\ \A t \in Sockets \ {s} : inbox'[t] = inbox[t]
    <3> DEFINE d == inbox[s][i]
    <3>1. /\ d \in Mail(s)
          /\ \/ inbox' = inbox
             \/ inbox' = [inbox EXCEPT ![s] = Append(@, d)]
      BY <2>1, <2>3
    <3> HIDE DEF d
    <3>2. /\ AreQueues(inbox')
          /\ PacketsOf(inbox'[s]) \subseteq PacketsOf(inbox[s]) \union {d.pkt}
          /\ \A t \in Sockets \ {s} : inbox'[t] = inbox[t]
      BY <3>1, DeliverFacts
    <3>3. QED
      BY <3>2 DEF d
  <2>5. \A t \in Sockets : PacketsOf(inbox'[t]) \subseteq PacketsOf(inbox[t])
    BY <2>3, <2>4
  <2>6. faults' \in Nat /\ UNCHANGED <<open, due>>
    BY <1>1 DEF Duplicate, Fault
  <2>7. QED
    BY <2>4, <2>5, <2>6
<1>2. CASE Reorder
  <2>0. PICK s \in Sockets : \E i, j \in DOMAIN inbox[s] :
           inbox' = [inbox EXCEPT ![s] =
                        [@ EXCEPT ![i] = inbox[s][j], ![j] = inbox[s][i]]]
    BY <1>2 DEF Reorder
  <2>1. PICK i, j \in DOMAIN inbox[s] :
           inbox' = [inbox EXCEPT ![s] =
                        [@ EXCEPT ![i] = inbox[s][j], ![j] = inbox[s][i]]]
    BY <2>0
  <2> DEFINE q == inbox[s]
             r == [q EXCEPT ![i] = q[j], ![j] = q[i]]
  <2>2. /\ q \in [1 .. Len(q) -> Mail(s)] /\ Len(q) \in Nat
        /\ DOMAIN q = 1 .. Len(q)
    BY LenProperties DEF AreQueues
  <2>3. r \in [1 .. Len(q) -> Mail(s)]
    BY <2>2
  <2>4. r \in Seq(Mail(s))
    BY <2>2, <2>3, SeqDef
  <2>5. PacketsOf(r) \subseteq PacketsOf(q)
    BY <2>2 DEF PacketsOf
  <2> HIDE DEF r
  <2>6. \A t \in Sockets : inbox'[t] = IF t = s THEN r ELSE inbox[t]
    BY <2>1 DEF AreQueues, r
  <2>7. AreQueues(inbox')
    BY <2>1, <2>4, <2>6 DEF AreQueues
  <2>8. QED
    BY <1>2, <2>5, <2>6, <2>7 DEF Reorder, Fault
<1>3. CASE Late(Sockets)
  BY <1>3 DEF Late, Fault
<1>4. QED
  BY <1>1, <1>2, <1>3 DEF NetworkStep

-----------------------------------------------------------------------------
(* The inductive invariant, in the shape the steps' proofs use: each part   *)
(* is about one process, one queue, or the network's bookkeeping.           *)

GoodClient ==
    /\ client \in ClientType({ChildSocket})
    /\ client.mvState # "INIT"
    /\ HasPrefix(client)
    /\ KnowsTheEnd(client)

\* Packets a client that expects block n may find, and packets it may have sent.
DataFor(n, pkts) ==
    \A pkt \in pkts : Intact(pkt) => /\ pkt.sequence < n + WindowSize
                                     /\ pkt = datpkt(pkt.sequence, pkt.sequence)
AcksFrom(n, pkts) ==
    \A pkt \in pkts : \/ pkt.type = "RR" /\ pkt.sequence < n
                      \/ pkt.type = "REJ" /\ pkt.sequence <= n
                      \/ ~Intact(pkt)

GoodNetwork ==
    /\ AreQueues(inbox)
    /\ open \in SUBSET Sockets
    /\ due \in SUBSET Sockets
    /\ faults \in Nat
    /\ DataFor(client.mvSequence, PacketsOf(inbox[ClientSocket]))
    /\ AcksFrom(client.mvSequence, PacketsOf(inbox[ChildSocket]))

Good ==
    /\ GoodClient
    /\ GoodChild({ClientSocket}, child, client.mvSequence)
    /\ GoodNetwork

\* Good is IInv, rearranged.
LEMMA GoodIsIInv == Good <=> IInv
  BY DEF Good, GoodClient, GoodNetwork, GoodChild, DataFor, AcksFrom, IInv, TypeOK,
         FileIsPrefix, DoneMeansWholeFile, WindowStaysReachable,
         WindowIsContiguous, FlowControl, AcksAreTrue

\* There are two sockets, and each is all the other one can hear from.
LEMMA SocketFacts ==
    /\ ClientSocket \in Sockets /\ ChildSocket \in Sockets
    /\ ClientSocket # ChildSocket
    /\ Sockets \ {ClientSocket} = {ChildSocket}
    /\ Sockets \ {ChildSocket} = {ClientSocket}
  BY SocketAssumption

\* The network stays good when queues shrink and the client advances.
LEMMA GoodNetworkShrinks ==
    ASSUME Good,
           AreQueues(inbox'), open' \in SUBSET Sockets, due' \in SUBSET Sockets,
           faults' \in Nat,
           client'.mvSequence \in Nat, client'.mvSequence >= client.mvSequence,
           PacketsOf(inbox'[ClientSocket]) \subseteq PacketsOf(inbox[ClientSocket]),
           \A pkt \in PacketsOf(inbox'[ChildSocket]) :
              \/ pkt \in PacketsOf(inbox[ChildSocket])
              \/ Truthful(client', pkt)
              \/ pkt = Flipped
    PROVE  GoodNetwork'
<1> DEFINE m == client.mvSequence
           n == client'.mvSequence
<1>0. m \in Nat /\ n \in Nat /\ m <= n /\ WindowSize \in Nat
  BY WindowAssumption DEF Good, GoodClient, ClientType
<1>1. \A s \in Sockets : \A pkt \in PacketsOf(inbox'[s]) : pkt \in TransferPacket
  <2> SUFFICES ASSUME NEW s \in Sockets, NEW i \in DOMAIN inbox'[s]
               PROVE  inbox'[s][i].pkt \in TransferPacket
    BY DEF PacketsOf
  <2>1. inbox'[s] \in Seq(Mail(s))
    BY DEF AreQueues
  <2>2. inbox'[s][i] \in Mail(s)
    BY <2>1, ElementOfSeq, LenProperties
  <2>3. QED
    BY <2>2 DEF Mail
<1>2. DataFor(n, PacketsOf(inbox'[ClientSocket]))
  <2> SUFFICES ASSUME NEW pkt \in PacketsOf(inbox'[ClientSocket]), Intact(pkt)
               PROVE  /\ pkt.sequence < n + WindowSize
                      /\ pkt = datpkt(pkt.sequence, pkt.sequence)
    BY DEF DataFor
  <2>1. /\ pkt.sequence < m + WindowSize
        /\ pkt = datpkt(pkt.sequence, pkt.sequence)
    BY DEF Good, GoodNetwork, DataFor
  <2>2. pkt.sequence \in Nat
    BY <1>1, SocketFacts DEF TransferPacket, PacketOf
  <2>3. QED
    BY <1>0, <2>1, <2>2
<1>3. AcksFrom(n, PacketsOf(inbox'[ChildSocket]))
  <2> SUFFICES ASSUME NEW pkt \in PacketsOf(inbox'[ChildSocket]), Intact(pkt)
               PROVE  \/ pkt.type = "RR" /\ pkt.sequence < n
                      \/ pkt.type = "REJ" /\ pkt.sequence <= n
    BY DEF AcksFrom
  <2>1. pkt.sequence \in Nat
    BY <1>1, SocketFacts DEF TransferPacket, PacketOf
  <2>2. CASE pkt \in PacketsOf(inbox[ChildSocket])
    <3>1. \/ pkt.type = "RR" /\ pkt.sequence < m
          \/ pkt.type = "REJ" /\ pkt.sequence <= m
      BY <2>2 DEF Good, GoodNetwork, AcksFrom
    <3>2. QED
      BY <1>0, <2>1, <3>1
  <2>3. CASE Truthful(client', pkt)
    BY <2>3 DEF Truthful
  <2>4. QED
    BY <2>2, <2>3, ReplyPacketFacts
<1>4. QED
  BY <1>2, <1>3 DEF GoodNetwork

\* A good outcome of a client's handler, sent over the queues it left, is good.
LEMMA ClientOutcomeIsGood ==
    ASSUME Good,
           NEW reply, GoodOutcome({ChildSocket}, client, reply),
           NEW queues, AreQueues(queues),
           \A s \in Sockets : PacketsOf(queues[s]) \subseteq PacketsOf(inbox[s]),
           client' = reply.client, ClientSends(queues, reply),
           child' = child, open' \in SUBSET Sockets, due' \in SUBSET Sockets
    PROVE  Good'
<1>1. GoodClient' /\ client'.mvSequence >= client.mvSequence
  BY DEF GoodOutcome, GoodClient
<1>2. GoodChild({ClientSocket}, child, client'.mvSequence)
  <2>1. client.mvSequence \in Nat /\ client'.mvSequence \in Nat
    BY <1>1 DEF Good, GoodClient, ClientType
  <2>2. QED
    BY <1>1, <2>1, GoodChildGrows DEF Good
<1>3. client'.mvSequence \in Nat
  BY <1>1 DEF GoodClient, ClientType
<1>4. GoodNetwork'
  <2>1. CASE reply.out = <<>>
    <3>1. inbox' = queues /\ faults' = faults
      BY <2>1 DEF ClientSends
    <3>2. faults' \in Nat
      BY <3>1 DEF Good, GoodNetwork
    <3>3. QED
      BY <3>1, <3>2, <1>1, <1>3, SocketFacts, GoodNetworkShrinks
  <2>2. CASE reply.out # <<>>
    <3> DEFINE pkt == Head(reply.out)
    <3>1. Truthful(client', pkt)
      BY <2>2 DEF GoodOutcome
    <3>2. pkt \in TransferPacket /\ client'.mvAddr = ChildSocket
      BY <3>1, <1>1 DEF Truthful, GoodClient, ClientType
    <3>3. SendtoErr(queues, ClientSocket, ChildSocket, pkt)
      BY <2>2, <3>2 DEF ClientSends
    <3> HIDE DEF pkt
    <3>4. /\ AreQueues(inbox') /\ faults' \in Nat
          /\ PacketsOf(inbox'[ChildSocket])
                \subseteq PacketsOf(queues[ChildSocket]) \union {pkt, Flipped}
          /\ inbox'[ClientSocket] = queues[ClientSocket]
      BY <3>2, <3>3, SocketFacts, SendtoErrFacts DEF Good, GoodNetwork
    <3>5. QED
      BY <3>1, <3>4, <1>1, <1>3, SocketFacts, GoodNetworkShrinks
  <2>3. QED
    BY <2>1, <2>2
<1>5. QED
  BY <1>1, <1>2, <1>4 DEF Good

\* The steps of rcopy.
LEMMA ClientReceivesIsGood == Good /\ ClientReceives => Good'
<1> SUFFICES ASSUME Good, ClientReceives
             PROVE  Good'
  OBVIOUS
<1> DEFINE d == Head(inbox[ClientSocket])
           c == ClientReceived(client, d)
           reply == IF Intact(d.pkt) THEN RecvPackets(c, d.pkt)
                                     ELSE RecvPacketsFailed(c)
           queues == Received(ClientSocket)
<1>1. /\ AreQueues(inbox) /\ Readable(ClientSocket)
      /\ client \in ClientType({ChildSocket}) /\ HasPrefix(client)
      /\ KnowsTheEnd(client) /\ client.mvState # "INIT"
      /\ open \in SUBSET Sockets /\ due \in SUBSET Sockets
  BY DEF Good, GoodClient, GoodNetwork, ClientReceives
<1>2. client.mvState = "RECV_PACKETS"
  BY <1>1 DEF ClientReceives, ClientRunning, ClientType
<1>3. /\ d \in Mail(ClientSocket) /\ d.pkt \in PacketsOf(inbox[ClientSocket])
      /\ AreQueues(queues)
      /\ \A s \in Sockets : PacketsOf(queues[s]) \subseteq PacketsOf(inbox[s])
  BY <1>1, SocketFacts, ReceivedFacts
<1>4. d.from \in {ChildSocket} /\ d.pkt.sequence \in Nat
  BY <1>3, SocketFacts DEF Mail, TransferPacket, PacketOf
<1>5. client' = reply.client /\ ClientSends(queues, reply) /\ child' = child
  BY DEF ClientReceives
<1>6. open' \in SUBSET Sockets /\ due' \in SUBSET Sockets
  BY <1>1 DEF ClientReceives
<1> HIDE DEF d, queues
<1>7. /\ c \in ClientType({ChildSocket}) /\ c.mvState = client.mvState
      /\ c.mvSequence = client.mvSequence /\ c.mvTo = client.mvTo
  BY <1>1, <1>4, ClientReceivedFacts
<1> HIDE DEF c
<1>8. HasPrefix(c) /\ KnowsTheEnd(c)
  BY <1>1, <1>7 DEF HasPrefix, KnowsTheEnd
<1>9. GoodOutcome({ChildSocket}, c, reply)
  <2>1. CASE Intact(d.pkt)
    <3>1. d.pkt = datpkt(d.pkt.sequence, d.pkt.sequence)
      BY <2>1, <1>3 DEF Good, GoodNetwork, DataFor
    <3>2. GoodOutcome({ChildSocket}, c,
                      RecvPackets(c, datpkt(d.pkt.sequence, d.pkt.sequence)))
      BY <1>2, <1>4, <1>7, <1>8, RecvPacketsIsGood
    <3>3. QED
      BY <2>1, <3>1, <3>2
  <2>2. CASE ~Intact(d.pkt)
    BY <2>2, <1>1, <1>7, <1>8, RecvPacketsFailedIsGood
  <2>3. QED
    BY <2>1, <2>2
<1> HIDE DEF reply
<1>10. GoodOutcome({ChildSocket}, client, reply)
  BY <1>7, <1>9 DEF GoodOutcome
<1>11. QED
  BY <1>3, <1>5, <1>6, <1>10, ClientOutcomeIsGood

\* A timeout of rcopy preserves the invariant: the REJ it sends names mvSequence.
LEMMA ClientTimesOutIsGood == Good /\ ClientTimesOut => Good'
<1> SUFFICES ASSUME Good, ClientTimesOut
             PROVE  Good'
  OBVIOUS
<1> DEFINE c == ClientTimedOut(client)
           reply == RecvPacketsFailed(c)
<1>1. /\ AreQueues(inbox) /\ ClientRunning(client)
      /\ client \in ClientType({ChildSocket}) /\ HasPrefix(client)
      /\ KnowsTheEnd(client) /\ client.mvState # "INIT"
      /\ open \in SUBSET Sockets /\ due \in SUBSET Sockets
  BY DEF Good, GoodClient, GoodNetwork, ClientTimesOut
<1>2. /\ client' = reply.client /\ ClientSends(inbox, reply) /\ child' = child
      /\ open' \in SUBSET Sockets /\ due' \in SUBSET Sockets
  BY <1>1 DEF ClientTimesOut
<1>3. /\ c \in ClientType({ChildSocket}) /\ c.mvState = client.mvState
      /\ c.mvSequence = client.mvSequence /\ c.mvTo = client.mvTo
  BY <1>1, ClientTimedOutFacts
<1> HIDE DEF c
<1>4. HasPrefix(c) /\ KnowsTheEnd(c)
  BY <1>1, <1>3 DEF HasPrefix, KnowsTheEnd
<1>5. GoodOutcome({ChildSocket}, c, reply)
  BY <1>1, <1>3, <1>4, RecvPacketsFailedIsGood
<1> HIDE DEF reply
<1>6. GoodOutcome({ChildSocket}, client, reply)
  BY <1>3, <1>5 DEF GoodOutcome
<1>7. QED
  BY <1>1, <1>2, <1>6, ClientOutcomeIsGood

\* Closing the socket of rcopy empties its queue and changes nothing else.
LEMMA ClientExitsIsGood == Good /\ ClientExits => Good'
<1> SUFFICES ASSUME Good, ClientExits
             PROVE  Good'
  OBVIOUS
<1>1. /\ client' = client /\ child' = child /\ faults' = faults
      /\ Close({ClientSocket})
  BY DEF ClientExits
<1>2. GoodNetwork'
  <2>1. /\ AreQueues(inbox')
        /\ \A s \in Sockets : PacketsOf(inbox'[s]) \subseteq PacketsOf(inbox[s])
        /\ open' \in SUBSET Sockets /\ due' \in SUBSET Sockets
    BY <1>1, CloseFacts DEF Good, GoodNetwork
  <2>2. /\ faults' \in Nat
        /\ client'.mvSequence \in Nat /\ client'.mvSequence >= client.mvSequence
    BY <1>1 DEF Good, GoodNetwork, GoodClient, ClientType
  <2>3. QED
    BY <2>1, <2>2, SocketFacts, GoodNetworkShrinks
<1>3. QED
  BY <1>1, <1>2 DEF Good, GoodClient

\* Interrupting rcopy preserves the invariant: its file stays a prefix.
LEMMA ClientKilledIsGood == Good /\ ClientKilled => Good'
<1> SUFFICES ASSUME Good, ClientKilled
             PROVE  Good'
  OBVIOUS
<1>1. /\ client' = [client EXCEPT !.mvState = "ERROR"] /\ child' = child
      /\ faults' = faults + 1 /\ Close({ClientSocket})
  BY DEF ClientKilled, Fault
<1>2. /\ client' \in ClientType({ChildSocket}) /\ client'.mvState = "ERROR"
      /\ client'.mvSequence = client.mvSequence /\ client'.mvTo = client.mvTo
      /\ client.mvSequence \in Nat
  BY <1>1 DEF Good, GoodClient, ClientType
<1>3. GoodNetwork'
  <2>1. /\ AreQueues(inbox')
        /\ \A s \in Sockets : PacketsOf(inbox'[s]) \subseteq PacketsOf(inbox[s])
        /\ open' \in SUBSET Sockets /\ due' \in SUBSET Sockets
    BY <1>1, CloseFacts DEF Good, GoodNetwork
  <2>2. /\ faults' \in Nat
        /\ client'.mvSequence \in Nat /\ client'.mvSequence >= client.mvSequence
    BY <1>1, <1>2 DEF Good, GoodNetwork
  <2>3. QED
    BY <2>1, <2>2, SocketFacts, GoodNetworkShrinks
<1>4. GoodClient'
  BY <1>2 DEF Good, GoodClient, HasPrefix, KnowsTheEnd
<1>5. QED
  BY <1>1, <1>2, <1>3, <1>4 DEF Good

\* A child step that leaves the child good and sends nothing is good.
LEMMA ChildStepIsGood ==
    ASSUME Good,
           client' = client,
           GoodChild({ClientSocket}, child', client.mvSequence),
           AreQueues(inbox'),
           \A s \in Sockets : PacketsOf(inbox'[s]) \subseteq PacketsOf(inbox[s]),
           open' \in SUBSET Sockets, due' \in SUBSET Sockets, faults' \in Nat
    PROVE  Good'
<1>1. client'.mvSequence \in Nat /\ client'.mvSequence >= client.mvSequence
  BY DEF Good, GoodClient, ClientType
<1>2. GoodNetwork'
  BY <1>1, SocketFacts, GoodNetworkShrinks
<1>3. QED
  BY <1>2 DEF Good, GoodClient

\* The steps of the child.
LEMMA ChildFillsWindowIsGood == Good /\ ChildFillsWindow => Good'
<1> SUFFICES ASSUME Good, ChildFillsWindow
             PROVE  Good'
  OBVIOUS
<1>1. client.mvSequence \in Nat /\ GoodChild({ClientSocket}, child, client.mvSequence)
  BY DEF Good, GoodClient, ClientType
<1>2. GoodChild({ClientSocket}, FillWindow(child), client.mvSequence)
  BY <1>1, FillWindowIsGood
<1>3. QED
  BY <1>2, ChildStepIsGood DEF ChildFillsWindow, Good, GoodNetwork

\* Sending the front of mvOutBuf preserves the invariant, whatever becomes of it.
LEMMA ChildSendsIsGood == Good /\ ChildSends => Good'
<1> SUFFICES ASSUME Good, ChildSends
             PROVE  Good'
  OBVIOUS
<1> DEFINE pkt == Head(child.mvOutBuf)
           n == client.mvSequence
           out == child.mvOutBuf
<1>1. /\ GoodChild({ClientSocket}, child, n) /\ n \in Nat
      /\ AreQueues(inbox) /\ faults \in Nat
      /\ child.mvAddr = ClientSocket
      /\ out \in Seq(DataPacket) /\ out # <<>>
  BY DEF Good, GoodClient, GoodNetwork, ClientType, GoodChild, ServerType, ChildSends
<1>2. /\ client' = client /\ child' = PopOutBuf(child)
      /\ open' = open /\ due' = due
      /\ SendtoErr(inbox, ChildSocket, ClientSocket, pkt)
  BY <1>1 DEF ChildSends
<1>3. /\ Len(out) \in Nat /\ Len(out) >= 1 /\ pkt = out[1] /\ pkt \in DataPacket
      /\ Tail(out) \in Seq(DataPacket) /\ Len(Tail(out)) = Len(out) - 1
      /\ \A i \in 1 .. Len(Tail(out)) : Tail(out)[i] = out[i + 1]
  <2>1. Len(out) \in Nat \ {0}
    BY <1>1, EmptySeq, LenProperties
  <2>2. QED
    BY <2>1, <1>1, HeadTailProperties
<1>4. pkt.sequence < n + WindowSize /\ pkt = datpkt(pkt.sequence, pkt.sequence)
  BY <1>1, <1>3 DEF GoodChild, SendsWithin
<1>5. GoodChild({ClientSocket}, child', n)
  <2>1. /\ child' \in ServerType({ClientSocket})
        /\ child'.mvState = child.mvState /\ child'.mvSequence = child.mvSequence
        /\ child'.mvFrom = child.mvFrom /\ child'.mvWindow = child.mvWindow
        /\ child'.mvOutBuf = Tail(out)
    BY <1>1, <1>2, <1>3 DEF PopOutBuf, GoodChild, ServerType
  <2>2. SendsWithin(child', n)
    <3> SUFFICES ASSUME NEW i \in 1 .. Len(Tail(out))
                 PROVE  /\ Tail(out)[i].sequence < n + WindowSize
                        /\ Tail(out)[i] = datpkt(Tail(out)[i].sequence,
                                                 Tail(out)[i].sequence)
      BY <2>1 DEF SendsWithin
    <3>1. i + 1 \in 1 .. Len(out) /\ Tail(out)[i] = out[i + 1]
      BY <1>3
    <3>2. QED
      BY <3>1, <1>1 DEF GoodChild, SendsWithin
  <2>3. QED
    BY <1>1, <2>1, <2>2
    DEF GoodChild, Contiguous, WindowBase, FullWhenSending
<1> HIDE DEF pkt, out
<1>6. /\ AreQueues(inbox') /\ faults' \in Nat
      /\ PacketsOf(inbox'[ClientSocket])
            \subseteq PacketsOf(inbox[ClientSocket]) \union {pkt, Flipped}
      /\ inbox'[ChildSocket] = inbox[ChildSocket]
  BY <1>1, <1>2, <1>3, SocketFacts, SendtoErrFacts, ReplyPacketFacts
<1>7. DataFor(n, PacketsOf(inbox'[ClientSocket]))
  BY <1>4, <1>6, ReplyPacketFacts DEF DataFor, Good, GoodNetwork
<1>8. GoodNetwork'
  BY <1>2, <1>6, <1>7 DEF Good, GoodNetwork
<1>9. QED
  BY <1>2, <1>5, <1>8 DEF Good, GoodClient

\* Going over to WAIT_RR preserves the invariant: the window is full.
LEMMA ChildHasSentIsGood == Good /\ ChildHasSent => Good'
<1> SUFFICES ASSUME Good, ChildHasSent
             PROVE  Good'
  OBVIOUS
<1> DEFINE n == client.mvSequence
           s == [child EXCEPT !.mvState = "WAIT_RR"]
<1>1. GoodChild({ClientSocket}, child, n) /\ child' = s
  BY DEF Good, ChildHasSent
<1>2. /\ s \in ServerType({ClientSocket}) /\ s.mvState = "WAIT_RR"
      /\ s.mvSequence = child.mvSequence /\ s.mvFrom = child.mvFrom
      /\ s.mvWindow = child.mvWindow /\ s.mvOutBuf = child.mvOutBuf
      /\ child.mvState = "SEND_WINDOW"
  BY <1>1 DEF GoodChild, ServerType, ChildHasSent
<1> HIDE DEF s
<1>3. GoodChild({ClientSocket}, s, n)
  BY <1>1, <1>2
  DEF GoodChild, Contiguous, WindowBase, FullWhenSending, SendsWithin
<1>4. QED
  BY <1>1, <1>3, ChildStepIsGood DEF ChildHasSent, Good, GoodNetwork

\* waitRR preserves the invariant: what reaches it is true of the client.
LEMMA ChildReceivesIsGood ==
    ASSUME FileBelow4GiB
    PROVE  Good /\ ChildReceives => Good'
<1> SUFFICES ASSUME Good, ChildReceives
             PROVE  Good'
  OBVIOUS
<1> DEFINE n == client.mvSequence
           d == Head(inbox[ChildSocket])
           s == ChildReceived(child, d)
<1>1. /\ GoodChild({ClientSocket}, child, n) /\ n \in Nat /\ n <= LastBlock + 1
      /\ AreQueues(inbox) /\ Readable(ChildSocket) /\ child.mvState = "WAIT_RR"
      /\ open \in SUBSET Sockets /\ due \in SUBSET Sockets /\ faults \in Nat
  BY DEF Good, GoodClient, GoodNetwork, ClientType, KnowsTheEnd, ChildReceives
<1>2. /\ client' = client /\ inbox' = Received(ChildSocket)
      /\ open' = open /\ due' = due \ {ChildSocket} /\ faults' = faults
      /\ child' = IF Intact(d.pkt) THEN WaitRR(s, d.pkt) ELSE WaitRRFailed(s)
  BY DEF ChildReceives
<1>3. /\ d \in Mail(ChildSocket) /\ d.pkt \in PacketsOf(inbox[ChildSocket])
      /\ AreQueues(inbox')
      /\ \A t \in Sockets : PacketsOf(inbox'[t]) \subseteq PacketsOf(inbox[t])
  BY <1>1, <1>2, SocketFacts, ReceivedFacts
<1>4. d.from \in {ClientSocket} /\ d.pkt.sequence \in Nat
  BY <1>3, SocketFacts DEF Mail, TransferPacket, PacketOf
<1> HIDE DEF d
<1>5. GoodChild({ClientSocket}, s, n) /\ s.mvState = "WAIT_RR"
  <2>1. /\ s \in ServerType({ClientSocket})
        /\ s.mvState = child.mvState /\ s.mvSequence = child.mvSequence
        /\ s.mvFrom = child.mvFrom /\ s.mvWindow = child.mvWindow
        /\ s.mvOutBuf = child.mvOutBuf
    BY <1>1, <1>4, ChildReceivedFacts DEF GoodChild
  <2> HIDE DEF s
  <2>2. QED
    BY <1>1, <2>1, GoodChildDepends
<1> HIDE DEF s
<1>6. GoodChild({ClientSocket}, child', n)
  <2>1. CASE Intact(d.pkt)
    <3>1. \/ d.pkt.type = "RR" /\ d.pkt.sequence < n
          \/ d.pkt.type = "REJ" /\ d.pkt.sequence <= n
      BY <2>1, <1>3 DEF Good, GoodNetwork, AcksFrom
    <3>2. GoodChild({ClientSocket}, WaitRR(s, d.pkt), n)
      BY <3>1, <1>1, <1>4, <1>5, WaitRRIsGood
    <3>3. QED
      BY <2>1, <3>2, <1>2
  <2>2. CASE ~Intact(d.pkt)
    BY <2>2, <1>2, <1>5, WaitRRFailedIsGood
  <2>3. QED
    BY <2>1, <2>2
<1>7. open' \in SUBSET Sockets /\ due' \in SUBSET Sockets /\ faults' \in Nat
  BY <1>1, <1>2
<1>8. QED
  BY <1>2, <1>3, <1>6, <1>7, ChildStepIsGood

\* A timeout in waitRR preserves the invariant.
LEMMA ChildTimesOutIsGood == Good /\ ChildTimesOut => Good'
<1> SUFFICES ASSUME Good, ChildTimesOut
             PROVE  Good'
  OBVIOUS
<1> DEFINE n == client.mvSequence
           s == ChildTimedOut(child)
<1>1. /\ GoodChild({ClientSocket}, child, n) /\ ChildRunning(child)
      /\ AreQueues(inbox) /\ open \in SUBSET Sockets /\ due \in SUBSET Sockets
      /\ faults \in Nat
  BY DEF Good, GoodNetwork, ChildTimesOut
<1>2. /\ client' = client /\ inbox' = inbox /\ open' = open
      /\ due' = due \ {ChildSocket} /\ faults' = faults
      /\ child' = WaitRRFailed(s)
  BY DEF ChildTimesOut
<1>3. GoodChild({ClientSocket}, s, n)
  <2>1. /\ s \in ServerType({ClientSocket})
        /\ s.mvState = child.mvState /\ s.mvSequence = child.mvSequence
        /\ s.mvFrom = child.mvFrom /\ s.mvWindow = child.mvWindow
        /\ s.mvOutBuf = child.mvOutBuf
    BY <1>1, ChildTimedOutFacts DEF GoodChild
  <2> HIDE DEF s
  <2>2. QED
    BY <1>1, <2>1, GoodChildDepends
<1> HIDE DEF s
<1>4. GoodChild({ClientSocket}, child', n)
  BY <1>2, <1>3, WaitRRFailedIsGood
<1>5. QED
  BY <1>1, <1>2, <1>4, ChildStepIsGood

\* Closing the child's socket empties its queue and changes nothing else.
LEMMA ChildExitsIsGood == Good /\ ChildExits => Good'
<1> SUFFICES ASSUME Good, ChildExits
             PROVE  Good'
  OBVIOUS
<1>1. /\ client' = client /\ child' = child /\ faults' = faults
      /\ Close({ChildSocket})
  BY DEF ChildExits
<1>2. /\ AreQueues(inbox')
      /\ \A s \in Sockets : PacketsOf(inbox'[s]) \subseteq PacketsOf(inbox[s])
      /\ open' \in SUBSET Sockets /\ due' \in SUBSET Sockets
  BY <1>1, CloseFacts DEF Good, GoodNetwork
<1>3. QED
  BY <1>1, <1>2, ChildStepIsGood DEF Good, GoodNetwork

\* The steps that are neither's.
LEMMA TickIsGood == Good /\ Tick => Good'
<1> SUFFICES ASSUME Good, Tick
             PROVE  Good'
  OBVIOUS
<1>1. /\ client' = client /\ child' = child /\ inbox' = inbox /\ open' = open
      /\ due' = open /\ faults' = faults
  BY DEF Tick, SecondPasses
<1>2. QED
  BY <1>1, ChildStepIsGood DEF Good, GoodNetwork

\* Duplication, reordering and delay preserve the invariant.
LEMMA NetworkActsIsGood == Good /\ NetworkActs => Good'
<1> SUFFICES ASSUME Good, NetworkActs
             PROVE  Good'
  OBVIOUS
<1>1. /\ client' = client /\ child' = child /\ NetworkStep(Sockets)
  BY DEF NetworkActs
<1>2. /\ AreQueues(inbox')
      /\ \A s \in Sockets : PacketsOf(inbox'[s]) \subseteq PacketsOf(inbox[s])
      /\ open' \in SUBSET Sockets /\ due' \in SUBSET Sockets /\ faults' \in Nat
  BY <1>1, NetworkStepFacts DEF Good, GoodNetwork
<1>3. QED
  BY <1>1, <1>2, ChildStepIsGood DEF Good

\* A step that changes nothing preserves the invariant.
LEMMA StutterIsGood == Good /\ UNCHANGED vars => Good'
  BY DEF Good, GoodClient, GoodNetwork, vars

-----------------------------------------------------------------------------
(* The theorems *)

\* The invariant holds where both processes have left init().
LEMMA InitIsGood == Init => Good
<1> SUFFICES ASSUME Init
             PROVE  Good
  OBVIOUS
<1>1. <<>> \in Seq(DataPacket) /\ <<>> \in Seq(Int) /\ Len(<<>>) = 0
  BY EmptySeq
<1>2. GoodClient
  BY <1>1, RetriesAssumption, FileAssumption
  DEF Init, GoodClient, ClientType, HasPrefix, KnowsTheEnd
<1>3. GoodChild({ClientSocket}, child, client.mvSequence)
  BY <1>1, RetriesAssumption, WindowAssumption
  DEF Init, GoodChild, ServerType, Contiguous, WindowBase, FullWhenSending,
      SendsWithin
<1>4. GoodNetwork
  <2>1. \A s \in Sockets : inbox[s] = <<>>
    BY DEF Init, NetworkInit
  <2>2. \A s \in Sockets : PacketsOf(inbox[s]) = {}
    BY <2>1 DEF PacketsOf
  <2>3. AreQueues(inbox)
    BY <2>1, EmptySeq DEF AreQueues, Init, NetworkInit
  <2>4. QED
    BY <2>2, <2>3, SocketFacts
    DEF GoodNetwork, DataFor, AcksFrom, Init, NetworkInit
<1>5. QED
  BY <1>2, <1>3, <1>4 DEF Good

\* Every step preserves the invariant.
LEMMA NextIsGood ==
    ASSUME FileBelow4GiB
    PROVE  Good /\ [Next]_vars => Good'
  BY ClientReceivesIsGood, ClientTimesOutIsGood, ClientExitsIsGood,
     ClientKilledIsGood, ChildFillsWindowIsGood, ChildSendsIsGood,
     ChildHasSentIsGood, ChildReceivesIsGood, ChildTimesOutIsGood,
     ChildExitsIsGood, TickIsGood, NetworkActsIsGood, StutterIsGood
  DEF Next, ClientStep, ChildStep, Terminated

\* The inductive invariant holds in every behaviour, for every file below
\* 4 GiB: the window, the packets in flight and the replies in flight always
\* agree with what the client has written.
THEOREM InvariantHolds ==
    ASSUME FileBelow4GiB
    PROVE  Spec => []IInv
<1>1. Init => Good
  BY InitIsGood
<1>2. Good /\ [Next]_vars => Good'
  BY NextIsGood
<1>3. Good => IInv
  BY GoodIsIInv
<1>4. QED
  BY <1>1, <1>2, <1>3, PTL DEF Spec

\* rcopy writes the remote file's blocks in order and each once
\* (Client.cpp:270-286).
THEOREM FileIsCopied ==
    ASSUME FileBelow4GiB
    PROVE  Spec => []FileIsPrefix
<1>1. IInv => FileIsPrefix
  BY DEF IInv
<1>2. QED
  BY <1>1, InvariantHolds, PTL

\* rcopy reports success only with a whole file, and goes on receiving only while
\* a block is missing (Client.cpp:288-291).
THEOREM DoneFileIsWhole ==
    ASSUME FileBelow4GiB
    PROVE  Spec => []DoneMeansWholeFile
<1>1. IInv => DoneMeansWholeFile
  BY DEF IInv
<1>2. QED
  BY <1>1, InvariantHolds, PTL

\* The child's window always reaches down to the block the client lacks, so what
\* is asked for can still be sent (Server.cpp:387-431).
THEOREM WindowIsSound ==
    ASSUME FileBelow4GiB
    PROVE  Spec => []WindowStaysReachable
<1>1. IInv => WindowStaysReachable
  BY DEF IInv
<1>2. QED
  BY <1>1, InvariantHolds, PTL

\* The child's window is a run of consecutive blocks, through every rewind and
\* refill (Server.cpp:335-431).
THEOREM WindowIsARun ==
    ASSUME FileBelow4GiB
    PROVE  Spec => []WindowIsContiguous
<1>1. IInv => WindowIsContiguous
  BY DEF IInv
<1>2. QED
  BY <1>1, InvariantHolds, PTL

\* No more than a window is ever on its way to the client
\* (Server.cpp:335-385).
THEOREM FlowIsControlled ==
    ASSUME FileBelow4GiB
    PROVE  Spec => []FlowControl
<1>1. IInv => FlowControl
  BY DEF IInv
<1>2. QED
  BY <1>1, InvariantHolds, PTL

\* The types of the variables, and: each process only ever talks to the other
\* one, and the child ends in neither DONE nor ERROR.
THEOREM TypesAreCorrect ==
    ASSUME FileBelow4GiB
    PROVE  Spec => []TypeOK
<1>1. IInv => TypeOK
  BY DEF IInv
<1>2. QED
  BY <1>1, InvariantHolds, PTL

\* No acknowledgement on its way to the child claims a block the client has not
\* written, and no rejection names one beyond the first it lacks.
THEOREM AcknowledgementsAreTrue ==
    ASSUME FileBelow4GiB
    PROVE  Spec => []AcksAreTrue
<1>1. IInv => AcksAreTrue
  BY DEF IInv
<1>2. QED
  BY <1>1, InvariantHolds, PTL

-----------------------------------------------------------------------------
(* Refinement: the transfer implements FileTransfer. *)

\* A step that leaves the client alone is a stutter of the copy.
LEMMA OthersStutter ==
    ASSUME client' = client
    PROVE  UNCHANGED Copy!vars
  BY DEF Copy!vars

\* What may become of a running client, in terms of the copy.
LEMMA AdvanceIsCopyStep ==
    ASSUME client.mvState = "RECV_PACKETS", client.mvRetries > 0,
           client.mvRetries \in Nat, client'.mvRetries \in Nat,
           \/ Advances(client, client') /\ client'.mvRetries > 0
           \/ /\ client'.mvTo = client.mvTo
              /\ client'.mvState = "RECV_PACKETS" \/ client'.mvState = "ERROR"
    PROVE  [Copy!Next]_(Copy!vars)
<1>1. Verdict(client) = "none"
  BY DEF Verdict, ClientRunning
<1>2. CASE /\ client'.mvTo = client.mvTo
           /\ \/ client'.mvState = "RECV_PACKETS"
              \/ client'.mvState = "ERROR"
  <2>1. Verdict(client)' = "none" \/ Verdict(client)' = "failed"
    BY <1>2 DEF Verdict, ClientRunning
  <2>2. QED
    BY <1>1, <1>2, <2>1 DEF Copy!Next, Copy!GiveUp, Copy!vars
<1>3. CASE /\ Len(client.mvTo) <= LastBlock
           /\ client'.mvTo = Append(client.mvTo, Len(client.mvTo))
           /\ client'.mvState = IF Len(client.mvTo) = LastBlock
                                THEN "DONE" ELSE "RECV_PACKETS"
           /\ client'.mvRetries > 0
  <2>1. Verdict(client)' = IF Len(client.mvTo) = LastBlock
                           THEN "success" ELSE "none"
    BY <1>3 DEF Verdict, ClientRunning
  <2>2. QED
    BY <1>1, <1>3, <2>1 DEF Copy!Next, Copy!Write
<1>4. QED
  BY <1>2, <1>3 DEF Advances

\* The steps of rcopy are steps of the copy.
LEMMA ClientReceivesCopies == Good /\ ClientReceives => [Copy!Next]_(Copy!vars)
<1> SUFFICES ASSUME Good, ClientReceives
             PROVE  [Copy!Next]_(Copy!vars)
  OBVIOUS
<1> DEFINE d == Head(inbox[ClientSocket])
           c == ClientReceived(client, d)
<1>1. /\ AreQueues(inbox) /\ Readable(ClientSocket)
      /\ client \in ClientType({ChildSocket}) /\ HasPrefix(client)
      /\ KnowsTheEnd(client)
  BY DEF Good, GoodClient, GoodNetwork, ClientReceives
<1>2. client.mvState = "RECV_PACKETS" /\ client.mvRetries > 0
  BY DEF ClientReceives, ClientRunning, Good, GoodClient, ClientType
<1>3. /\ d \in Mail(ClientSocket) /\ d.pkt \in PacketsOf(inbox[ClientSocket])
  BY <1>1, SocketFacts, ReceivedFacts
<1>4. d.from \in {ChildSocket} /\ d.pkt.sequence \in Nat
  BY <1>3, SocketFacts DEF Mail, TransferPacket, PacketOf
<1>5. client' = IF Intact(d.pkt) THEN RecvPackets(c, d.pkt).client
                                 ELSE RecvPacketsFailed(c).client
  BY DEF ClientReceives
<1> HIDE DEF d
<1>6. /\ c \in ClientType({ChildSocket}) /\ c.mvState = client.mvState
      /\ c.mvSequence = client.mvSequence /\ c.mvTo = client.mvTo
      /\ c.mvRetries > 0
  <2>1. c.mvRetries > 0
    BY <1>1, RetriesAssumption DEF ClientReceived, ClientType
  <2>2. QED
    BY <1>1, <1>4, <2>1, ClientReceivedFacts
<1> HIDE DEF c
<1>7. HasPrefix(c) /\ KnowsTheEnd(c)
  BY <1>1, <1>6 DEF HasPrefix, KnowsTheEnd
<1>8. Advances(c, client') /\ client'.mvRetries > 0
  <2>1. CASE Intact(d.pkt)
    <3>1. d.pkt = datpkt(d.pkt.sequence, d.pkt.sequence)
      BY <2>1, <1>3 DEF Good, GoodNetwork, DataFor
    <3>2. /\ Advances(c, RecvPackets(c, datpkt(d.pkt.sequence, d.pkt.sequence)).client)
          /\ RecvPackets(c, datpkt(d.pkt.sequence, d.pkt.sequence)).client.mvRetries > 0
      BY <1>2, <1>4, <1>6, <1>7, RecvPacketsAdvances
    <3>3. QED
      BY <2>1, <3>1, <3>2, <1>5
  <2>2. CASE ~Intact(d.pkt)
    BY <2>2, <1>5, <1>6 DEF RecvPacketsFailed, Advances
  <2>3. QED
    BY <2>1, <2>2
<1>9. Advances(client, client')
  BY <1>6, <1>8 DEF Advances
<1>10. client.mvRetries \in Nat /\ client'.mvRetries \in Nat
  <2>1. GoodClient'
    BY ClientReceivesIsGood DEF Good
  <2>2. QED
    BY <1>1, <2>1, RetriesAssumption DEF GoodClient, ClientType
<1>11. QED
  BY <1>2, <1>8, <1>9, <1>10, AdvanceIsCopyStep

\* A timeout of rcopy is a stutter of the copy or its failure.
LEMMA ClientTimesOutCopies == Good /\ ClientTimesOut => [Copy!Next]_(Copy!vars)
<1> SUFFICES ASSUME Good, ClientTimesOut
             PROVE  [Copy!Next]_(Copy!vars)
  OBVIOUS
<1>1. /\ client \in ClientType({ChildSocket}) /\ ClientRunning(client)
      /\ client' = ClientTimedOut(client)
  BY DEF Good, GoodClient, ClientTimesOut, RecvPacketsFailed
<1>2. client.mvState = "RECV_PACKETS" /\ client.mvRetries > 0
  BY <1>1 DEF ClientRunning, Good, GoodClient, ClientType
<1>3. /\ client' \in ClientType({ChildSocket})
      /\ client'.mvTo = client.mvTo /\ client'.mvState = "RECV_PACKETS"
  BY <1>1, <1>2, ClientTimedOutFacts
<1>4. client.mvRetries \in Nat /\ client'.mvRetries \in Nat
  BY <1>1, <1>3, RetriesAssumption DEF ClientType
<1>5. QED
  BY <1>2, <1>3, <1>4, AdvanceIsCopyStep

\* Interrupting rcopy makes the copy fail.
LEMMA ClientKilledCopies == Good /\ ClientKilled => [Copy!Next]_(Copy!vars)
<1> SUFFICES ASSUME Good, ClientKilled
             PROVE  [Copy!Next]_(Copy!vars)
  OBVIOUS
<1>1. /\ client \in ClientType({ChildSocket}) /\ ClientRunning(client)
      /\ client' = [client EXCEPT !.mvState = "ERROR"]
  BY DEF Good, GoodClient, ClientKilled
<1>2. client.mvState = "RECV_PACKETS" /\ client.mvRetries > 0
  BY <1>1 DEF ClientRunning, Good, GoodClient, ClientType
<1>3. /\ client'.mvTo = client.mvTo /\ client'.mvState = "ERROR"
      /\ client.mvRetries \in Nat /\ client'.mvRetries \in Nat
  BY <1>1, RetriesAssumption DEF ClientType
<1>4. QED
  BY <1>2, <1>3, AdvanceIsCopyStep

\* The transfer is the copy FileTransfer promises: every step of every process
\* and of the network appends the next block, gives a verdict, or shows nothing.
THEOREM TransferImplementsCopy ==
    ASSUME FileBelow4GiB
    PROVE  Spec => CopiesTheFile
<1>1. Init => Copy!Init
  BY RetriesAssumption DEF Init, Copy!Init, Verdict, ClientRunning
<1>2. Good /\ [Next]_vars => [Copy!Next]_(Copy!vars)
  <2> SUFFICES ASSUME Good, [Next]_vars
               PROVE  [Copy!Next]_(Copy!vars)
    OBVIOUS
  <2>1. CASE ClientReceives
    BY <2>1, ClientReceivesCopies
  <2>2. CASE ClientTimesOut
    BY <2>2, ClientTimesOutCopies
  <2>3. CASE ClientKilled
    BY <2>3, ClientKilledCopies
  <2>4. CASE ClientExits \/ ChildStep \/ Tick \/ NetworkActs \/ UNCHANGED vars
    <3>1. client' = client
      BY <2>4
      DEF ClientExits, ChildStep, ChildFillsWindow, ChildSends, ChildHasSent,
          ChildReceives, ChildTimesOut, ChildExits, Tick, NetworkActs, vars
    <3>2. QED
      BY <3>1, OthersStutter
  <2>5. QED
    BY <2>1, <2>2, <2>3, <2>4 DEF Next, ClientStep, Terminated
<1>3. Init => Good
  BY InitIsGood
<1>4. Good /\ [Next]_vars => Good'
  BY NextIsGood
<1>5. QED
  BY <1>1, <1>2, <1>3, <1>4, PTL DEF Spec, CopiesTheFile, Copy!Spec

=============================================================================
