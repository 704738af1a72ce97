-------------------------- MODULE StopAndWaitProofs -------------------------
(***************************************************************************)
(* Proofs about the stop-and-wait programs, for every number of rcopy      *)
(* processes, every file whose blocks differ, every limit on the requests  *)
(* for retransmission and every number of faults: the inductive invariant  *)
(* IInv, the invariants it implies, and that each local file and what its  *)
(* user is told are what module FileTransfer promises.                     *)
(***************************************************************************)
EXTENDS StopAndWait, WaitProofs

-----------------------------------------------------------------------------
(* Streams *)

StreamTypeOK ==
    /\ stream \in [Ends -> Seq(StreamPackets)]
    /\ link \in [Ends -> LinkState]
    /\ faults \in Nat

\* Between two reads a stream loses packets at most: they are read out of step,
\* or the socket is closed.
Spoils(q, q2) ==
    /\ q2 \in Seq(StreamPackets)
    /\ q = <<>> => q2 = <<>>
    /\ \A i \in DOMAIN q2 :
          ~GoodChecksum(q2[i]) \/ (i \in DOMAIN q /\ q2[i] = q[i])

\* One packet is sent, which arrives behind the others, as it is or damaged.
Grows(q, q2, pkt) ==
    /\ q2 \in Seq(StreamPackets)
    /\ \A i \in DOMAIN q2 :
          \/ ~GoodChecksum(q2[i])
          \/ i \in DOMAIN q /\ q2[i] = q[i]
          \/ i > Len(q) /\ q2[i] = pkt

\* The two ends of a connection are different, and each is the other's peer.
LEMMA EndFacts ==
    ASSUME NEW c \in Clients
    PROVE  /\ ClientEnd(c) \in Ends /\ ServerEnd(c) \in Ends
           /\ PeerOf(ClientEnd(c)) = ServerEnd(c)
           /\ PeerOf(ServerEnd(c)) = ClientEnd(c)
           /\ ClientEnd(c) # ServerEnd(c)
           /\ \A d \in Clients : d # c =>
                 /\ {ClientEnd(d), ServerEnd(d)} \intersect
                       {ClientEnd(c), ServerEnd(c)} = {}
  BY DEF Ends, ClientEnd, ServerEnd, End, PeerOf

\* What is read out of step is told by its checksum.
LEMMA DamagedFacts ==
    /\ Flipped \in StreamPackets /\ Garbled \in StreamPackets
    /\ Remainder \in StreamPackets
    /\ ~GoodChecksum(Flipped) /\ ~GoodChecksum(Garbled) /\ ~GoodChecksum(Remainder)
  BY DEF Flipped, Garbled, Remainder, StreamPackets, GoodChecksum, BadTypes, Fill

LEMMA SpoilsReflexive ==
    ASSUME NEW q \in Seq(StreamPackets)
    PROVE  Spoils(q, q) /\ Spoils(q, <<>>)
  BY DEF Spoils

\* A packet sent goes to the end of the stream, behind what is out of step or
\* not.
LEMMA ArriveGrows ==
    ASSUME NEW q \in Seq(StreamPackets), NEW pkt \in StreamPackets
    PROVE  Grows(q, Arrive(q, pkt), pkt)
<1>1. CASE OutOfStep(q)
  <2> DEFINE front == SubSeq(q, 1, Len(q) - 1)
             q2 == front \o <<Garbled, Remainder>>
  <2>1. q # <<>> /\ Len(q) \in Nat /\ Len(q) > 0
    BY <1>1 DEF OutOfStep
  <2>2. /\ front \in Seq(StreamPackets) /\ Len(front) = Len(q) - 1
        /\ \A i \in 1 .. Len(q) - 1 : front[i] = q[i]
    <3>1. Len(q) - 1 \in Nat /\ Len(q) - 1 <= Len(q) /\ Len(q) - 1 - 1 + 1 = Len(q) - 1
      BY <2>1
    <3>2. \A i \in 1 .. Len(q) - 1 : i \in 1 .. Len(q) /\ 1 + i - 1 = i
      BY <2>1
    <3>3. QED
      BY <2>1, <3>1, <3>2
  <2>3. <<Garbled, Remainder>> \in Seq(StreamPackets)
    BY DamagedFacts
  <2> HIDE DEF front
  <2>4. /\ q2 \in Seq(StreamPackets) /\ Len(q2) = Len(q) + 1
        /\ \A i \in 1 .. Len(q) - 1 : q2[i] = q[i]
        /\ q2[Len(q)] = Garbled /\ q2[Len(q) + 1] = Remainder
    BY <2>1, <2>2, <2>3, ConcatProperties
  <2>5. Arrive(q, pkt) = q2
    BY <1>1 DEF Arrive, front
  <2> HIDE DEF q2
  <2>6. QED
    BY <2>1, <2>4, <2>5, DamagedFacts, LenProperties DEF Grows
<1>2. CASE ~OutOfStep(q)
  <2>1. Arrive(q, pkt) = Append(q, pkt)
    BY <1>2 DEF Arrive
  <2>2. QED
    BY <2>1, AppendProperties, LenProperties DEF Grows
<1>3. QED
  BY <1>1, <1>2

\* A damaged packet damages nothing else.
LEMMA GrowsByDamaged ==
    ASSUME NEW q, NEW q2, NEW pkt, NEW bad, ~GoodChecksum(bad), Grows(q, q2, bad)
    PROVE  Grows(q, q2, pkt)
  BY DEF Grows

\* sendErr changes one stream, the one it sends to.
LEMMA SendErrFacts ==
    ASSUME StreamTypeOK, NEW e \in Ends, PeerOf(e) \in Ends,
           NEW pkt \in StreamPackets, SendErr(e, pkt)
    PROVE  /\ StreamTypeOK'
           /\ Grows(stream[PeerOf(e)], stream'[PeerOf(e)], pkt)
           /\ \A d \in Ends : d # PeerOf(e) => stream'[d] = stream[d]
<1> DEFINE q == stream[PeerOf(e)]
<1>1. q \in Seq(StreamPackets)
  BY DEF StreamTypeOK
<1>2. Grows(q, Arrive(q, pkt), pkt)
  BY <1>1, ArriveGrows
<1>3. Grows(q, Arrive(q, Flipped), pkt)
  BY <1>1, ArriveGrows, DamagedFacts, GrowsByDamaged
<1>4. Grows(q, q, pkt)
  BY <1>1 DEF Grows
<1>5. ASSUME NEW q2, Grows(q, q2, pkt),
             stream' = [stream EXCEPT ![PeerOf(e)] = q2]
      PROVE  /\ stream' \in [Ends -> Seq(StreamPackets)]
             /\ Grows(q, stream'[PeerOf(e)], pkt)
             /\ \A d \in Ends : d # PeerOf(e) => stream'[d] = stream[d]
  BY <1>5 DEF StreamTypeOK, Grows
<1>6. CASE /\ stream' = [stream EXCEPT ![PeerOf(e)] = Arrive(@, pkt)]
           /\ UNCHANGED <<link, faults>>
  BY <1>2, <1>5, <1>6 DEF StreamTypeOK
<1>7. CASE /\ Fault("flip")
           /\ stream' = [stream EXCEPT ![PeerOf(e)] = Arrive(@, Flipped)]
           /\ UNCHANGED link
  <2>1. link' = link /\ faults' \in Nat
    BY <1>7 DEF Fault, StreamTypeOK
  <2>2. QED
    BY <1>3, <1>5, <1>7, <2>1 DEF StreamTypeOK
<1>8. CASE /\ link' = [link EXCEPT ![e] = "gone"]
           /\ UNCHANGED <<stream, faults>>
  BY <1>4, <1>8 DEF StreamTypeOK, LinkState
<1>9. QED
  BY <1>6, <1>7, <1>8 DEF SendErr

\* close() empties the streams of the sockets closed.
LEMMA CloseFacts ==
    ASSUME StreamTypeOK, NEW closed, NEW refused, Close(closed, refused),
           faults' \in Nat
    PROVE  /\ StreamTypeOK'
           /\ \A e \in Ends : Spoils(stream[e], stream'[e])
           /\ \A e \in Ends \ closed : stream'[e] = stream[e]
<1>1. stream' = [e \in Ends |-> IF e \in closed THEN <<>> ELSE stream[e]]
  BY DEF Close
<1>2. stream' \in [Ends -> Seq(StreamPackets)]
  BY <1>1 DEF StreamTypeOK
<1>3. link' \in [Ends -> LinkState]
  BY DEF Close, StreamTypeOK, LinkState
<1>4. \A e \in Ends : Spoils(stream[e], stream'[e])
  BY <1>1, SpoilsReflexive DEF StreamTypeOK
<1>5. QED
  BY <1>1, <1>2, <1>3, <1>4 DEF StreamTypeOK

\* A part of a packet is read: what was in the stream is out of step.
LEMMA CutFacts ==
    ASSUME StreamTypeOK, Cut
    PROVE  /\ StreamTypeOK'
           /\ \A e \in Ends : Spoils(stream[e], stream'[e])
<1>1. PICK e \in Ends :
         /\ HasPacket(e)
         /\ stream' = [stream EXCEPT ![e] =
                          [i \in DOMAIN stream[e] |-> Garbled] \o <<Remainder>>]
  BY DEF Cut
<1> DEFINE q == stream[e]
           all == [i \in DOMAIN q |-> Garbled]
           q2 == all \o <<Remainder>>
<1>2. q \in Seq(StreamPackets)
  BY DEF StreamTypeOK
<1>3. all \in Seq(StreamPackets) /\ Len(all) = Len(q)
      /\ \A i \in 1 .. Len(q) : all[i] = Garbled
  BY <1>2, DamagedFacts, LenProperties
<1>4. <<Remainder>> \in Seq(StreamPackets) /\ Len(<<Remainder>>) = 1
      /\ <<Remainder>>[1] = Remainder
  BY DamagedFacts
<1> HIDE DEF all
<1>5. /\ q2 \in Seq(StreamPackets) /\ Len(q2) = Len(q) + 1
      /\ \A i \in 1 .. Len(q) : q2[i] = Garbled
      /\ q2[Len(q) + 1] = Remainder
  BY <1>2, <1>3, <1>4, ConcatProperties
<1>6. stream' = [stream EXCEPT ![e] = q2]
  BY <1>1 DEF all
<1> HIDE DEF q2
<1>7. Spoils(q, q2)
  BY <1>1, <1>2, <1>5, DamagedFacts, LenProperties DEF Spoils, HasPacket
<1>8. \A d \in Ends : Spoils(stream[d], stream'[d])
  BY <1>6, <1>7, SpoilsReflexive DEF StreamTypeOK
<1>9. StreamTypeOK'
  BY <1>5, <1>6 DEF StreamTypeOK, Cut, Fault
<1>10. QED
  BY <1>8, <1>9

\* recv() takes the first packet: the others move up by one.
LEMMA TakeFacts ==
    ASSUME StreamTypeOK, NEW e \in Ends, HasPacket(e), Take(e)
    PROVE  LET q == stream[e]
           IN  /\ StreamTypeOK'
               /\ \A d \in Ends : d # e => stream'[d] = stream[d]
               /\ Head(q) = q[1] /\ 1 \in DOMAIN q /\ Head(q) \in StreamPackets
               /\ stream'[e] \in Seq(StreamPackets)
               /\ \A i \in DOMAIN stream'[e] :
                     i + 1 \in DOMAIN q /\ 1 < i + 1 /\ stream'[e][i] = q[i + 1]
<1> DEFINE q == stream[e]
<1>1. q \in Seq(StreamPackets) /\ q # <<>>
  BY DEF StreamTypeOK, HasPacket
<1>2. stream' = [stream EXCEPT ![e] = Tail(q)] /\ stream'[e] = Tail(q)
  BY DEF Take, StreamTypeOK
<1>3. /\ Tail(q) \in Seq(StreamPackets) /\ Len(Tail(q)) = Len(q) - 1
      /\ \A i \in 1 .. Len(q) - 1 : Tail(q)[i] = q[i + 1]
      /\ Head(q) = q[1] /\ Head(q) \in StreamPackets
      /\ Len(q) \in Nat /\ Len(q) > 0
      /\ DOMAIN q = 1 .. Len(q) /\ DOMAIN Tail(q) = 1 .. Len(q) - 1
  BY <1>1, HeadTailProperties, LenProperties, EmptySeq
<1>4. StreamTypeOK'
  BY <1>2, <1>3 DEF Take, StreamTypeOK
<1>5. \A i \in 1 .. Len(q) - 1 : i + 1 \in 1 .. Len(q) /\ 1 < i + 1
  BY <1>3
<1>6. QED
  BY <1>2, <1>3, <1>4, <1>5 DEF StreamTypeOK

\* A damaged packet says nothing.
LEMMA DamagedIsSound ==
    ASSUME NEW pkt \in StreamPackets, ~GoodChecksum(pkt), NEW n
    PROVE  /\ FromServer(pkt, n) /\ FromRcopy(pkt, n)
           /\ pkt.type \notin {"FLN", "ACK", "RET", "DAT"}
  BY DEF GoodChecksum, BadTypes, FromServer, FromRcopy

\* What was sent to a client that expects block n may have been sent to one that
\* expects the next.
LEMMA FromServerGrows ==
    ASSUME NEW n \in Nat, NEW m \in Nat, n <= m, NEW pkt, FromServer(pkt, n)
    PROVE  FromServer(pkt, m)
<1>1. pkt.sequence \in Nat
  BY DEF FromServer, StreamPackets
<1>2. QED
  BY <1>1 DEF FromServer

\* A stream that loses packets holds no new ones, and none in another order.
LEMMA SpoilsFacts ==
    ASSUME NEW q \in Seq(StreamPackets), NEW q2, Spoils(q, q2)
    PROVE  /\ \A pkt \in Packets(q2) :
                 pkt \in StreamPackets /\ (~GoodChecksum(pkt) \/ pkt \in Packets(q))
           /\ RequestsFollowAcks(q) => RequestsFollowAcks(q2)
<1>1. \A i \in DOMAIN q2 : q2[i] \in StreamPackets
  BY ElementOfSeq, LenProperties DEF Spoils
<1>2. \A i \in DOMAIN q2 : q2[i].type \in {"ACK", "RET"} =>
         i \in DOMAIN q /\ q2[i] = q[i]
  BY DEF Spoils, GoodChecksum, BadTypes
<1>3. RequestsFollowAcks(q) => RequestsFollowAcks(q2)
  BY <1>2 DEF RequestsFollowAcks
<1>4. QED
  BY <1>1, <1>3 DEF Spoils, Packets

\* A packet is behind everything sent before it.
LEMMA GrowsFacts ==
    ASSUME NEW q \in Seq(StreamPackets), NEW q2, NEW new, Grows(q, q2, new)
    PROVE  /\ \A pkt \in Packets(q2) :
                 /\ pkt \in StreamPackets
                 /\ ~GoodChecksum(pkt) \/ pkt \in Packets(q) \/ pkt = new
           /\ /\ RequestsFollowAcks(q)
              /\ new.type = "RET" => \A pkt \in Packets(q) :
                    pkt.type = "ACK" => pkt.data < new.sequence
              => RequestsFollowAcks(q2)
<1>1. \A i \in DOMAIN q2 : q2[i] \in StreamPackets
  BY ElementOfSeq, LenProperties DEF Grows
<1>2. \A i \in DOMAIN q2 : q2[i].type \in {"ACK", "RET"} =>
         \/ i \in DOMAIN q /\ q2[i] = q[i]
         \/ i > Len(q) /\ q2[i] = new
  BY DEF Grows, GoodChecksum, BadTypes
<1>3. ASSUME RequestsFollowAcks(q),
             new.type = "RET" => \A pkt \in Packets(q) :
                pkt.type = "ACK" => pkt.data < new.sequence
      PROVE  RequestsFollowAcks(q2)
  <2> SUFFICES ASSUME NEW i \in DOMAIN q2, NEW j \in DOMAIN q2, i < j,
                      q2[i].type = "ACK", q2[j].type = "RET"
               PROVE  q2[i].data < q2[j].sequence
    BY DEF RequestsFollowAcks
  <2>0. DOMAIN q = 1 .. Len(q) /\ Len(q) \in Nat /\ i \in Int /\ j \in Int
        /\ DOMAIN q2 = 1 .. Len(q2)
    BY LenProperties DEF Grows
  <2>1. CASE j \in DOMAIN q /\ q2[j] = q[j]
    <3>1. i \in DOMAIN q /\ q2[i] = q[i]
      BY <1>2, <2>0, <2>1
    <3>2. QED
      BY <1>3, <2>1, <3>1 DEF RequestsFollowAcks
  <2>2. CASE q2[j] = new
    <3>1. q2[i] \in Packets(q)
      BY <1>2, <2>2 DEF Packets
    <3>2. QED
      BY <1>3, <2>2, <3>1
  <2>3. QED
    BY <1>2, <2>1, <2>2
<1>4. QED
  BY <1>1, <1>3 DEF Grows, Packets

\* Without its first packet.
Beheads(q, q2) ==
    /\ q2 \in Seq(StreamPackets)
    /\ 1 \in DOMAIN q
    /\ \A i \in DOMAIN q2 :
          i + 1 \in DOMAIN q /\ 1 < i + 1 /\ q2[i] = q[i + 1]

LEMMA BeheadsFacts ==
    ASSUME NEW q \in Seq(StreamPackets), NEW q2, Beheads(q, q2),
           RequestsFollowAcks(q)
    PROVE  /\ q[1] \in Packets(q)
           /\ Packets(q2) \subseteq Packets(q)
           /\ RequestsFollowAcks(q2)
           /\ q[1].type = "ACK" => \A pkt \in Packets(q2) :
                 pkt.type = "RET" => q[1].data < pkt.sequence
<1>1. Packets(q2) \subseteq Packets(q) /\ q[1] \in Packets(q)
  BY DEF Packets, Beheads
<1>2. RequestsFollowAcks(q2)
  <2>1. \A i, j \in DOMAIN q2 : i < j => i + 1 < j + 1
    BY LenProperties DEF Beheads
  <2>2. QED
    BY <2>1 DEF RequestsFollowAcks, Beheads
<1>3. ASSUME q[1].type = "ACK", NEW i \in DOMAIN q2, q2[i].type = "RET"
      PROVE  q[1].data < q2[i].sequence
  BY <1>3 DEF RequestsFollowAcks, Beheads
<1>4. QED
  BY <1>1, <1>2, <1>3 DEF Packets

-----------------------------------------------------------------------------
(* One client *)

\* A step that does not change what a client has of the file.
RcopyKeeps(r, r2) ==
    \/ r2 = r
    \/ /\ r # NotStarted
       /\ r2 \in RcopyType /\ RcopySound(r2) /\ r2.sequence = r.sequence

\* What the type invariant says of one client.
LEMMA ClientTypeFacts ==
    ASSUME TypeOK, NEW c \in Clients
    PROVE  /\ StreamTypeOK
           /\ rcopy[c] # NotStarted => rcopy[c] \in RcopyType
           /\ stream[ClientEnd(c)] \in Seq(StreamPackets)
           /\ stream[ServerEnd(c)] \in Seq(StreamPackets)
           /\ \A s \in RcopyType :
                 s # NotStarted /\ s.sequence \in 0 .. EndOfFile /\ s.sequence \in Nat
<1>1. \A s \in RcopyType : s.returned # "not started"
  BY DEF RcopyType
<1>2. \A s \in RcopyType : s # NotStarted
  <2>1. NotStarted.returned = "not started"
    BY DEF NotStarted
  <2>2. QED
    BY <1>1, <2>1
<1>3. \A s \in RcopyType : s.sequence \in 0 .. EndOfFile /\ s.sequence \in Nat
  BY FileAssumption DEF RcopyType, EndOfFile
<1>4. QED
  BY <1>2, <1>3, EndFacts DEF TypeOK, StreamTypeOK

\* A client is sound after a step that spoils its streams at most, and leaves its
\* file and the server that serves it alone.
LEMMA ClientStaysSound ==
    ASSUME TypeOK, NEW c \in Clients, ClientSound(c),
           RcopyKeeps(rcopy[c], rcopy'[c]),
           Spoils(stream[ClientEnd(c)], stream'[ClientEnd(c)]),
           Spoils(stream[ServerEnd(c)], stream'[ServerEnd(c)]),
           Waits(c)' => Waits(c),
           server' = c => server = c /\ comm' = comm
    PROVE  ClientSound(c)'
<1> DEFINE n == rcopy[c].sequence
           toClient == stream[ClientEnd(c)]
           toServer == stream[ServerEnd(c)]
<1>1. /\ rcopy[c] # NotStarted => rcopy[c] \in RcopyType
      /\ toClient \in Seq(StreamPackets) /\ toServer \in Seq(StreamPackets)
  BY ClientTypeFacts
<1>2. /\ n' = n
      /\ rcopy'[c] = NotStarted => rcopy[c] = NotStarted
      /\ rcopy'[c] # NotStarted => rcopy[c] # NotStarted
      /\ rcopy'[c] # NotStarted => RcopySound(rcopy'[c])
  BY ClientTypeFacts DEF RcopyKeeps, ClientSound
<1>3. /\ \A pkt \in Packets(toClient') : pkt \in StreamPackets
           /\ (~GoodChecksum(pkt) \/ pkt \in Packets(toClient))
      /\ \A pkt \in Packets(toServer') : pkt \in StreamPackets
           /\ (~GoodChecksum(pkt) \/ pkt \in Packets(toServer))
      /\ RequestsFollowAcks(toServer) => RequestsFollowAcks(toServer')
  BY <1>1, SpoilsFacts
<1>4. /\ toClient = <<>> => toClient' = <<>>
      /\ toServer = <<>> => toServer' = <<>>
  BY DEF Spoils
<1>5. rcopy'[c] = NotStarted => toClient' = <<>> /\ toServer' = <<>>
  BY <1>2, <1>4 DEF ClientSound
<1>6. rcopy'[c] # NotStarted =>
         /\ \A pkt \in Packets(toClient') : FromServer(pkt, n)
         /\ \A pkt \in Packets(toServer') : FromRcopy(pkt, n)
         /\ RequestsFollowAcks(toServer')
  BY <1>2, <1>3, DamagedIsSound DEF ClientSound
<1>7. Waits(c)' => n' = 0 /\ toClient' = <<>>
  BY <1>2, <1>4 DEF ClientSound
<1>8. server' = c =>
         /\ CommSound(comm', n')
         /\ \A pkt \in Packets(toClient') : pkt.type = "DAT" =>
               ~FromfdUnset(comm') /\ pkt.sequence <= comm'.sequence
         /\ \A pkt \in Packets(toServer') :
               pkt.type = "RET" => comm'.sequence <= pkt.sequence
  BY <1>2, <1>3, DamagedIsSound DEF ClientSound
<1>9. QED
  BY <1>2, <1>5, <1>6, <1>7, <1>8 DEF ClientSound

\* What an rcopy sends is sound for the server, behind what it has sent before.
LEMMA ClientSendsSound ==
    ASSUME TypeOK, NEW c \in Clients, ClientSound(c), rcopy[c] # NotStarted,
           rcopy'[c] \in RcopyType, RcopySound(rcopy'[c]),
           rcopy'[c].sequence = rcopy[c].sequence,
           Grows(stream[ServerEnd(c)], stream'[ServerEnd(c)], rcopy[c].outpkt),
           stream'[ClientEnd(c)] = stream[ClientEnd(c)],
           UNCHANGED <<server, comm, backlog>>
    PROVE  ClientSound(c)'
<1> DEFINE n == rcopy[c].sequence
           toClient == stream[ClientEnd(c)]
           toServer == stream[ServerEnd(c)]
           pkt == rcopy[c].outpkt
<1>1. /\ rcopy[c] \in RcopyType /\ rcopy'[c] # NotStarted /\ n \in Nat
      /\ toServer \in Seq(StreamPackets)
  BY ClientTypeFacts
<1>2. /\ FromRcopy(pkt, n)
      /\ pkt.type = "RET" => pkt.sequence = n
      /\ \A p \in Packets(toServer) : FromRcopy(p, n)
      /\ RequestsFollowAcks(toServer)
  BY DEF ClientSound, RcopySound
<1> HIDE DEF pkt
<1>3. pkt.type = "RET" =>
         \A p \in Packets(toServer) : p.type = "ACK" => p.data < pkt.sequence
  BY <1>1, <1>2 DEF FromRcopy
<1>4. /\ \A p \in Packets(toServer') : p \in StreamPackets
           /\ (~GoodChecksum(p) \/ p \in Packets(toServer) \/ p = pkt)
      /\ RequestsFollowAcks(toServer')
  BY <1>1, <1>2, <1>3, GrowsFacts DEF pkt
<1>5. \A p \in Packets(toServer') : FromRcopy(p, n)
  BY <1>2, <1>4, DamagedIsSound
<1>6. server = c => \A p \in Packets(toServer') :
         p.type = "RET" => comm.sequence <= p.sequence
  <2> SUFFICES ASSUME server = c, NEW p \in Packets(toServer'), p.type = "RET"
               PROVE  comm.sequence <= p.sequence
    OBVIOUS
  <2>1. CASE p \in Packets(toServer)
    BY <2>1 DEF ClientSound
  <2>2. CASE p = pkt
    BY <1>2, <2>2 DEF ClientSound, CommSound
  <2>3. QED
    BY <1>4, <2>1, <2>2, DamagedIsSound
<1>7. Waits(c)' <=> Waits(c)
  BY DEF Waits
<1>8. QED
  BY <1>1, <1>4, <1>5, <1>6, <1>7 DEF ClientSound

\* A client that takes no part in a step is as sound as before.
LEMMA OtherStaysSound ==
    ASSUME TypeOK, NEW c \in Clients, ClientSound(c),
           rcopy'[c] = rcopy[c],
           stream'[ClientEnd(c)] = stream[ClientEnd(c)],
           stream'[ServerEnd(c)] = stream[ServerEnd(c)],
           Waits(c)' => Waits(c),
           server' = c => server = c /\ comm' = comm
    PROVE  ClientSound(c)'
  BY ClientTypeFacts, SpoilsReflexive, ClientStaysSound DEF RcopyKeeps

\* An rcopy takes the first packet that was sent to it.
LEMMA ClientTakesSound ==
    ASSUME TypeOK, NEW c \in Clients, ClientSound(c),
           rcopy[c] # NotStarted, RcopyGoesOn(rcopy[c]),
           Beheads(stream[ClientEnd(c)], stream'[ClientEnd(c)]),
           stream'[ServerEnd(c)] = stream[ServerEnd(c)],
           LET pkt == stream[ClientEnd(c)][1]
           IN  rcopy'[c] = IF GoodChecksum(pkt) THEN RcopyReceived(rcopy[c], pkt)
                                                ELSE RcopyReceivedBad(rcopy[c]),
           UNCHANGED <<server, comm, backlog>>
    PROVE  /\ ClientSound(c)'
           /\ \/ KeepsFile(rcopy[c], rcopy'[c])
              \/ WritesBlock(rcopy[c], rcopy'[c])
<1> DEFINE n == rcopy[c].sequence
           m == rcopy'[c].sequence
           toClient == stream[ClientEnd(c)]
           toServer == stream[ServerEnd(c)]
           pkt == toClient[1]
<1>1. /\ rcopy[c] \in RcopyType /\ RcopySound(rcopy[c]) /\ n \in Nat
      /\ toClient \in Seq(StreamPackets)
      /\ pkt \in Packets(toClient) /\ toClient # <<>>
      /\ Packets(toClient') \subseteq Packets(toClient)
  BY ClientTypeFacts DEF ClientSound, Beheads, Packets
<1>2. /\ \A p \in Packets(toClient) : FromServer(p, n)
      /\ \A p \in Packets(toServer) : FromRcopy(p, n)
      /\ RequestsFollowAcks(toServer)
  BY DEF ClientSound
<1>3. \/ KeepsFile(rcopy[c], rcopy'[c])
      \/ /\ pkt.type = "DAT" /\ pkt.sequence = n
         /\ WritesBlock(rcopy[c], rcopy'[c])
  <2>1. CASE GoodChecksum(pkt)
    BY <1>1, <1>2, <2>1, RcopyReceivedIsSound DEF RcopyGoesOn
  <2>2. CASE ~GoodChecksum(pkt)
    BY <1>1, <2>2, RcopyReceivedBadIsSound
  <2>3. QED
    BY <2>1, <2>2
<1>4. /\ rcopy'[c] \in RcopyType /\ RcopySound(rcopy'[c]) /\ rcopy'[c] # NotStarted
      /\ m \in Nat /\ n <= m
  BY <1>1, <1>3, ClientTypeFacts DEF KeepsFile, WritesBlock
<1>5. /\ \A p \in Packets(toClient') : FromServer(p, m)
      /\ \A p \in Packets(toServer') : FromRcopy(p, m)
      /\ RequestsFollowAcks(toServer')
  <2>1. \A p \in Packets(toClient') : FromServer(p, m)
    BY <1>1, <1>2, <1>4, FromServerGrows
  <2>2. \A p \in Packets(toServer') : FromRcopy(p, m)
    BY <1>1, <1>2, <1>4, FromRcopyGrows
  <2>3. QED
    BY <1>2, <2>1, <2>2
<1>6. ~Waits(c) /\ ~Waits(c)'
  BY <1>1 DEF ClientSound, Waits
<1>7. server = c => CommSound(comm, m)
  <2> SUFFICES ASSUME server = c
               PROVE  CommSound(comm, m)
    OBVIOUS
  <2>1. CommSound(comm, n) /\ comm \in CommType
    BY DEF ClientSound, TypeOK
  <2>2. CASE KeepsFile(rcopy[c], rcopy'[c])
    BY <2>1, <2>2 DEF KeepsFile
  <2>3. CASE pkt.type = "DAT" /\ pkt.sequence = n /\ WritesBlock(rcopy[c], rcopy'[c])
    <3>1. ~FromfdUnset(comm) /\ n <= comm.sequence
      BY <1>1, <2>3 DEF ClientSound
    <3>2. comm.sequence = n
      BY <1>1, <2>1, <3>1, FileAssumption DEF CommSound, CommType, EndOfFile
    <3>3. CommSound(comm, n + 1)
      BY <1>1, <2>1, <2>3, <3>1, <3>2, WrittenBlockIsSound DEF WritesBlock
    <3>4. QED
      BY <2>3, <3>3 DEF WritesBlock
  <2>4. QED
    BY <1>3, <2>2, <2>3
<1>8. ClientSound(c)'
  BY <1>1, <1>4, <1>5, <1>6, <1>7 DEF ClientSound
<1>9. QED
  BY <1>3, <1>8

\* The server accepts the connection of a client that has nothing yet.
LEMMA ClientAcceptedSound ==
    ASSUME TypeOK, NEW c \in Clients, ClientSound(c), Waits(c),
           rcopy[c] # NotStarted, comm = CommStart,
           server' = c, UNCHANGED <<rcopy, comm, stream>>
    PROVE  ClientSound(c)'
<1> DEFINE n == rcopy[c].sequence
           toClient == stream[ClientEnd(c)]
           toServer == stream[ServerEnd(c)]
<1>1. n = 0 /\ toClient = <<>>
  BY DEF ClientSound
<1>2. CommSound(comm, n) /\ comm.sequence = 0
  BY <1>1, CommStartIsSound DEF CommStart
<1>3. \A pkt \in Packets(toServer) : pkt.sequence >= 0
  <2>1. \A pkt \in Packets(toServer) : pkt.sequence \in Nat
    BY DEF ClientSound, FromRcopy, StreamPackets
  <2>2. QED
    BY <2>1
<1>4. Packets(toClient) = {}
  BY <1>1 DEF Packets
<1>5. QED
  BY <1>1, <1>2, <1>3, <1>4 DEF ClientSound

\* What the server sends is sound for the client it serves.
LEMMA ServerSendsSound ==
    ASSUME TypeOK, NEW c \in Clients, ClientSound(c), server = c,
           rcopy[c] # NotStarted, ~Waits(c),
           CommGoesOn(comm), "TRANSMIT" \in comm.status,
           comm' = CommSent(comm, Files),
           Grows(stream[ClientEnd(c)], stream'[ClientEnd(c)], comm.outpkt),
           stream'[ServerEnd(c)] = stream[ServerEnd(c)],
           UNCHANGED <<rcopy, server, backlog>>
    PROVE  ClientSound(c)' /\ comm' \in CommType
<1> DEFINE n == rcopy[c].sequence
           toClient == stream[ClientEnd(c)]
           toServer == stream[ServerEnd(c)]
           pkt == comm.outpkt
<1>1. /\ n \in 0 .. EndOfFile /\ toClient \in Seq(StreamPackets)
      /\ comm \in CommType /\ CommSound(comm, n)
  BY ClientTypeFacts DEF ClientSound, TypeOK
<1>2. /\ StaysSound(comm, comm', n) /\ comm'.sequence = comm.sequence
      /\ FromServer(pkt, n)
      /\ pkt.type = "DAT" => ~FromfdUnset(comm) /\ pkt.sequence = comm.sequence
  BY <1>1, CommSentIsSound
<1>3. \A p \in Packets(toClient') : p \in StreamPackets
         /\ (~GoodChecksum(p) \/ p \in Packets(toClient) \/ p = pkt)
  BY <1>1, GrowsFacts
<1> HIDE DEF pkt
<1>4. \A p \in Packets(toClient') : FromServer(p, n)
  BY <1>2, <1>3, DamagedIsSound DEF ClientSound
<1>5. \A p \in Packets(toClient') : p.type = "DAT" =>
         ~FromfdUnset(comm') /\ p.sequence <= comm'.sequence
  <2> SUFFICES ASSUME NEW p \in Packets(toClient'), p.type = "DAT"
               PROVE  ~FromfdUnset(comm') /\ p.sequence <= comm'.sequence
    OBVIOUS
  <2>0. comm.sequence \in Nat
    BY <1>1, FileAssumption DEF CommType, EndOfFile
  <2>1. ~FromfdUnset(comm) /\ p.sequence <= comm.sequence
    BY <1>2, <1>3, <2>0, DamagedIsSound DEF ClientSound
  <2>2. QED
    BY <1>2, <2>1 DEF StaysSound
<1>6. ~Waits(c)'
  BY DEF Waits
<1>7. ClientSound(c)'
  BY <1>2, <1>4, <1>5, <1>6 DEF ClientSound, StaysSound
<1>8. QED
  BY <1>2, <1>7 DEF StaysSound

\* The server takes the first packet that its client has sent to it.
LEMMA ServerTakesSound ==
    ASSUME BlocksDiffer, TypeOK, NEW c \in Clients, ClientSound(c), server = c,
           rcopy[c] # NotStarted, ~Waits(c),
           CommGoesOn(comm), "TRANSMIT" \notin comm.status,
           Beheads(stream[ServerEnd(c)], stream'[ServerEnd(c)]),
           stream'[ClientEnd(c)] = stream[ClientEnd(c)],
           LET pkt == stream[ServerEnd(c)][1]
           IN  comm' = IF GoodChecksum(pkt) THEN CommReceived(comm, pkt, Files)
                                            ELSE CommReceivedBad(comm),
           UNCHANGED <<rcopy, server, backlog>>
    PROVE  ClientSound(c)' /\ comm' \in CommType
<1> DEFINE n == rcopy[c].sequence
           toClient == stream[ClientEnd(c)]
           toServer == stream[ServerEnd(c)]
           pkt == toServer[1]
<1>1. /\ n \in 0 .. EndOfFile /\ n \in Nat /\ toServer \in Seq(StreamPackets)
      /\ comm \in CommType /\ CommSound(comm, n)
      /\ comm.sequence \in Nat
  BY ClientTypeFacts, FileAssumption DEF ClientSound, TypeOK, CommType, EndOfFile
<1>2. /\ \A p \in Packets(toClient) : FromServer(p, n)
      /\ \A p \in Packets(toServer) : FromRcopy(p, n)
      /\ RequestsFollowAcks(toServer)
      /\ \A p \in Packets(toServer) : p.type = "RET" => comm.sequence <= p.sequence
  BY DEF ClientSound
<1>3. /\ pkt \in Packets(toServer)
      /\ Packets(toServer') \subseteq Packets(toServer)
      /\ RequestsFollowAcks(toServer')
      /\ pkt.type = "ACK" => \A p \in Packets(toServer') :
            p.type = "RET" => pkt.data < p.sequence
  BY <1>1, <1>2, BeheadsFacts
<1>4. /\ StaysSound(comm, comm', n)
      /\ \/ comm'.sequence = comm.sequence
         \/ /\ comm'.sequence = comm.sequence + 1
            /\ pkt.type = "ACK" /\ pkt.data = comm.sequence
  <2>1. CASE GoodChecksum(pkt)
    BY <1>1, <1>2, <1>3, <2>1, CommReceivedIsSound
  <2>2. CASE ~GoodChecksum(pkt)
    BY <1>1, <2>2, CommReceivedBadIsSound DEF CommGoesOn
  <2>3. QED
    BY <2>1, <2>2
<1>5. \A p \in Packets(toServer') :
         p.type = "RET" => comm'.sequence <= p.sequence
  <2>1. \A p \in Packets(toServer') : p.sequence \in Nat
    BY <1>2, <1>3 DEF FromRcopy, StreamPackets
  <2>2. QED
    BY <1>1, <1>2, <1>3, <1>4, <2>1
<1>6. \A p \in Packets(toClient') : p.type = "DAT" =>
         ~FromfdUnset(comm') /\ p.sequence <= comm'.sequence
  <2>1. \A p \in Packets(toClient') : p.sequence \in Nat
    BY <1>2 DEF FromServer, StreamPackets
  <2>2. QED
    BY <1>1, <1>4, <2>1 DEF ClientSound, StaysSound
<1>7. ~Waits(c)'
  BY DEF Waits
<1>8. /\ \A p \in Packets(toClient') : FromServer(p, n)
      /\ \A p \in Packets(toServer') : FromRcopy(p, n)
  BY <1>2, <1>3
<1>9. ClientSound(c)'
  BY <1>3, <1>4, <1>5, <1>6, <1>7, <1>8 DEF ClientSound, StaysSound
<1>10. QED
  BY <1>4, <1>9 DEF StaysSound

\* recv() finds the end of the stream: the server asks for a packet again.
LEMMA ServerAsksSound ==
    ASSUME TypeOK, NEW c \in Clients, ClientSound(c), server = c,
           CommGoesOn(comm), "TRANSMIT" \notin comm.status,
           rcopy[c] # NotStarted, ~Waits(c),
           comm' = CommReceivedBad(comm),
           UNCHANGED <<rcopy, server, backlog, stream>>
    PROVE  ClientSound(c)' /\ comm' \in CommType
<1> DEFINE n == rcopy[c].sequence
<1>1. n \in Nat /\ comm \in CommType /\ CommSound(comm, n)
  BY ClientTypeFacts DEF ClientSound, TypeOK
<1>2. StaysSound(comm, comm', n) /\ comm'.sequence = comm.sequence
  BY <1>1, CommReceivedBadIsSound DEF CommGoesOn
<1>3. ~Waits(c)'
  BY DEF Waits
<1>4. ClientSound(c)'
  BY <1>2, <1>3 DEF ClientSound, StaysSound
<1>5. QED
  BY <1>2, <1>4 DEF StaysSound

-----------------------------------------------------------------------------
(* The actions *)

\* What a step makes of an rcopy.
RcopyMoves(c) ==
    \/ rcopy'[c] = rcopy[c]
    \/ /\ rcopy[c] = NotStarted
       /\ \/ rcopy'[c] = RcopyStart(c)
          \/ rcopy'[c] = [RcopyStart(c) EXCEPT !.returned = "failure"]
    \/ /\ rcopy[c] # NotStarted /\ rcopy[c].returned = "no"
       /\ \/ KeepsFile(rcopy[c], rcopy'[c])
          \/ WritesBlock(rcopy[c], rcopy'[c])
          \/ \E r \in {"success", "unreachable", "failure", "killed", "interrupted"} :
                rcopy'[c] = [rcopy[c] EXCEPT !.returned = r]

\* A step that connects no one and accepts no one keeps the queue as it was.
LEMMA ConnectsOnceStays ==
    ASSUME TypeOK, ConnectsOnce, UNCHANGED <<server, backlog>>,
           server = Accepting => comm' = comm,
           \A c \in Clients : rcopy[c] # NotStarted => rcopy'[c] # NotStarted
    PROVE  ConnectsOnce' /\ \A c \in Clients : Waits(c)' <=> Waits(c)
<1>1. \A i \in DOMAIN backlog : backlog[i] \in Clients
  BY ElementOfSeq, LenProperties DEF TypeOK
<1>2. QED
  BY <1>1 DEF ConnectsOnce, Waits

\* connect(): the client is not known to anyone yet.
LEMMA RcopyConnectsKeeps ==
    ASSUME IInv, NEW c \in Clients, RcopyConnects(c)
    PROVE  IInv' /\ \A d \in Clients : RcopyMoves(d)
<1> USE DEF IInv
<1>0. /\ rcopy[c] = NotStarted
      /\ backlog \in Seq(Clients)
      /\ \A i \in DOMAIN backlog : backlog[i] \in Clients /\ backlog[i] # c
      /\ server # c
      /\ ClientEnd(c) \in Ends /\ ServerEnd(c) \in Ends
  BY ElementOfSeq, LenProperties, EndFacts DEF RcopyConnects, TypeOK, ConnectsOnce
<1> DEFINE s == RcopyStart(c)
           f == [s EXCEPT !.returned = "failure"]
<1>1. /\ s \in RcopyType /\ RcopySound(s) /\ s.sequence = 0
      /\ f \in RcopyType /\ RcopySound(f) /\ f.sequence = 0
  <2>1. s \in RcopyType /\ RcopySound(s) /\ s.sequence = 0
    BY RcopyStartIsSound
  <2> HIDE DEF s
  <2>2. f \in RcopyType /\ RcopySound(f) /\ f.sequence = s.sequence
    BY <2>1, RcopyReturnsIsSound
  <2>3. QED
    BY <2>1, <2>2
<1>2. /\ rcopy'[c] \in {s, f}
      /\ \A d \in Clients : d # c => rcopy'[d] = rcopy[d]
      /\ rcopy' = [rcopy EXCEPT ![c] = s] \/ rcopy' = [rcopy EXCEPT ![c] = f]
      /\ backlog' = Append(backlog, c) \/ backlog' = backlog
      /\ link' = [link EXCEPT ![ClientEnd(c)] = "open", ![ServerEnd(c)] = "open"]
         \/ link' = link
      /\ UNCHANGED <<server, comm, stream, faults>>
  BY DEF RcopyConnects, TypeOK
<1> HIDE DEF s, f
<1>3. rcopy'[c] \in RcopyType /\ rcopy'[c] # NotStarted /\ RcopySound(rcopy'[c])
      /\ rcopy'[c].sequence = 0
  BY <1>1, <1>2, ClientTypeFacts
<1>4. TypeOK'
  <2>1. rcopy' \in [Clients -> {NotStarted} \union RcopyType]
    BY <1>1, <1>2 DEF TypeOK
  <2>2. backlog' \in Seq(Clients)
    BY <1>0, <1>2, AppendProperties
  <2>3. link' \in [Ends -> LinkState]
    BY <1>0, <1>2 DEF TypeOK, LinkState
  <2>4. QED
    BY <1>2, <2>1, <2>2, <2>3 DEF TypeOK
<1>5. \A i \in DOMAIN backlog' :
         \/ i \in DOMAIN backlog /\ backlog'[i] = backlog[i]
         \/ i = Len(backlog) + 1 /\ backlog'[i] = c
  BY <1>0, <1>2, AppendProperties, LenProperties
<1>6. ConnectsOnce'
  <2>1. \A i, j \in DOMAIN backlog' : i # j => backlog'[i] # backlog'[j]
    BY <1>0, <1>5 DEF ConnectsOnce
  <2>2. \A i \in DOMAIN backlog' :
           backlog'[i] # server' /\ rcopy'[backlog'[i]] # NotStarted
    BY <1>0, <1>2, <1>3, <1>5 DEF ConnectsOnce
  <2>3. server' \in Clients => rcopy'[server'] # NotStarted
    BY <1>0, <1>2 DEF ConnectsOnce
  <2>4. QED
    BY <1>2, <2>1, <2>2, <2>3 DEF ConnectsOnce
<1>7. ASSUME NEW d \in Clients, d # c
      PROVE  ClientSound(d)'
  <2>1. Waits(d)' => Waits(d)
    BY <1>5, <1>7 DEF Waits
  <2>2. QED
    BY <1>2, <1>7, <2>1, OtherStaysSound
<1>8. ClientSound(c)'
  <2>1. stream'[ClientEnd(c)] = <<>> /\ stream'[ServerEnd(c)] = <<>>
    BY <1>0, <1>2 DEF ClientSound
  <2>2. Packets(<<>>) = {} /\ RequestsFollowAcks(<<>>)
    BY DEF Packets, RequestsFollowAcks
  <2>3. QED
    BY <1>0, <1>2, <1>3, <2>1, <2>2 DEF ClientSound
<1>9. \A d \in Clients : RcopyMoves(d)
  BY <1>0, <1>2 DEF RcopyMoves, s, f
<1>10. QED
  BY <1>4, <1>6, <1>7, <1>8, <1>9

\* A round of the loop of rcopy is for itself, and for the server that serves it.
LEMMA RcopyTransmitsKeeps ==
    ASSUME IInv, NEW c \in Clients, RcopyTransmits(c)
    PROVE  IInv' /\ \A d \in Clients : RcopyMoves(d)
<1> USE DEF IInv
<1>0. /\ rcopy[c] # NotStarted /\ rcopy[c].returned = "no"
      /\ rcopy[c] \in RcopyType /\ RcopySound(rcopy[c])
      /\ rcopy[c].outpkt \in StreamPackets
      /\ StreamTypeOK
  BY ClientTypeFacts
  DEF RcopyTransmits, RcopyRuns, RcopyGoesOn, ClientSound, RcopySound, FromRcopy
<1>1. /\ rcopy' = [rcopy EXCEPT ![c] = RcopySent(rcopy[c])]
      /\ rcopy'[c] = RcopySent(rcopy[c])
      /\ \A d \in Clients : d # c => rcopy'[d] = rcopy[d]
      /\ UNCHANGED <<server, comm, backlog>>
  BY DEF RcopyTransmits, TypeOK
<1>2. KeepsFile(rcopy[c], rcopy'[c])
  BY <1>0, <1>1, RcopySentIsSound
<1>3. /\ StreamTypeOK'
      /\ Grows(stream[ServerEnd(c)], stream'[ServerEnd(c)], rcopy[c].outpkt)
      /\ \A e \in Ends : e # ServerEnd(c) => stream'[e] = stream[e]
  <2>1. SendErr(ClientEnd(c), rcopy[c].outpkt)
    BY DEF RcopyTransmits
  <2>2. QED
    BY <1>0, <2>1, EndFacts, SendErrFacts
<1>4. /\ rcopy'[c] \in RcopyType /\ RcopySound(rcopy'[c])
      /\ rcopy'[c] # NotStarted /\ rcopy'[c].sequence = rcopy[c].sequence
  BY <1>2, ClientTypeFacts DEF KeepsFile
<1>5. TypeOK'
  BY <1>1, <1>3, <1>4 DEF TypeOK, StreamTypeOK
<1>6. ConnectsOnce' /\ \A d \in Clients : Waits(d)' <=> Waits(d)
  BY <1>1, <1>4, ConnectsOnceStays
<1>7. ClientSound(c)'
  BY <1>0, <1>1, <1>3, <1>4, EndFacts, ClientSendsSound
<1>8. ASSUME NEW d \in Clients, d # c
      PROVE  ClientSound(d)'
  BY <1>1, <1>3, <1>6, <1>8, EndFacts, OtherStaysSound
<1>9. \A d \in Clients : RcopyMoves(d)
  BY <1>0, <1>1, <1>2 DEF RcopyMoves
<1>10. QED
  BY <1>5, <1>6, <1>7, <1>8, <1>9

LEMMA RcopyReceivesKeeps ==
    ASSUME IInv, NEW c \in Clients, RcopyReceives(c)
    PROVE  IInv' /\ \A d \in Clients : RcopyMoves(d)
<1> USE DEF IInv
<1> DEFINE toClient == stream[ClientEnd(c)]
           pkt == toClient[1]
<1>0. /\ rcopy[c] # NotStarted /\ rcopy[c].returned = "no" /\ RcopyGoesOn(rcopy[c])
      /\ rcopy[c] \in RcopyType /\ RcopySound(rcopy[c])
      /\ StreamTypeOK /\ toClient \in Seq(StreamPackets)
  BY ClientTypeFacts DEF RcopyReceives, RcopyRuns, RcopyGoesOn, ClientSound
<1>1. /\ \A d \in Clients : d # c => rcopy'[d] = rcopy[d]
      /\ UNCHANGED <<server, comm, backlog>>
  BY DEF RcopyReceives, TypeOK
<1>2. CASE HasPacket(ClientEnd(c)) /\ Take(ClientEnd(c))
  <2>1. /\ StreamTypeOK'
        /\ \A e \in Ends : e # ClientEnd(c) => stream'[e] = stream[e]
        /\ Head(toClient) = pkt
        /\ Beheads(toClient, toClient')
    BY <1>0, <1>2, EndFacts, TakeFacts DEF Beheads
  <2>2. \E t : rcopy' = [rcopy EXCEPT ![c] = t] /\
               t = IF GoodChecksum(pkt) THEN RcopyReceived(rcopy[c], pkt)
                                        ELSE RcopyReceivedBad(rcopy[c])
    BY <1>2, <2>1 DEF RcopyReceives, AtEnd, HasPacket
  <2>3. rcopy'[c] = IF GoodChecksum(pkt) THEN RcopyReceived(rcopy[c], pkt)
                                         ELSE RcopyReceivedBad(rcopy[c])
    BY <2>2 DEF TypeOK
  <2>4. /\ ClientSound(c)'
        /\ KeepsFile(rcopy[c], rcopy'[c]) \/ WritesBlock(rcopy[c], rcopy'[c])
    BY <1>0, <1>1, <2>1, <2>3, EndFacts, ClientTakesSound
  <2>5. rcopy'[c] \in RcopyType /\ rcopy'[c] # NotStarted
    BY <2>4, ClientTypeFacts DEF KeepsFile, WritesBlock
  <2>6. TypeOK'
    BY <1>1, <2>1, <2>2, <2>3, <2>5 DEF TypeOK, StreamTypeOK
  <2>7. ConnectsOnce' /\ \A d \in Clients : Waits(d)' <=> Waits(d)
    BY <1>1, <2>5, ConnectsOnceStays
  <2>8. ASSUME NEW d \in Clients, d # c
        PROVE  ClientSound(d)'
    BY <1>1, <2>1, <2>7, <2>8, EndFacts, OtherStaysSound
  <2>9. \A d \in Clients : RcopyMoves(d)
    BY <1>0, <1>1, <2>4 DEF RcopyMoves
  <2>10. QED
    BY <2>4, <2>6, <2>7, <2>8, <2>9
<1>3. CASE AtEnd(ClientEnd(c)) /\ UNCHANGED streamVars
  <2>1. /\ rcopy' = [rcopy EXCEPT ![c] = RcopyReceivedBad(rcopy[c])]
        /\ rcopy'[c] = RcopyReceivedBad(rcopy[c])
    BY <1>3 DEF RcopyReceives, AtEnd, HasPacket, TypeOK
  <2>2. KeepsFile(rcopy[c], rcopy'[c])
    BY <1>0, <2>1, RcopyReceivedBadIsSound
  <2>3. /\ rcopy'[c] \in RcopyType /\ rcopy'[c] # NotStarted
        /\ RcopyKeeps(rcopy[c], rcopy'[c])
    BY <1>0, <2>2, ClientTypeFacts DEF KeepsFile, RcopyKeeps
  <2>4. TypeOK' /\ stream' = stream
    BY <1>1, <1>3, <2>1, <2>3 DEF TypeOK, streamVars
  <2>5. ConnectsOnce' /\ \A d \in Clients : Waits(d)' <=> Waits(d)
    BY <1>1, <2>3, ConnectsOnceStays
  <2>6. ASSUME NEW d \in Clients
        PROVE  ClientSound(d)'
    BY <1>1, <2>3, <2>4, <2>5, ClientTypeFacts, SpoilsReflexive, ClientStaysSound
    DEF RcopyKeeps
  <2>7. \A d \in Clients : RcopyMoves(d)
    BY <1>0, <1>1, <2>2 DEF RcopyMoves
  <2>8. QED
    BY <2>4, <2>5, <2>6, <2>7
<1>4. QED
  BY <1>2, <1>3 DEF RcopyReceives

\* rcopy returns, or is killed, and its socket is closed.
LEMMA RcopyEndsKeeps ==
    ASSUME IInv, NEW c \in Clients, rcopy[c] # NotStarted, rcopy[c].returned = "no",
           NEW r \in {"success", "unreachable", "failure", "killed", "interrupted"},
           RcopyEnds(c, [rcopy[c] EXCEPT !.returned = r]), faults' \in Nat
    PROVE  IInv' /\ \A d \in Clients : RcopyMoves(d)
<1> USE DEF IInv
<1> DEFINE t == [rcopy[c] EXCEPT !.returned = r]
<1>0. rcopy[c] \in RcopyType /\ RcopySound(rcopy[c]) /\ StreamTypeOK
  BY ClientTypeFacts DEF ClientSound
<1>1. /\ rcopy' = [rcopy EXCEPT ![c] = t] /\ rcopy'[c] = t
      /\ \A d \in Clients : d # c => rcopy'[d] = rcopy[d]
      /\ UNCHANGED <<server, comm, backlog>>
  BY DEF RcopyEnds, TypeOK
<1>2. t \in RcopyType /\ RcopySound(t) /\ t.sequence = rcopy[c].sequence
  BY <1>0, RcopyReturnsIsSound
<1>3. \A d \in Clients : RcopyMoves(d)
  BY <1>1 DEF RcopyMoves
<1> HIDE DEF t
<1>4. StreamTypeOK' /\ \A e \in Ends : Spoils(stream[e], stream'[e])
  <2>1. Close({ClientEnd(c)}, {})
    BY DEF RcopyEnds
  <2>2. QED
    BY <1>0, <2>1, CloseFacts
<1>5. TypeOK'
  BY <1>1, <1>2, <1>4 DEF TypeOK, StreamTypeOK
<1>6. rcopy'[c] # NotStarted
  BY <1>1, <1>2, ClientTypeFacts
<1>7. ConnectsOnce' /\ \A d \in Clients : Waits(d)' <=> Waits(d)
  BY <1>1, <1>6, ConnectsOnceStays
<1>8. \A d \in Clients : RcopyKeeps(rcopy[d], rcopy'[d])
  BY <1>1, <1>2 DEF RcopyKeeps
<1>9. ASSUME NEW d \in Clients
      PROVE  ClientSound(d)'
  BY <1>1, <1>4, <1>7, <1>8, EndFacts, ClientStaysSound
<1>10. QED
  BY <1>3, <1>5, <1>7, <1>9

LEMMA RcopyExitsKeeps ==
    ASSUME IInv, NEW c \in Clients, RcopyExits(c)
    PROVE  IInv' /\ \A d \in Clients : RcopyMoves(d)
<1>1. \E r \in {"success", "unreachable", "failure", "killed", "interrupted"} :
         RcopyEnds(c, [rcopy[c] EXCEPT !.returned = r])
  BY DEF RcopyExits, RcopyReturns
<1>2. rcopy[c] # NotStarted /\ rcopy[c].returned = "no" /\ faults' \in Nat
  BY DEF RcopyExits, IInv, TypeOK
<1>3. QED
  BY <1>1, <1>2, RcopyEndsKeeps

LEMMA RcopyInterruptedKeeps ==
    ASSUME IInv, NEW c \in Clients, RcopyInterrupted(c)
    PROVE  IInv' /\ \A d \in Clients : RcopyMoves(d)
<1>1. RcopyEnds(c, [rcopy[c] EXCEPT !.returned = "interrupted"])
  BY DEF RcopyInterrupted
<1>2. rcopy[c] # NotStarted /\ rcopy[c].returned = "no" /\ faults' \in Nat
  BY DEF RcopyInterrupted, RcopyRuns, RcopyGoesOn, Fault, IInv, TypeOK
<1>3. QED
  BY <1>1, <1>2, RcopyEndsKeeps

\* accept(): the first in the queue has waited with nothing sent to it.
LEMMA AcceptsKeeps ==
    ASSUME IInv, Accepts
    PROVE  IInv' /\ \A d \in Clients : RcopyMoves(d)
<1> USE DEF IInv
<1>0. /\ server = Accepting /\ comm = CommStart /\ server \notin Clients
      /\ backlog \in Seq(Clients) /\ backlog # <<>>
      /\ server' = Head(backlog) /\ backlog' = Tail(backlog)
      /\ UNCHANGED <<rcopy, comm, stream, link, faults>>
  BY NamesAssumption DEF Accepts, ConnectsOnce, TypeOK, streamVars
<1>1. PICK c \in Clients :
      /\ Head(backlog) = c /\ backlog[1] = c /\ 1 \in DOMAIN backlog
      /\ backlog' \in Seq(Clients)
      /\ \A i \in DOMAIN backlog' : i + 1 \in DOMAIN backlog /\ i + 1 # 1
            /\ backlog'[i] = backlog[i + 1]
  <2>1. Len(backlog) \in Nat /\ Len(backlog) > 0
    BY <1>0, EmptySeq, LenProperties
  <2>2. /\ backlog' \in Seq(Clients) /\ Len(backlog') = Len(backlog) - 1
        /\ \A i \in 1 .. Len(backlog') : backlog'[i] = backlog[i + 1]
    BY <1>0, HeadTailProperties
  <2>3. DOMAIN backlog = 1 .. Len(backlog) /\ DOMAIN backlog' = 1 .. Len(backlog')
    BY <1>0, <2>2, LenProperties
  <2>4. Head(backlog) = backlog[1] /\ backlog[1] \in Clients
    BY <1>0, <2>1, HeadTailProperties
  <2>5. QED
    BY <2>1, <2>2, <2>3, <2>4
<1>2. TypeOK'
  BY <1>0, <1>1 DEF TypeOK
<1>3. ConnectsOnce'
  <2>1. \A i, j \in DOMAIN backlog' : i # j => i + 1 # j + 1
    BY <1>1, LenProperties
  <2>2. \A i, j \in DOMAIN backlog' : i # j => backlog'[i] # backlog'[j]
    BY <1>1, <2>1 DEF ConnectsOnce
  <2>3. \A i \in DOMAIN backlog' :
           backlog'[i] # server' /\ rcopy'[backlog'[i]] # NotStarted
    BY <1>0, <1>1 DEF ConnectsOnce
  <2>4. rcopy'[server'] # NotStarted /\ server' # Accepting
    BY <1>0, <1>1, NamesAssumption DEF ConnectsOnce
  <2>5. QED
    BY <2>2, <2>3, <2>4 DEF ConnectsOnce
<1>4. \A d \in Clients : Waits(d)' => Waits(d)
  BY <1>1 DEF Waits
<1>5. Waits(c) /\ rcopy[c] # NotStarted
  BY <1>1 DEF Waits, ConnectsOnce
<1>6. ClientSound(c)'
  BY <1>0, <1>1, <1>5, ClientAcceptedSound
<1>7. ASSUME NEW d \in Clients, d # c
      PROVE  ClientSound(d)'
  BY <1>0, <1>1, <1>4, <1>7, OtherStaysSound
<1>8. \A d \in Clients : RcopyMoves(d)
  BY <1>0 DEF RcopyMoves
<1>9. QED
  BY <1>2, <1>3, <1>6, <1>7, <1>8

\* What IInv says of the client that is served.
LEMMA ServedFacts ==
    ASSUME IInv, NEW c \in Clients, server = c
    PROVE  /\ TypeOK /\ ConnectsOnce /\ StreamTypeOK /\ ClientSound(c)
           /\ comm \in CommType /\ rcopy[c] # NotStarted /\ ~Waits(c)
           /\ server # Accepting
  BY ClientTypeFacts, NamesAssumption DEF IInv, TypeOK, ConnectsOnce, Waits

\* A round of client_comm is for the client it serves.
LEMMA CommTransmitsKeeps ==
    ASSUME IInv, NEW c \in Clients, CommTransmits(c)
    PROVE  IInv' /\ \A d \in Clients : RcopyMoves(d)
<1> USE DEF IInv
<1>0. /\ server = c /\ CommGoesOn(comm) /\ "TRANSMIT" \in comm.status
      /\ comm' = CommSent(comm, Files)
      /\ SendErr(ServerEnd(c), comm.outpkt)
      /\ UNCHANGED <<rcopy, server, backlog>>
  BY DEF CommTransmits
<1>1. comm.outpkt \in StreamPackets
  BY DEF TypeOK, CommType
<1>2. /\ StreamTypeOK'
      /\ Grows(stream[ClientEnd(c)], stream'[ClientEnd(c)], comm.outpkt)
      /\ \A e \in Ends : e # ClientEnd(c) => stream'[e] = stream[e]
  BY <1>0, <1>1, ServedFacts, EndFacts, SendErrFacts
<1>3. ClientSound(c)' /\ comm' \in CommType
  BY <1>0, <1>2, ServedFacts, EndFacts, ServerSendsSound
<1>4. TypeOK'
  BY <1>0, <1>2, <1>3 DEF TypeOK, StreamTypeOK
<1>5. ConnectsOnce' /\ \A d \in Clients : Waits(d)' <=> Waits(d)
  BY <1>0, ServedFacts, ConnectsOnceStays
<1>6. ASSUME NEW d \in Clients, d # c
      PROVE  ClientSound(d)'
  BY <1>0, <1>2, <1>5, <1>6, EndFacts, OtherStaysSound
<1>7. QED
  BY <1>0, <1>3, <1>4, <1>5, <1>6 DEF RcopyMoves

LEMMA CommReceivesKeeps ==
    ASSUME BlocksDiffer, IInv, NEW c \in Clients, CommReceives(c)
    PROVE  IInv' /\ \A d \in Clients : RcopyMoves(d)
<1> USE DEF IInv
<1> DEFINE toServer == stream[ServerEnd(c)]
           pkt == toServer[1]
<1>0. /\ server = c /\ CommGoesOn(comm) /\ "TRANSMIT" \notin comm.status
      /\ UNCHANGED <<rcopy, server, backlog>>
  BY DEF CommReceives
<1>1. ConnectsOnce' /\ \A d \in Clients : Waits(d)' <=> Waits(d)
  BY <1>0, ServedFacts, ConnectsOnceStays
<1>2. CASE HasPacket(ServerEnd(c)) /\ Take(ServerEnd(c))
  <2>1. /\ StreamTypeOK'
        /\ \A e \in Ends : e # ServerEnd(c) => stream'[e] = stream[e]
        /\ Head(toServer) = pkt
        /\ Beheads(toServer, toServer')
    BY <1>0, <1>2, ServedFacts, EndFacts, TakeFacts DEF Beheads
  <2>2. comm' = IF GoodChecksum(pkt) THEN CommReceived(comm, pkt, Files)
                                     ELSE CommReceivedBad(comm)
    BY <1>2, <2>1 DEF CommReceives, AtEnd, HasPacket
  <2>3. ClientSound(c)' /\ comm' \in CommType
    BY <1>0, <2>1, <2>2, ServedFacts, EndFacts, ServerTakesSound
  <2>4. TypeOK'
    BY <1>0, <2>1, <2>3 DEF TypeOK, StreamTypeOK
  <2>5. ASSUME NEW d \in Clients, d # c
        PROVE  ClientSound(d)'
    BY <1>0, <1>1, <2>1, <2>5, EndFacts, OtherStaysSound
  <2>6. QED
    BY <1>0, <1>1, <2>3, <2>4, <2>5 DEF RcopyMoves
<1>3. CASE AtEnd(ServerEnd(c)) /\ UNCHANGED streamVars
  <2>1. comm' = CommReceivedBad(comm) /\ UNCHANGED <<stream, link, faults>>
    BY <1>3 DEF CommReceives, AtEnd, HasPacket, streamVars
  <2>2. ClientSound(c)' /\ comm' \in CommType
    BY <1>0, <2>1, ServedFacts, ServerAsksSound
  <2>3. TypeOK'
    BY <1>0, <2>1, <2>2 DEF TypeOK
  <2>4. ASSUME NEW d \in Clients, d # c
        PROVE  ClientSound(d)'
    BY <1>0, <1>1, <2>1, <2>4, OtherStaysSound
  <2>5. QED
    BY <1>0, <1>1, <2>2, <2>3, <2>4 DEF RcopyMoves
<1>4. QED
  BY <1>2, <1>3 DEF CommReceives

\* The server stops serving anyone: whatever it leaves in the streams is spoilt
\* at most.
LEMMA ServesNoOneKeeps ==
    ASSUME IInv, rcopy' = rcopy, faults' = faults,
           \/ server' = Accepting /\ comm' = CommStart /\ backlog' = backlog
           \/ server' = Dead /\ comm' = comm /\ backlog' = <<>>,
           NEW closed, NEW refused, Close(closed, refused)
    PROVE  IInv' /\ \A d \in Clients : RcopyMoves(d)
<1> USE DEF IInv
<1>1. StreamTypeOK /\ faults' \in Nat
  BY DEF TypeOK, StreamTypeOK
<1>2. StreamTypeOK' /\ \A e \in Ends : Spoils(stream[e], stream'[e])
  BY <1>1, CloseFacts
<1>3. server' \notin Clients /\ Accepting # Dead
  BY NamesAssumption DEF Accepting, Dead
<1>4. TypeOK'
  <2>1. comm' \in CommType /\ server' \in Clients \union {Accepting, Dead}
    BY CommStartIsSound DEF TypeOK
  <2>2. backlog' \in Seq(Clients)
    <3>1. <<>> \in Seq(Clients) /\ backlog \in Seq(Clients)
      BY EmptySeq DEF TypeOK
    <3>2. QED
      BY <3>1
  <2>3. QED
    BY <1>2, <2>1, <2>2 DEF TypeOK, StreamTypeOK
<1>5. ConnectsOnce' /\ \A d \in Clients : Waits(d)' => Waits(d)
  <2>1. CASE backlog' = backlog /\ server' = Accepting /\ comm' = CommStart
    <3>1. \A i \in DOMAIN backlog : backlog[i] \in Clients
      BY ElementOfSeq, LenProperties DEF TypeOK
    <3>2. QED
      BY <1>3, <2>1, <3>1 DEF ConnectsOnce, Waits
  <2>2. CASE backlog' = <<>> /\ server' = Dead
    BY <1>3, <2>2 DEF ConnectsOnce, Waits
  <2>3. QED
    BY <2>1, <2>2
<1>6. ASSUME NEW d \in Clients
      PROVE  ClientSound(d)'
  BY <1>2, <1>3, <1>5, EndFacts, ClientStaysSound DEF RcopyKeeps
<1>7. QED
  BY <1>4, <1>5, <1>6 DEF RcopyMoves

LEMMA CommEndsKeeps ==
    ASSUME IInv, NEW c \in Clients, CommEnds(c) \/ ServerKilled(c)
    PROVE  IInv' /\ \A d \in Clients : RcopyMoves(d)
<1>1. /\ ReturnsToAccept(c) \/ ServerDies(c)
      /\ faults' = faults
  BY DEF CommEnds, ServerKilled
<1>2. CASE ReturnsToAccept(c)
  BY <1>1, <1>2, ServesNoOneKeeps DEF ReturnsToAccept
<1>3. CASE ServerDies(c)
  BY <1>1, <1>3, ServesNoOneKeeps DEF ServerDies
<1>4. QED
  BY <1>1, <1>2, <1>3

LEMMA StreamActsKeeps ==
    ASSUME IInv, StreamActs
    PROVE  IInv' /\ \A d \in Clients : RcopyMoves(d)
<1> USE DEF IInv
<1>1. /\ StreamTypeOK /\ Cut
      /\ UNCHANGED <<rcopy, server, comm, backlog>>
  BY DEF TypeOK, StreamTypeOK, StreamActs
<1>2. StreamTypeOK' /\ \A e \in Ends : Spoils(stream[e], stream'[e])
  BY <1>1, CutFacts
<1>3. TypeOK'
  BY <1>1, <1>2 DEF TypeOK, StreamTypeOK
<1>4. ConnectsOnce' /\ \A d \in Clients : Waits(d)' <=> Waits(d)
  BY <1>1, ConnectsOnceStays
<1>5. ASSUME NEW d \in Clients
      PROVE  ClientSound(d)'
  BY <1>1, <1>2, <1>4, EndFacts, ClientStaysSound DEF RcopyKeeps
<1>6. QED
  BY <1>1, <1>3, <1>4, <1>5 DEF RcopyMoves

LEMMA StutterKeeps ==
    ASSUME IInv, UNCHANGED vars
    PROVE  IInv' /\ \A d \in Clients : RcopyMoves(d)
<1>1. /\ UNCHANGED <<rcopy, server, comm, backlog, stream, link, faults>>
  BY DEF vars
<1>2. TypeOK' /\ ConnectsOnce'
  BY <1>1 DEF IInv, TypeOK, ConnectsOnce
<1>3. ASSUME NEW d \in Clients
      PROVE  ClientSound(d)'
  BY <1>1, OtherStaysSound DEF IInv, Waits
<1>4. QED
  BY <1>1, <1>2, <1>3 DEF IInv, RcopyMoves

\* Every step keeps the invariant.
LEMMA NextKeeps ==
    ASSUME BlocksDiffer, IInv, [Next]_vars
    PROVE  IInv' /\ \A c \in Clients : RcopyMoves(c)
<1>1. ASSUME NEW c \in Clients, RcopyStep(c) \/ RcopyInterrupted(c)
      PROVE  IInv' /\ \A d \in Clients : RcopyMoves(d)
  BY <1>1, RcopyConnectsKeeps, RcopyTransmitsKeeps, RcopyReceivesKeeps,
     RcopyExitsKeeps, RcopyInterruptedKeeps
  DEF RcopyStep
<1>2. ASSUME NEW c \in Clients, CommStep(c)
      PROVE  IInv' /\ \A d \in Clients : RcopyMoves(d)
  BY <1>2, CommTransmitsKeeps, CommReceivesKeeps, CommEndsKeeps DEF CommStep
<1>3. CASE Terminated \/ UNCHANGED vars
  BY <1>3, StutterKeeps DEF Terminated
<1>4. QED
  BY <1>1, <1>2, <1>3, AcceptsKeeps, StreamActsKeeps DEF Next

\* Nothing is connected yet, and nothing was sent.
LEMMA InitSound ==
    ASSUME Init
    PROVE  IInv
<1> USE DEF Init, StreamInit
<1>1. <<>> \in Seq(Clients) /\ <<>> \in Seq(StreamPackets)
  BY EmptySeq
<1>2. TypeOK
  BY <1>1, CommStartIsSound DEF TypeOK, LinkState
<1>3. server \notin Clients /\ \A c \in Clients : ~Waits(c) /\ rcopy[c] = NotStarted
  BY NamesAssumption DEF Waits
<1>4. ConnectsOnce
  BY <1>3 DEF ConnectsOnce
<1>5. ASSUME NEW c \in Clients
      PROVE  ClientSound(c)
  BY <1>3, EndFacts DEF ClientSound
<1>6. QED
  BY <1>2, <1>4, <1>5 DEF IInv

-----------------------------------------------------------------------------
(* Theorems *)

\* The inductive invariant.  Of one connection it says what either side may have
\* sent, that requests for a block are behind the ACKs of the blocks before it,
\* and that the server's packet is the block its client lacks, the one the client
\* wrote last, or one the client refuses (server.c:257-330, rcopy.c:233-313).
THEOREM ConnectionsAreSound ==
    ASSUME BlocksDiffer
    PROVE  Spec => []IInv
<1>1. Init => IInv
  BY InitSound
<1>2. IInv /\ [Next]_vars => IInv'
  BY NextKeeps
<1>3. QED
  BY <1>1, <1>2, PTL DEF Spec

\* Every variable has its type.
THEOREM TypesAreKept ==
    ASSUME BlocksDiffer
    PROVE  Spec => []TypeOK
<1>1. IInv => TypeOK
  BY DEF IInv
<1>2. QED
  BY <1>1, ConnectionsAreSound, PTL

\* The server is never ahead of the client it serves, and at most one block
\* behind it, whatever is damaged and however often blocks are sent again
\* (server.c:264-286, 295-313).
THEOREM ServerIsInStep ==
    ASSUME BlocksDiffer
    PROVE  Spec => []InStep
<1>1. IInv => InStep
  <2> SUFFICES ASSUME IInv, NEW c \in Clients, server = c
               PROVE  rcopy[c].sequence - comm.sequence \in {0, 1}
    BY DEF InStep
  <2>1. rcopy[c].sequence \in Nat /\ comm.sequence \in Nat
    BY ServedFacts, ClientTypeFacts, FileAssumption DEF CommType, EndOfFile
  <2>2. /\ comm.sequence <= rcopy[c].sequence
        /\ rcopy[c].sequence <= comm.sequence + 1
    BY DEF IInv, ClientSound, CommSound
  <2>3. QED
    BY <2>1, <2>2
<1>2. QED
  BY <1>1, ConnectionsAreSound, PTL

\* Every local file is a prefix of the remote one at any time: no block is
\* missing, written twice or out of order (rcopy.c:281-297).
THEOREM FilesAreCopied ==
    ASSUME BlocksDiffer
    PROVE  Spec => []FilesArePrefixes
<1>1. IInv => FilesArePrefixes
  <2> SUFFICES ASSUME IInv, NEW c \in Clients, rcopy[c] # NotStarted,
                      NEW i \in DOMAIN rcopy[c].tofd
               PROVE  rcopy[c].tofd[i] = i - 1
    BY DEF FilesArePrefixes, SameData
  <2>1. rcopy[c].tofd = [j \in 1 .. rcopy[c].sequence |-> j - 1]
    BY DEF IInv, ClientSound, RcopySound
  <2>2. QED
    BY <2>1
<1>2. QED
  BY <1>1, ConnectionsAreSound, PTL

\* When the last block is not empty, the server takes a file for done only when
\* the client has written all of it.  A file of full blocks is done a block early:
\* the empty packet is never sent (server.c:367-375, 383).
THEOREM DoneFilesAreWhole ==
    ASSUME BlocksDiffer, TailSize # 0
    PROVE  Spec => []DoneMeansWholeFile
<1>1. IInv => DoneMeansWholeFile
  <2> SUFFICES ASSUME IInv, NEW c \in Clients, server = c, "QUIT" \in comm.status
               PROVE  Whole(c)
    BY DEF DoneMeansWholeFile
  <2>1. /\ rcopy[c] # NotStarted /\ RcopySound(rcopy[c])
        /\ CommSound(comm, rcopy[c].sequence)
    BY ServedFacts DEF ClientSound
  <2>2. rcopy[c].sequence = EndOfFile
    BY <2>1 DEF CommSound, NothingSent, SendsBlock
  <2>3. QED
    BY <2>1, <2>2 DEF Whole, RcopySound
<1>2. QED
  BY <1>1, ConnectionsAreSound, PTL

-----------------------------------------------------------------------------
(* The refinement *)

\* What the user of an rcopy has, as its state tells.
LEMMA FileFacts ==
    ASSUME NEW s \in RcopyType, RcopySound(s)
    PROVE  /\ s.sequence \in 0 .. EndOfFile
           /\ EndOfFile = LastBlock + 1 /\ LastBlock \in Nat
           /\ s.tofd = [i \in 1 .. s.sequence |-> i - 1]
           /\ s.tofd \in Seq(Int) /\ Len(s.tofd) = s.sequence
           /\ "END" \in s.status <=> s.sequence = EndOfFile
           /\ s.returned # "not started" /\ s # NotStarted
<1>1. /\ s.sequence \in 0 .. EndOfFile /\ s.sequence \in Nat
      /\ EndOfFile = LastBlock + 1 /\ LastBlock \in Nat
  BY FileAssumption DEF RcopyType, EndOfFile
<1>2. s.tofd = [i \in 1 .. s.sequence |-> i - 1] /\ s.tofd \in Seq(Int)
  BY DEF RcopySound, RcopyType
<1>3. Len(s.tofd) = s.sequence
  BY <1>1, <1>2, LenProperties
<1>4. s.returned # "not started" /\ NotStarted.returned = "not started"
  BY DEF RcopyType, NotStarted
<1>5. QED
  BY <1>1, <1>2, <1>3, <1>4 DEF RcopySound

\* Nothing was copied for an rcopy that does not run yet.
LEMMA NotStartedFacts ==
    ASSUME NEW c \in Clients, rcopy[c] = NotStarted
    PROVE  Written(c) = <<>> /\ Verdict(c) = "none"
<1>1. NotStarted.returned = "not started"
  BY DEF NotStarted
<1>2. ~Whole(c)
  BY DEF Whole
<1>3. Returned(c) = "not started"
  BY <1>1 DEF Returned
<1>4. QED
  BY <1>2, <1>3 DEF Written, Verdict

\* What a step makes of an rcopy is a step of the abstract file copy, or none.
LEMMA MovesCopy ==
    ASSUME IInv, NEW c \in Clients, RcopyMoves(c)
    PROVE  [Copy(c)!Next]_(Copy(c)!vars)
<1> DEFINE s == rcopy[c]
           t == rcopy'[c]
           ended == {"success", "unreachable", "failure", "killed", "interrupted"}
<1>1. CASE t = s
  <2>1. Written(c)' = Written(c) /\ Verdict(c)' = Verdict(c)
    BY <1>1 DEF Written, Verdict, Whole, Returned
  <2>2. QED
    BY <2>1 DEF Copy!vars
<1>2. CASE /\ s = NotStarted
           /\ \/ t = RcopyStart(c)
              \/ t = [RcopyStart(c) EXCEPT !.returned = "failure"]
  <2>1. Written(c) = <<>> /\ Verdict(c) = "none"
    BY <1>2, NotStartedFacts
  <2>2. /\ t.tofd = <<>> /\ "END" \notin t.status
        /\ t.returned \in {"no", "failure"}
    BY <1>2 DEF RcopyStart
  <2>3. Written(c)' = <<>> /\ Verdict(c)' \in {"none", "failed"}
    BY <2>2 DEF Written, Verdict, Whole, Returned
  <2>4. QED
    BY <2>1, <2>3 DEF Copy!vars, Copy!Next, Copy!GiveUp
<1>3. CASE /\ s # NotStarted /\ s.returned = "no"
           /\ \/ KeepsFile(s, t)
              \/ WritesBlock(s, t)
              \/ \E r \in ended : t = [s EXCEPT !.returned = r]
  <2> DEFINE w == Written(c)
             n == s.sequence
  <2>0. s \in RcopyType /\ RcopySound(s)
    BY <1>3, ClientTypeFacts DEF IInv, ClientSound
  <2>1. t \in RcopyType /\ RcopySound(t)
    BY <1>3, <2>0, RcopyReturnsIsSound DEF KeepsFile, WritesBlock
  <2>2. /\ n \in 0 .. EndOfFile /\ EndOfFile = LastBlock + 1 /\ LastBlock \in Nat
        /\ w = [i \in 1 .. n |-> i - 1] /\ w \in Seq(Int) /\ Len(w) = n
        /\ Verdict(c) = IF n = EndOfFile THEN "success" ELSE "none"
    BY <1>3, <2>0, FileFacts DEF Written, Verdict, Whole, Returned
  <2>3. /\ Written(c)' = [i \in 1 .. t.sequence |-> i - 1]
        /\ Verdict(c)' = IF t.sequence = EndOfFile THEN "success"
                         ELSE IF t.returned = "no" THEN "none" ELSE "failed"
    BY <2>1, FileFacts DEF Written, Verdict, Whole, Returned
  <2> HIDE DEF w
  <2>4. CASE KeepsFile(s, t)
    <3>1. Written(c)' = Written(c) /\ Verdict(c)' = Verdict(c)
      BY <1>3, <2>2, <2>3, <2>4 DEF KeepsFile, w
    <3>2. QED
      BY <3>1 DEF Copy!vars
  <2>5. CASE WritesBlock(s, t)
    <3>1. n <= LastBlock /\ t.sequence = n + 1 /\ t.returned = "no"
      BY <1>3, <2>5 DEF WritesBlock
    <3>2. Append(w, n) = [i \in 1 .. n + 1 |-> i - 1]
      BY <2>2, NextBlockAppended
    <3>3. /\ Verdict(c) = "none" /\ Len(Written(c)) <= LastBlock
          /\ Written(c)' = Append(Written(c), Len(Written(c)))
          /\ Verdict(c)' = IF Len(Written(c)) = LastBlock THEN "success" ELSE "none"
      BY <2>2, <2>3, <3>1, <3>2 DEF w
    <3>4. QED
      BY <3>3 DEF Copy!Next, Copy!Write
  <2>6. CASE \E r \in ended : t = [s EXCEPT !.returned = r]
    <3>1. t.sequence = n /\ t.returned # "no"
      BY <2>0, <2>6 DEF RcopyType
    <3>2. /\ Written(c)' = Written(c)
          /\ \/ Verdict(c)' = Verdict(c)
             \/ Verdict(c) = "none" /\ Verdict(c)' = "failed"
      BY <2>2, <2>3, <3>1 DEF w
    <3>3. QED
      BY <3>2 DEF Copy!vars, Copy!Next, Copy!GiveUp
  <2>7. QED
    BY <1>3, <2>4, <2>5, <2>6
<1>4. QED
  BY <1>1, <1>2, <1>3 DEF RcopyMoves

\* Every rcopy copies its file as FileTransfer promises: blocks in order, each
\* once, success with the last one alone, and nothing after a verdict
\* (rcopy.c:281-297).
THEOREM RcopiesImplementFileTransfer ==
    ASSUME BlocksDiffer
    PROVE  Spec => CopiesEveryFile
<1>1. Init => \A c \in Clients : Copy(c)!Init
  <2>1. Init => \A c \in Clients : rcopy[c] = NotStarted
    BY DEF Init
  <2>2. QED
    BY <2>1, NotStartedFacts DEF Copy!Init
<1>2. IInv /\ [Next]_vars =>
         [\A c \in Clients : [Copy(c)!Next]_(Copy(c)!vars)]_vars
  BY NextKeeps, MovesCopy
<1>3. QED
  BY <1>1, <1>2, ConnectionsAreSound, PTL DEF Spec, CopiesEveryFile

=============================================================================
