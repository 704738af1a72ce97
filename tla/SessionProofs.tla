---------------------------- MODULE SessionProofs ----------------------------
(***************************************************************************)
(* The inductive invariant of the whole program (module Session), for any  *)
(* number of clients and ports and every file, window size and capacity,   *)
(* whatever is dropped, flipped, doubled, reordered or late: every step    *)
(* keeps what may be on the way, where each client stands, and how far     *)
(* each child's window has moved.                                          *)
(***************************************************************************)
EXTENDS HandshakeProofs

-----------------------------------------------------------------------------
(* Queues: F says for every socket what may wait there. *)

InQueues(q, F) ==
    /\ q = [s \in Sockets |-> q[s]]
    /\ \A s \in Sockets : q[s] \in Seq(F[s])

\* Changing one queue to another of the same kind.
LEMMA QueueChanged ==
    ASSUME NEW F, NEW q, InQueues(q, F), NEW s \in Sockets, NEW v \in Seq(F[s])
    PROVE  InQueues([q EXCEPT ![s] = v], F)
<1>1. PICK r : r = [q EXCEPT ![s] = v]
  OBVIOUS
<1>2. DOMAIN q = Sockets
  BY DEF InQueues
<1>3. r = [x \in Sockets |-> r[x]]
  BY <1>1, <1>2
<1>4. ASSUME NEW x \in Sockets
      PROVE  r[x] \in Seq(F[x])
  BY <1>1, <1>2 DEF InQueues
<1>5. QED
  BY <1>1, <1>3, <1>4 DEF InQueues

LEMMA DeliverKeeps ==
    ASSUME NEW F, NEW q, InQueues(q, F), NEW to \in Sockets, NEW d \in F[to]
    PROVE  InQueues(Deliver(q, to, d), F)
<1>1. q[to] \in Seq(F[to])
  BY DEF InQueues
<1>2. Append(q[to], d) \in Seq(F[to])
  BY <1>1, AppendProperties
<1>3. InQueues([q EXCEPT ![to] = Append(q[to], d)], F)
  BY <1>2, QueueChanged
<1>4. QED
  BY <1>3 DEF Deliver

\* sendtoErr: the packet, or what is left of it, may wait at its receiver's.
LEMMA SendtoErrKeeps ==
    ASSUME NEW F, NEW q, InQueues(q, F), NEW from, NEW to \in Sockets, NEW pkt,
           Datagram(from, pkt) \in F[to], Datagram(from, Flipped) \in F[to],
           faults \in Nat, SendtoErr(q, from, to, pkt)
    PROVE  InQueues(inbox', F) /\ faults' \in Nat
<1>1. InQueues(Deliver(q, to, Datagram(from, pkt)), F)
  BY DeliverKeeps
<1>2. InQueues(Deliver(q, to, Datagram(from, Flipped)), F)
  BY DeliverKeeps
<1>3. QED
  BY <1>1, <1>2 DEF SendtoErr, Fault

\* Sends: the same, or nothing.
LEMMA SendsKeeps ==
    ASSUME NEW F, NEW q, InQueues(q, F), NEW from, NEW to \in Sockets, NEW out,
           faults \in Nat, Sends(q, from, to, out),
           \/ out = <<>>
           \/ \E pkt : /\ out = <<pkt>>
                       /\ Datagram(from, pkt) \in F[to]
                       /\ Datagram(from, Flipped) \in F[to]
    PROVE  InQueues(inbox', F) /\ faults' \in Nat
<1>1. CASE out = <<>>
  BY <1>1 DEF Sends
<1>2. CASE out # <<>>
  <2>1. PICK pkt : /\ out = <<pkt>>
                   /\ Datagram(from, pkt) \in F[to]
                   /\ Datagram(from, Flipped) \in F[to]
    BY <1>2
  <2>2. Head(out) = pkt
    BY <2>1
  <2>3. SendtoErr(q, from, to, pkt)
    BY <1>2, <2>2 DEF Sends
  <2>4. QED
    BY <2>1, <2>3, SendtoErrKeeps
<1>3. QED
  BY <1>1, <1>2

\* recvfrom takes what may wait at the socket, and leaves the rest.
LEMMA ReceivedKeeps ==
    ASSUME NEW F, InQueues(inbox, F), NEW s \in Sockets, inbox[s] # <<>>
    PROVE  InQueues(Received(s), F) /\ Head(inbox[s]) \in F[s]
<1>1. inbox[s] \in Seq(F[s])
  BY DEF InQueues
<1>2. Tail(inbox[s]) \in Seq(F[s]) /\ Head(inbox[s]) \in F[s]
  BY <1>1, HeadTailProperties
<1>3. InQueues([inbox EXCEPT ![s] = Tail(inbox[s])], F)
  BY <1>2, QueueChanged
<1>4. QED
  BY <1>2, <1>3 DEF Received

LEMMA EmptiedKeeps ==
    ASSUME NEW F, NEW q, InQueues(q, F), NEW s \in Sockets
    PROVE  InQueues([q EXCEPT ![s] = <<>>], F)
  BY EmptySeq, QueueChanged

LEMMA CloseKeeps ==
    ASSUME NEW F, InQueues(inbox, F), NEW closed, Close(closed)
    PROVE  InQueues(inbox', F)
<1>1. inbox' = [s \in Sockets |-> IF s \in closed THEN <<>> ELSE inbox[s]]
  BY DEF Close
<1>2. \A s \in Sockets : inbox[s] \in Seq(F[s]) /\ <<>> \in Seq(F[s])
  BY EmptySeq DEF InQueues
<1>3. inbox' = [s \in Sockets |-> inbox'[s]]
  BY <1>1
<1>4. \A s \in Sockets : inbox'[s] \in Seq(F[s])
  BY <1>1, <1>2
<1>5. QED
  BY <1>3, <1>4 DEF InQueues

\* The network doubles, swaps and delays what is there and adds nothing.
LEMMA NetworkStepKeeps ==
    ASSUME NEW F, InQueues(inbox, F), faults \in Nat, NEW timed, NetworkStep(timed)
    PROVE  InQueues(inbox', F) /\ faults' \in Nat /\ open' = open
<1>1. CASE Duplicate
  <2>0. PICK s \in Sockets : \E i \in DOMAIN inbox[s] :
            inbox' = [inbox EXCEPT ![s] = Append(@, inbox[s][i])]
    BY <1>1 DEF Duplicate
  <2>1. PICK i \in DOMAIN inbox[s] : inbox' = [inbox EXCEPT ![s] = Append(@, inbox[s][i])]
    BY <2>0
  <2>2. inbox[s] \in Seq(F[s])
    BY DEF InQueues
  <2>3. inbox[s][i] \in F[s]
    <3>1. DOMAIN inbox[s] = 1 .. Len(inbox[s])
      BY <2>2, LenProperties
    <3>2. QED
      BY <2>2, <3>1, ElementOfSeq
  <2>4. Append(inbox[s], inbox[s][i]) \in Seq(F[s])
    BY <2>2, <2>3, AppendProperties
  <2>5. PICK v : v = Append(inbox[s], inbox[s][i])
    OBVIOUS
  <2>6. inbox' = [inbox EXCEPT ![s] = v]
    BY <2>1, <2>5
  <2>7. InQueues(inbox', F)
    BY <2>4, <2>5, <2>6, QueueChanged
  <2>8. QED
    BY <1>1, <2>7 DEF Duplicate, Fault
<1>2. CASE Reorder
  <2>0. PICK s \in Sockets : \E i, j \in DOMAIN inbox[s] :
            inbox' = [inbox EXCEPT ![s] =
                         [@ EXCEPT ![i] = inbox[s][j], ![j] = inbox[s][i]]]
    BY <1>2 DEF Reorder
  <2>1. PICK i \in DOMAIN inbox[s], j \in DOMAIN inbox[s] :
            inbox' = [inbox EXCEPT ![s] =
                         [@ EXCEPT ![i] = inbox[s][j], ![j] = inbox[s][i]]]
    BY <2>0
  <2>2. inbox[s] \in Seq(F[s]) /\ DOMAIN inbox[s] = 1 .. Len(inbox[s])
        /\ Len(inbox[s]) \in Nat
    BY LenProperties DEF InQueues
  <2>3. \A k \in DOMAIN inbox[s] : inbox[s][k] \in F[s]
    BY <2>2, ElementOfSeq
  <2>4. PICK v : v = [inbox[s] EXCEPT ![i] = inbox[s][j], ![j] = inbox[s][i]]
    OBVIOUS
  <2>5. PICK n \in Nat : DOMAIN inbox[s] = 1 .. n
    BY <2>2
  <2>6. inbox[s] \in [1 .. n -> F[s]]
    BY <2>2, <2>3, <2>5, SeqDef
  <2>7. v \in [1 .. n -> F[s]]
    BY <2>3, <2>4, <2>5, <2>6
  <2>8. v \in Seq(F[s])
    BY <2>7, SeqDef
  <2>9. inbox' = [inbox EXCEPT ![s] = v]
    BY <2>1, <2>4
  <2>10. InQueues(inbox', F)
    BY <2>8, <2>9, QueueChanged
  <2>11. QED
    BY <1>2, <2>10 DEF Reorder, Fault
<1>3. CASE Late(timed)
  BY <1>3 DEF Late, Fault
<1>4. QED
  BY <1>1, <1>2, <1>3 DEF NetworkStep

\* More may wait than did.
LEMMA QueuesWiden ==
    ASSUME NEW F, NEW G, NEW q, InQueues(q, F), \A s \in Sockets : F[s] \subseteq G[s]
    PROVE  InQueues(q, G)
<1>1. ASSUME NEW s \in Sockets
      PROVE  q[s] \in Seq(G[s])
  <2>1. q[s] \in Seq(F[s])
    BY DEF InQueues
  <2>2. Len(q[s]) \in Nat /\ q[s] \in [1 .. Len(q[s]) -> F[s]]
    BY <2>1, LenProperties
  <2>3. q[s] \in [1 .. Len(q[s]) -> G[s]]
    BY <2>2
  <2>4. QED
    BY <2>2, <2>3, SeqDef
<1>2. QED
  BY <1>1 DEF InQueues

-----------------------------------------------------------------------------
(* What may be on the way *)

PostMap == [s \in Sockets |-> Post(s)]

\* The queues of a sound session hold what may be on the way.
LEMMA MailInQueues ==
    ASSUME TypeOK, MailIsSound
    PROVE  InQueues(inbox, PostMap)
  BY DEF TypeOK, MailIsSound, InQueues, PostMap

\* What holds of the queues after a step, from what may be on the way then.
LEMMA QueuesAfter ==
    ASSUME NEW F, F = PostMap', InQueues(inbox', F)
    PROVE  /\ MailIsSound'
           /\ inbox' = [s \in Sockets |-> inbox'[s]]
           /\ \A s \in Sockets : inbox'[s] \in Seq(Datagrams(s))
<1>1. \A s \in Sockets : F[s] = Post(s)'
  BY DEF PostMap
<1>2. inbox' = [s \in Sockets |-> inbox'[s]]
  BY DEF InQueues
<1>3. \A s \in Sockets : inbox'[s] \in Seq(Post(s)')
  BY <1>1 DEF InQueues
<1>4. PICK D : D = [s \in Sockets |-> Datagrams(s)]
  OBVIOUS
<1>5. ASSUME NEW s \in Sockets
      PROVE  F[s] \subseteq D[s]
  <2>1. Post(s)' \subseteq Datagrams(s)
    BY DEF Post
  <2>2. QED
    BY <1>1, <1>4, <2>1
<1>6. InQueues(inbox', D)
  BY <1>5, QueuesWiden
<1>7. \A s \in Sockets : inbox'[s] \in Seq(Datagrams(s))
  BY <1>4, <1>6 DEF InQueues
<1>8. QED
  BY <1>2, <1>3, <1>7 DEF MailIsSound

\* Clients are told more and more, write more and more, and the server's
\* outpkt is never unwritten: what may be on the way stays so.
LEMMA PostGrows ==
    ASSUME \A c \in Clients : /\ Told(c) => Told(c)'
                             /\ client[c].mvSequence \in Nat
                             /\ client'[c].mvSequence \in Nat
                             /\ client[c].mvSequence <= client'[c].mvSequence,
           listener.outpkt # Unwritten => listener'.outpkt # Unwritten
    PROVE  \A s \in Sockets : PostMap[s] \subseteq PostMap'[s]
<1> SUFFICES ASSUME NEW s \in Sockets, NEW d \in Post(s)
             PROVE  d \in Post(s)'
  BY DEF PostMap
<1>1. d \in Datagrams(s)
  BY DEF Post
<1>2. CASE s \in ClientSockets
  <2>1. PICK c \in Clients : SentToClient(c, s, d)
    BY <1>2 DEF Post
  <2>2. SentToClient(c, s, d)'
    BY <2>1 DEF SentToClient
  <2>3. QED
    BY <1>1, <1>2, <2>2 DEF Post
<1>3. CASE s \notin ClientSockets
  <2>1. PICK c \in Clients : SentByClient(c, s, d)
    BY <1>3 DEF Post
  <2>2. d.pkt.sequence \in Nat
    BY <1>1, <1>3 DEF Datagrams, ToServer
  <2>3. d.pkt.type = "RR" => d.pkt.sequence < client'[c].mvSequence
    BY <2>1, <2>2 DEF SentByClient
  <2>4. SentByClient(c, s, d)'
    BY <2>1, <2>3 DEF SentByClient
  <2>5. QED
    BY <1>1, <1>3, <2>4 DEF Post
<1>4. QED
  BY <1>2, <1>3

\* Nothing else changes what may be on the way.
LEMMA PostStays ==
    ASSUME UNCHANGED <<client, listener>>
    PROVE  PostMap' = PostMap
  BY DEF PostMap, Post, SentToClient, SentByClient, Told, Datagrams, ToClient,
     ToServer

\* What a client sends may be on the way after the step, and so may what is
\* left of it when bits are flipped.
LEMMA ClientMayMail ==
    ASSUME NEW c \in Clients, NEW from \in {OldSocket(c), NewSocket(c)},
           NEW to \in {ListenSocket} \union Ports, NEW pkt,
           Sendable(c, client'[c], pkt),
           to = ListenSocket => from = OldSocket(c),
           Told(c)' <=> client'[c].i >= 1,
           client'[c].i \in Int, client'[c].i >= 0,
           Told(c)' \/ to = ListenSocket
    PROVE  Datagram(from, pkt) \in Post(to)' /\ Datagram(from, Flipped) \in Post(to)'
<1>1. /\ from \in Sockets /\ to \in Sockets /\ to \notin ClientSockets
  BY SocketFacts
<1>2. pkt \in ToServer /\ Flipped \in ToServer /\ Flipped.type = "FLIPPED"
  BY FlippedFacts DEF Sendable
<1>3. Datagram(from, pkt) \in Datagrams(to) /\ Datagram(from, Flipped) \in Datagrams(to)
  BY <1>1, <1>2 DEF Datagrams, Datagram
<1>4. /\ Datagram(from, pkt).from = from /\ Datagram(from, pkt).pkt = pkt
      /\ Datagram(from, Flipped).from = from /\ Datagram(from, Flipped).pkt = Flipped
  BY DEF Datagram
<1>5. ~Told(c)' => pkt.type = "CXN" /\ to = ListenSocket
  BY DEF Sendable
<1>6. SentByClient(c, to, Datagram(from, pkt))'
  BY <1>4, <1>5 DEF SentByClient, Sendable
<1>7. SentByClient(c, to, Datagram(from, Flipped))'
  BY <1>2, <1>4 DEF SentByClient
<1>8. QED
  BY <1>1, <1>3, <1>6, <1>7 DEF Post

\* What a child sends to a client that has been told a port.
LEMMA ChildMayMail ==
    ASSUME NEW c \in Clients, NEW p \in Ports, NEW to \in {OldSocket(c), NewSocket(c)},
           Told(c)', NEW pkt \in ToClient,
           pkt.type \in {"RR", "REJ"} => pkt.sequence >= 1
    PROVE  Datagram(p, pkt) \in Post(to)' /\ Datagram(p, Flipped) \in Post(to)'
<1>1. p \in Sockets /\ to \in Sockets /\ to \in ClientSockets
  BY SocketFacts
<1>2. Flipped \in ToClient /\ Flipped.type = "FLIPPED"
  BY FlippedFacts
<1>3. Datagram(p, pkt) \in Datagrams(to) /\ Datagram(p, Flipped) \in Datagrams(to)
  BY <1>1, <1>2 DEF Datagrams, Datagram
<1>4. /\ Datagram(p, pkt).from = p /\ Datagram(p, pkt).pkt = pkt
      /\ Datagram(p, Flipped).from = p /\ Datagram(p, Flipped).pkt = Flipped
  BY DEF Datagram
<1>5. SentToClient(c, to, Datagram(p, pkt))' /\ SentToClient(c, to, Datagram(p, Flipped))'
  BY <1>2, <1>4 DEF SentToClient
<1>6. QED
  BY <1>1, <1>3, <1>5 DEF Post

\* What the server answers to a client's first socket.
LEMMA ListenerMayMail ==
    ASSUME NEW c \in Clients, NEW pkt \in Answers, listener'.outpkt # Unwritten
    PROVE  /\ Datagram(ListenSocket, pkt) \in Post(OldSocket(c))'
           /\ Datagram(ListenSocket, Flipped) \in Post(OldSocket(c))'
<1> DEFINE to == OldSocket(c)
<1>1. ListenSocket \in Sockets /\ to \in Sockets /\ to \in ClientSockets
  BY SocketFacts
<1>2. Flipped \in ToClient /\ pkt \in ToClient
  BY FlippedFacts, AnswerFacts
<1> HIDE DEF to
<1>3. /\ Datagram(ListenSocket, pkt) \in Datagrams(to)
      /\ Datagram(ListenSocket, Flipped) \in Datagrams(to)
  BY <1>1, <1>2 DEF Datagrams, Datagram
<1>4. /\ Datagram(ListenSocket, pkt).from = ListenSocket
      /\ Datagram(ListenSocket, pkt).pkt = pkt
      /\ Datagram(ListenSocket, Flipped).from = ListenSocket
      /\ Datagram(ListenSocket, Flipped).pkt = Flipped
  BY DEF Datagram
<1>5. /\ SentToClient(c, to, Datagram(ListenSocket, pkt))'
      /\ SentToClient(c, to, Datagram(ListenSocket, Flipped))'
  BY <1>4 DEF SentToClient, to
<1>6. QED
  BY <1>1, <1>3, <1>5 DEF Post, to

\* What a client reads was sent to it: by the server an answer, to its first
\* socket, and by a child only after it had been told a port.
LEMMA ClientMail ==
    ASSUME NEW c \in Clients, NEW s \in {OldSocket(c), NewSocket(c)},
           NEW d \in Post(s)
    PROVE  /\ d.pkt \in ToClient
           /\ \/ /\ d.from = ListenSocket /\ s = OldSocket(c)
                 /\ d.pkt \in Answers \union {Flipped}
                 /\ listener.outpkt # Unwritten
              \/ /\ d.from \in Ports /\ Told(c)
                 /\ d.pkt.type \in {"RR", "REJ"} => d.pkt.sequence >= 1
<1>1. s \in ClientSockets
  BY SocketFacts
<1>2. d.pkt \in ToClient
  BY <1>1 DEF Post, Datagrams
<1>3. PICK e \in Clients : SentToClient(e, s, d)
  BY <1>1 DEF Post
<1>4. e = c
  BY <1>3, OwnSockets DEF SentToClient
<1>5. QED
  BY <1>2, <1>3, <1>4 DEF SentToClient

\* What the server or a child reads some client has sent.
LEMMA ServerMail ==
    ASSUME NEW s \in {ListenSocket} \union Ports, NEW d \in Post(s)
    PROVE  d.pkt \in ToServer /\ \E c \in Clients : SentByClient(c, s, d)
  BY SocketFacts DEF Post, Datagrams

-----------------------------------------------------------------------------
(* What a step leaves as it was *)

\* Clients are told more and write more.
ClientsAdvance ==
    /\ client' = [c \in Clients |-> client'[c]]
    /\ \A c \in Clients :
          /\ client'[c] \in ClientRecord(c)
          /\ Told(c) => Told(c)'
          /\ client[c].mvSequence <= client'[c].mvSequence

\* A state in which a child is sound stays one.
LEMMA SoundChildStates ==
    ASSUME TypeOK, ClientsAdvance, NEW p, NEW s \in ChildRecord(p), ChildIsSound(s)
    PROVE  /\ \E c \in Clients : s.mvAddr \in {OldSocket(c), NewSocket(c)} /\ Told(c)'
           /\ WellFormed(s)
           /\ Transferring(s) =>
                 \E c \in Clients : WindowBase(s) <= client'[c].mvSequence
<1>1. \E c \in Clients : s.mvAddr \in {OldSocket(c), NewSocket(c)} /\ Told(c)'
  BY DEF ChildIsSound, ClientsAdvance
<1>2. CASE Transferring(s)
  <2>1. PICK c \in Clients : WindowBase(s) <= client[c].mvSequence
    BY <1>2 DEF ChildIsSound, WindowReached
  <2>2. WindowBase(s) \in Int
    BY DEF WindowBase, ChildRecord
  <2>3. /\ client[c].mvSequence \in Nat /\ client'[c].mvSequence \in Nat
        /\ client[c].mvSequence <= client'[c].mvSequence
    BY DEF TypeOK, ClientsAdvance, ClientRecord
  <2>4. WindowBase(s) <= client'[c].mvSequence
    BY <2>1, <2>2, <2>3
  <2>5. QED
    BY <1>1, <2>4 DEF ChildIsSound
<1>3. QED
  BY <1>1, <1>2 DEF ChildIsSound

\* The children no step has touched stay sound.
LEMMA UntouchedChildIsSound ==
    ASSUME IInv, ClientsAdvance, NEW p \in Ports,
           child'[p] = child[p], child'[p] # Unforked
    PROVE  ChildIsSound(child[p])'
<1>1. PICK s : s = child[p]
  OBVIOUS
<1>2. s \in ChildRecord(p) /\ ChildIsSound(s) /\ TypeOK
  BY <1>1 DEF IInv, TypeOK
<1>3. /\ \E c \in Clients : s.mvAddr \in {OldSocket(c), NewSocket(c)} /\ Told(c)'
      /\ WellFormed(s)
      /\ Transferring(s) =>
            \E c \in Clients : WindowBase(s) <= client'[c].mvSequence
  BY <1>2, SoundChildStates
<1>4. child'[p] = s
  BY <1>1
<1>5. QED
  BY <1>3, <1>4 DEF ChildIsSound, WindowReached

-----------------------------------------------------------------------------
(* rcopy's steps *)

\* The steps of client c that leave the server and its children alone: what it
\* has become is sound, and the rest of the session is as it was.
LEMMA ClientMoveIsSound ==
    ASSUME IInv, NEW c \in Clients, NEW t \in ClientRecord(c),
           client' = [client EXCEPT ![c] = t],
           UNCHANGED <<listener, child, fresh>>,
           t.mvSequence >= client[c].mvSequence,
           t.addr # Nothing <=> t.i >= 1,
           client[c].i >= 1 => t.i >= 1,
           t.i >= 1 => listener.outpkt # Unwritten,
           t.i < 1 => t.mvAddr = ListenSocket,
           t.mvSocket = NewSocket(c) => t.i >= 1 /\ t.mvAddr \in Ports,
           t.mvState = "INIT" => t.mvSequence = 0 /\ t.i <= 4,
           t.mvState \in {"RECV_PACKETS", "DONE"} => t.i = 5,
           NEW F, F = PostMap', InQueues(inbox', F), faults' \in Nat,
           open' \subseteq Sockets, due' \subseteq open'
    PROVE  IInv'
<1>0. TypeOK /\ (\A e \in Clients : ClientIsSound(e)) /\ ListenerIsSound
  BY DEF IInv
<1>1. client'[c] = t /\ \A e \in Clients \ {c} : client'[e] = client[e]
  BY <1>0 DEF TypeOK
<1>2. /\ client' = [e \in Clients |-> client'[e]]
      /\ \A e \in Clients : client'[e] \in ClientRecord(e)
  BY <1>0, <1>1 DEF TypeOK
<1>3. /\ Told(c)' <=> t.i >= 1
      /\ Told(c) <=> client[c].i >= 1
      /\ \A e \in Clients \ {c} : Told(e)' <=> Told(e)
  BY <1>0, <1>1 DEF Told, ClientIsSound
<1>4. ClientsAdvance
  <2>1. \A e \in Clients : client[e].mvSequence <= client[e].mvSequence
    BY <1>0 DEF TypeOK, ClientRecord
  <2>2. QED
    BY <1>1, <1>2, <1>3, <2>1 DEF ClientsAdvance
<1>5. TypeOK'
  <2>1. /\ inbox' = [s \in Sockets |-> inbox'[s]]
        /\ \A s \in Sockets : inbox'[s] \in Seq(Datagrams(s))
    BY QueuesAfter
  <2>2. QED
    BY <1>0, <1>2, <2>1 DEF TypeOK, Datagrams, ToClient, ToServer
<1>6. MailIsSound'
  BY QueuesAfter
<1>7. ASSUME NEW e \in Clients
      PROVE  ClientIsSound(e)'
  <2>1. CASE e = c
    <3>1. t.i \in Int
      BY DEF ClientRecord
    <3>2. ~Told(c)' => t.mvAddr = ListenSocket
      BY <1>3, <3>1
    <3>3. QED
      BY <1>1, <1>3, <2>1, <3>2 DEF ClientIsSound
  <2>2. CASE e # c
    BY <1>0, <1>1, <1>3, <2>2 DEF ClientIsSound
  <2>3. QED
    BY <2>1, <2>2
<1>8. ListenerIsSound'
  BY <1>0 DEF ListenerIsSound
<1>9. ASSUME NEW p \in Ports, child'[p] # Unforked
      PROVE  ChildIsSound(child[p])'
  BY <1>4, <1>9, UntouchedChildIsSound
<1>10. QED
  BY <1>5, <1>6, <1>7, <1>8, <1>9 DEF IInv

\* A client that has taken a datagram or a timeout, in state s, and answers.
LEMMA ClientRepliesIsSound ==
    ASSUME IInv, NEW c \in Clients, client[c].mvSocket \in open,
           NEW s, ClientReady(c, s),
           s.mvSequence = client[c].mvSequence, s.i = client[c].i,
           s.mvSocket = client[c].mvSocket,
           s.i = 0 => s.mvAddr = ListenSocket,
           s.mvSocket = NewSocket(c) => s.mvAddr \in Ports,
           NEW reply, ClientOutcome(c, s, reply),
           reply.client.i >= 1 => listener.outpkt # Unwritten,
           NEW queues, InQueues(queues, PostMap),
           ClientReplies(c, reply, queues)
    PROVE  IInv'
<1>0. /\ TypeOK /\ ClientIsSound(c)
      /\ s \in ClientRecord(c) /\ client[c] \in ClientRecord(c)
  BY DEF IInv, TypeOK, ClientReady
<1>1. PICK t : t = reply.client
  OBVIOUS
<1>2. PICK from : from = client[c].mvSocket
  OBVIOUS
<1>3. PICK to : to = t.mvSocket
  OBVIOUS
<1>4. /\ t \in ClientRecord(c) /\ t.mvSequence >= s.mvSequence /\ t.i >= 0
      /\ t.addr # Nothing <=> t.i >= 1
      /\ s.i >= 1 => t.i >= 1
      /\ t.mvState = "INIT" => t.mvSequence = 0 /\ t.i <= 4
      /\ t.mvState \in {"RECV_PACKETS", "DONE"} => t.i = 5
      /\ \/ t.mvSocket = s.mvSocket /\ t.mvAddr = s.mvAddr
         \/ t.mvSocket = NewSocket(c) /\ t.mvAddr \in Ports /\ t.i >= 1
  BY <1>1 DEF ClientOutcome
<1>5. /\ client' = [client EXCEPT ![c] = t]
      /\ UNCHANGED <<listener, child, fresh>>
      /\ open' = (open \ {from}) \union {to} /\ due' = due \ {from}
      /\ Sends(IF from = to THEN queues ELSE [queues EXCEPT ![from] = <<>>],
               to, t.mvAddr, reply.out)
  BY <1>1, <1>2, <1>3 DEF ClientReplies, Switches
<1>6. /\ from \in Sockets /\ to \in {OldSocket(c), NewSocket(c)} /\ to \in Sockets
      /\ t.mvAddr \in {ListenSocket} \union Ports /\ t.mvAddr \in Sockets
  BY <1>0, <1>2, <1>3, <1>4, SocketFacts DEF ClientRecord
<1>7. client'[c] = t /\ \A e \in Clients \ {c} : client'[e] = client[e]
  BY <1>0, <1>5 DEF TypeOK
<1>8. /\ s.i \in Int /\ t.i \in Int /\ s.i >= 0
      /\ t.mvSequence \in Nat /\ s.mvSequence \in Nat
  BY <1>0, <1>4 DEF ClientRecord, ClientReady
<1>9. /\ t.i < 1 => t.mvAddr = ListenSocket
      /\ t.mvSocket = NewSocket(c) => t.i >= 1 /\ t.mvAddr \in Ports
  <2>1. s.mvSocket = NewSocket(c) => s.i >= 1
    BY <1>0 DEF ClientIsSound
  <2>2. t.i < 1 => s.i = 0
    BY <1>4, <1>8
  <2>3. QED
    BY <1>4, <1>8, <2>1, <2>2
<1>10. PICK F : F = PostMap'
  OBVIOUS
<1>11. \A x \in Sockets : PostMap[x] \subseteq F[x]
  <2>1. ASSUME NEW e \in Clients
        PROVE  /\ Told(e) => Told(e)'
               /\ client[e].mvSequence \in Nat
               /\ client'[e].mvSequence \in Nat
               /\ client[e].mvSequence <= client'[e].mvSequence
    <3>1. CASE e = c
      BY <1>0, <1>4, <1>7, <1>8, <3>1 DEF Told, ClientIsSound
    <3>2. CASE e # c
      BY <1>0, <1>7, <3>2 DEF Told, TypeOK, ClientRecord
    <3>3. QED
      BY <3>1, <3>2
  <2>2. QED
    BY <1>5, <1>10, <2>1, PostGrows
<1>12. PICK q : q = IF from = to THEN queues ELSE [queues EXCEPT ![from] = <<>>]
  OBVIOUS
<1>13. InQueues(q, F)
  <2>1. InQueues(q, PostMap)
    BY <1>6, <1>12, EmptiedKeeps
  <2>2. QED
    BY <1>11, <2>1, QueuesWiden
<1>14. \/ reply.out = <<>>
       \/ \E pkt : /\ reply.out = <<pkt>>
                   /\ Datagram(to, pkt) \in F[t.mvAddr]
                   /\ Datagram(to, Flipped) \in F[t.mvAddr]
  <2>1. CASE reply.out # <<>>
    <3>1. PICK pkt : reply.out = <<pkt>> /\ Sendable(c, t, pkt)
      BY <1>1, <2>1 DEF ClientOutcome
    <3>2. /\ Told(c)' <=> client'[c].i >= 1
          /\ Told(c)' \/ t.mvAddr = ListenSocket
      BY <1>4, <1>7, <1>8, <1>9 DEF Told
    <3>3. t.mvAddr = ListenSocket => to = OldSocket(c)
      BY <1>3, <1>6, <1>9, SocketFacts
    <3>4. /\ Datagram(to, pkt) \in Post(t.mvAddr)'
          /\ Datagram(to, Flipped) \in Post(t.mvAddr)'
      BY <1>4, <1>6, <1>7, <1>8, <3>1, <3>2, <3>3, ClientMayMail
    <3>5. QED
      BY <1>6, <1>10, <3>1, <3>4 DEF PostMap
  <2>2. QED
    BY <2>1
<1>15. InQueues(inbox', F) /\ faults' \in Nat
  <2>1. faults \in Nat
    BY <1>0 DEF TypeOK
  <2>2. QED
    BY <1>5, <1>6, <1>12, <1>13, <1>14, <2>1, SendsKeeps
<1>16. open' \subseteq Sockets /\ due' \subseteq open'
  BY <1>0, <1>5, <1>6 DEF TypeOK
<1>17. t.mvSequence >= client[c].mvSequence /\ (client[c].i >= 1 => t.i >= 1)
  BY <1>4
<1>18. t.i >= 1 => listener.outpkt # Unwritten
  BY <1>1
<1>19. QED
  BY <1>4, <1>5, <1>9, <1>10, <1>15, <1>16, <1>17, <1>18, ClientMoveIsSound

\* A failed round of init or of recvPackets leaves the client at its packet.
LEMMA FailureStays ==
    ASSUME NEW c, NEW s \in ClientRecord(c)
    PROVE  ClientFails(c, s).client.i = s.i
<1>1. s.mvRetries \in 0 .. PKT_TRNSMAX /\ s.i \in -1 .. 5 /\ PKT_TRNSMAX \in Nat
  BY RetriesAssumption DEF ClientRecord
<1>2. InitGoesOn(s, c).client.i = s.i
  <2>1. PICK t : t = [s EXCEPT !.mvState = "ERROR"]
    OBVIOUS
  <2>2. PICK u : u = [s EXCEPT !.mvState = "RECV_PACKETS", !.mvSequence = 0,
                               !.mvRetries = PKT_TRNSMAX]
    OBVIOUS
  <2>3. t.i = s.i /\ u.i = s.i
    BY <2>1, <2>2 DEF ClientRecord
  <2>4. \/ InitGoesOn(s, c) = [client |-> t, out |-> <<>>]
        \/ InitGoesOn(s, c) = [client |-> u, out |-> <<>>]
        \/ InitGoesOn(s, c) = [client |-> s, out |-> <<InitPacket(s.i, c)>>]
    BY <1>1, <2>1, <2>2 DEF InitGoesOn
  <2>5. QED
    BY <2>3, <2>4
<1>3. QED
  BY <1>2 DEF ClientFails, ClientInitFailed, RecvPacketsFailed

\* A client that runs and has sent something is at the head of a round.
LEMMA RunningClientIsReady ==
    ASSUME IInv, NEW c \in Clients, ClientRunning(client[c]), client[c].i >= 0
    PROVE  /\ ClientReady(c, client[c])
           /\ client[c].mvSocket \in {OldSocket(c), NewSocket(c)}
           /\ client[c].mvSocket \in Sockets
           /\ client[c].i = 0 => client[c].mvAddr = ListenSocket
           /\ client[c].mvSocket = NewSocket(c) => client[c].mvAddr \in Ports
           /\ client[c].i >= 1 => listener.outpkt # Unwritten
<1>1. client[c] \in ClientRecord(c) /\ ClientIsSound(c)
  BY DEF IInv, TypeOK
<1>2. client[c].mvState \in {"INIT", "RECV_PACKETS"}
  BY <1>1 DEF ClientRunning, ClientRecord
<1>3. client[c].mvSocket \in {OldSocket(c), NewSocket(c)}
  BY <1>1 DEF ClientRecord
<1>4. QED
  BY <1>1, <1>2, <1>3, SocketFacts DEF ClientReady, ClientIsSound, Told

LEMMA ClientTimesOutIsSound ==
    ASSUME IInv, NEW c \in Clients, ClientTimesOut(c)
    PROVE  IInv'
<1>1. PICK s : s = ClientTimedOut(client[c])
  OBVIOUS
<1>2. PICK reply : reply = ClientFails(c, s)
  OBVIOUS
<1>3. /\ ClientRunning(client[c]) /\ client[c].i >= 0
      /\ client[c].mvSocket \in due /\ ClientReplies(c, reply, inbox)
  BY <1>1, <1>2 DEF ClientTimesOut
<1>4. /\ ClientReady(c, client[c])
      /\ client[c].i = 0 => client[c].mvAddr = ListenSocket
      /\ client[c].mvSocket = NewSocket(c) => client[c].mvAddr \in Ports
      /\ client[c].i >= 1 => listener.outpkt # Unwritten
  BY <1>3, RunningClientIsReady
<1>5. /\ ClientReady(c, s) /\ s.mvAddr = client[c].mvAddr
      /\ s.mvSocket = client[c].mvSocket /\ s.i = client[c].i
      /\ s.mvSequence = client[c].mvSequence
  <2>1. PICK v : v = client[c]
    OBVIOUS
  <2>2. ClientReady(c, v) /\ ClientRunning(v)
    BY <1>3, <1>4, <2>1
  <2>3. QED
    BY <1>1, <2>1, <2>2, ClientTimeoutKeeps
<1>6. ClientOutcome(c, s, reply)
  <2>1. s.mvState \in {"INIT", "RECV_PACKETS"}
    BY <1>5 DEF ClientReady
  <2>2. QED
    BY <1>2, <1>5, <2>1, ClientInitFailedIsSound, RecvPacketsFailedIsSound
       DEF ClientFails
<1>7. reply.client.i = s.i
  BY <1>2, <1>5, FailureStays DEF ClientReady
<1>8. InQueues(inbox, PostMap) /\ client[c].mvSocket \in open
  BY <1>3, MailInQueues DEF IInv, TypeOK
<1>9. /\ s.i = 0 => s.mvAddr = ListenSocket
      /\ s.mvSocket = NewSocket(c) => s.mvAddr \in Ports
      /\ reply.client.i >= 1 => listener.outpkt # Unwritten
  BY <1>4, <1>5, <1>7
<1>10. QED
  BY <1>3, <1>5, <1>6, <1>8, <1>9, ClientRepliesIsSound

LEMMA ClientReceivesIsSound ==
    ASSUME IInv, NEW c \in Clients, ClientReceives(c)
    PROVE  IInv'
<1>1. PICK x : x = client[c].mvSocket
  OBVIOUS
<1>2. PICK d : d = Head(inbox[x])
  OBVIOUS
<1>3. PICK s : s = ClientReceived(client[c], d)
  OBVIOUS
<1>4. PICK reply : reply = IF Intact(d.pkt) THEN ClientTakes(c, s, d.pkt)
                                            ELSE ClientFails(c, s)
  OBVIOUS
<1>5. /\ ClientRunning(client[c]) /\ client[c].i >= 0 /\ Readable(x)
      /\ ClientReplies(c, reply, Received(x))
  BY <1>1, <1>2, <1>3, <1>4 DEF ClientReceives
<1>6. /\ ClientReady(c, client[c])
      /\ x \in {OldSocket(c), NewSocket(c)} /\ x \in Sockets
      /\ client[c].i >= 1 => listener.outpkt # Unwritten
  BY <1>1, <1>5, RunningClientIsReady
<1>7. InQueues(inbox, PostMap)
  BY MailInQueues DEF IInv
<1>8. InQueues(Received(x), PostMap) /\ d \in Post(x)
  <2>1. PICK F : F = PostMap
    OBVIOUS
  <2>2. InQueues(Received(x), F) /\ d \in F[x]
    BY <1>2, <1>5, <1>6, <1>7, <2>1, ReceivedKeeps DEF Readable
  <2>3. QED
    BY <1>6, <2>1, <2>2 DEF PostMap
<1>9. /\ d.pkt \in ToClient
      /\ \/ /\ d.from = ListenSocket /\ x = OldSocket(c)
            /\ d.pkt \in Answers \union {Flipped}
            /\ listener.outpkt # Unwritten
         \/ /\ d.from \in Ports /\ Told(c)
            /\ d.pkt.type \in {"RR", "REJ"} => d.pkt.sequence >= 1
  BY <1>6, <1>8, ClientMail
<1>10. /\ ClientReady(c, s) /\ s.mvAddr = d.from /\ s.mvSocket = x
       /\ s.i = client[c].i /\ s.mvSequence = client[c].mvSequence
  <2>1. PICK v : v = client[c]
    OBVIOUS
  <2>2. ClientReady(c, v) /\ d.from \in {ListenSocket} \union Ports
    BY <1>6, <1>9, <2>1
  <2>3. QED
    BY <1>1, <1>3, <2>1, <2>2, ClientTakesDatagram
<1>11. Told(c) <=> s.i >= 1
  BY <1>10 DEF IInv, ClientIsSound
<1>12. /\ s.i = 0 => s.mvAddr = ListenSocket
       /\ s.mvSocket = NewSocket(c) => s.mvAddr \in Ports
  BY <1>9, <1>10, <1>11, OwnSockets
<1>13. listener.outpkt # Unwritten
  BY <1>6, <1>9, <1>10, <1>11
<1>14. s.mvState \in {"INIT", "RECV_PACKETS"}
  BY <1>10 DEF ClientReady
<1>15. CASE Intact(d.pkt)
  <2>1. reply = ClientTakes(c, s, d.pkt)
    BY <1>4, <1>15
  <2>2. Receivable(s, d.pkt)
    <3>1. d.pkt \in Answers => d.pkt.type = "RR"
      BY AnswerFacts
    <3>2. d.pkt # Flipped
      BY <1>15, FlippedFacts
    <3>3. s.i = 0 => d.pkt \in Answers
      BY <1>9, <1>11, <3>2
    <3>4. d.pkt.type = "REJ" => d.pkt.sequence >= 1
      BY <1>9, <3>1, <3>2
    <3>5. QED
      BY <1>9, <3>3, <3>4 DEF Receivable
  <2>3. ClientOutcome(c, s, reply)
    BY <1>9, <1>10, <1>14, <2>1, <2>2, ClientInitIsSound, RecvPacketsIsSound
       DEF ClientTakes
  <2>4. QED
    BY <1>1, <1>5, <1>8, <1>10, <1>12, <1>13, <2>3, ClientRepliesIsSound DEF Readable
<1>16. CASE ~Intact(d.pkt)
  <2>1. reply = ClientFails(c, s)
    BY <1>4, <1>16
  <2>2. ClientOutcome(c, s, reply)
    BY <1>10, <1>14, <2>1, ClientInitFailedIsSound, RecvPacketsFailedIsSound
       DEF ClientFails
  <2>3. QED
    BY <1>1, <1>5, <1>8, <1>10, <1>12, <1>13, <2>2, ClientRepliesIsSound DEF Readable
<1>17. QED
  BY <1>15, <1>16

\* rcopy's first packet, the CXN.
LEMMA ClientConnectsIsSound ==
    ASSUME IInv, NEW c \in Clients, ClientConnects(c)
    PROVE  IInv'
<1>0. /\ TypeOK /\ ClientIsSound(c) /\ client[c] \in ClientRecord(c)
      /\ client[c].i = -1
  BY DEF IInv, TypeOK, ClientConnects
<1>1. PICK t : t = [client[c] EXCEPT !.i = 0]
  OBVIOUS
<1>2. /\ t \in ClientRecord(c) /\ t.i = 0 /\ t.mvState = client[c].mvState
      /\ t.mvSequence = client[c].mvSequence /\ t.mvSocket = client[c].mvSocket
      /\ t.mvAddr = client[c].mvAddr /\ t.addr = client[c].addr
  BY <1>0, <1>1 DEF ClientRecord
<1>3. /\ client' = [client EXCEPT ![c] = t]
      /\ UNCHANGED <<listener, child, fresh>> /\ open' = open /\ due' = due
      /\ SendtoErr(inbox, OldSocket(c), ListenSocket, InitPacket(0, c))
  BY <1>1 DEF ClientConnects
<1>4. client'[c] = t /\ \A e \in Clients \ {c} : client'[e] = client[e]
  BY <1>0, <1>3 DEF TypeOK
<1>5. /\ t.addr = Nothing /\ t.mvAddr = ListenSocket
      /\ t.mvSocket # NewSocket(c)
      /\ t.mvState = "INIT" => t.mvSequence = 0
      /\ t.mvState \notin {"RECV_PACKETS", "DONE"}
  BY <1>0, <1>2 DEF ClientIsSound, Told
<1>6. PICK F : F = PostMap'
  OBVIOUS
<1>7. \A x \in Sockets : PostMap[x] \subseteq F[x]
  <2>1. ASSUME NEW e \in Clients
        PROVE  /\ Told(e) => Told(e)'
               /\ client[e].mvSequence \in Nat
               /\ client'[e].mvSequence \in Nat
               /\ client[e].mvSequence <= client'[e].mvSequence
    <3>1. client[e].mvSequence \in Nat /\ client'[e].mvSequence = client[e].mvSequence
      BY <1>0, <1>2, <1>4 DEF TypeOK, ClientRecord
    <3>2. client'[e].addr = client[e].addr
      BY <1>2, <1>4
    <3>3. QED
      BY <3>1, <3>2 DEF Told
  <2>2. QED
    BY <1>3, <1>6, <2>1, PostGrows
<1>8. InQueues(inbox, F)
  BY <1>0, <1>7, MailInQueues, QueuesWiden DEF IInv
<1>9. /\ Datagram(OldSocket(c), InitPacket(0, c)) \in F[ListenSocket]
      /\ Datagram(OldSocket(c), Flipped) \in F[ListenSocket]
  <2>1. Sendable(c, t, InitPacket(0, c))
    BY <1>2, InitPacketFacts DEF Sendable
  <2>2. /\ Datagram(OldSocket(c), InitPacket(0, c)) \in Post(ListenSocket)'
        /\ Datagram(OldSocket(c), Flipped) \in Post(ListenSocket)'
    <3>1. Sendable(c, client'[c], InitPacket(0, c))
      BY <1>4, <2>1
    <3>2. ~Told(c)' /\ client'[c].i = 0
      BY <1>2, <1>4, <1>5 DEF Told
    <3>3. QED
      BY <3>1, <3>2, ClientMayMail
  <2>3. QED
    BY <1>6, <2>2, SocketFacts DEF PostMap
<1>10. InQueues(inbox', F) /\ faults' \in Nat
  <2>1. faults \in Nat /\ ListenSocket \in Sockets
    BY <1>0, SocketFacts DEF TypeOK
  <2>2. QED
    BY <1>3, <1>8, <1>9, <2>1, SendtoErrKeeps
<1>11. open' \subseteq Sockets /\ due' \subseteq open'
  BY <1>0, <1>3 DEF TypeOK
<1>12. t.mvSequence >= client[c].mvSequence
  BY <1>0, <1>2 DEF ClientRecord
<1>13. /\ t.addr # Nothing <=> t.i >= 1
       /\ client[c].i >= 1 => t.i >= 1
       /\ t.i >= 1 => listener.outpkt # Unwritten
       /\ t.i < 1 => t.mvAddr = ListenSocket
       /\ t.mvSocket = NewSocket(c) => t.i >= 1 /\ t.mvAddr \in Ports
       /\ t.mvState = "INIT" => t.mvSequence = 0 /\ t.i <= 4
       /\ t.mvState \in {"RECV_PACKETS", "DONE"} => t.i = 5
  BY <1>0, <1>2, <1>5
<1>14. QED
  BY <1>2, <1>3, <1>6, <1>10, <1>11, <1>12, <1>13, ClientMoveIsSound

-----------------------------------------------------------------------------
(* Steps that leave every process as it is *)

LEMMA ProcessesStayIsSound ==
    ASSUME IInv, UNCHANGED procVars, InQueues(inbox', PostMap), faults' \in Nat,
           open' \subseteq Sockets, due' \subseteq open'
    PROVE  IInv'
<1>0. /\ TypeOK /\ UNCHANGED <<client, listener, child, fresh>>
  BY DEF IInv, procVars
<1>1. PostMap' = PostMap
  BY <1>0, PostStays
<1>2. PICK F : F = PostMap'
  OBVIOUS
<1>3. /\ MailIsSound' /\ inbox' = [s \in Sockets |-> inbox'[s]]
      /\ \A s \in Sockets : inbox'[s] \in Seq(Datagrams(s))
  BY <1>1, <1>2, QueuesAfter
<1>4. TypeOK'
  BY <1>0, <1>3 DEF TypeOK, Datagrams, ToClient, ToServer
<1>5. ClientsAdvance
  <2>1. \A e \in Clients : client[e].mvSequence <= client[e].mvSequence
    BY <1>0 DEF TypeOK, ClientRecord
  <2>2. QED
    BY <1>0, <2>1 DEF ClientsAdvance, Told, TypeOK
<1>6. \A e \in Clients : ClientIsSound(e)'
  BY <1>0 DEF IInv, ClientIsSound, Told
<1>7. ListenerIsSound'
  BY <1>0 DEF IInv, ListenerIsSound
<1>8. ASSUME NEW p \in Ports, child'[p] # Unforked
      PROVE  ChildIsSound(child[p])'
  BY <1>0, <1>5, <1>8, UntouchedChildIsSound
<1>9. QED
  BY <1>3, <1>4, <1>6, <1>7, <1>8 DEF IInv

LEMMA CloseIsSound ==
    ASSUME IInv, NEW closed, Close(closed), UNCHANGED <<procVars, faults>>
    PROVE  IInv'
<1>1. InQueues(inbox, PostMap) /\ TypeOK
  BY MailInQueues DEF IInv
<1>2. PICK F : F = PostMap
  OBVIOUS
<1>3. InQueues(inbox', F)
  BY <1>1, <1>2, CloseKeeps
<1>4. faults' \in Nat /\ open' \subseteq Sockets /\ due' \subseteq open'
  BY <1>1 DEF TypeOK, Close
<1>5. QED
  BY <1>2, <1>3, <1>4, ProcessesStayIsSound

LEMMA TickIsSound == IInv /\ Tick => IInv'
<1> SUFFICES ASSUME IInv, Tick
             PROVE  IInv'
  OBVIOUS
<1>1. InQueues(inbox, PostMap) /\ TypeOK
  BY MailInQueues DEF IInv
<1>2. /\ inbox' = inbox /\ faults' = faults /\ open' = open
      /\ due' \subseteq open /\ UNCHANGED procVars
  BY DEF Tick, SecondPasses
<1>3. InQueues(inbox', PostMap)
  BY <1>1, <1>2 DEF InQueues
<1>4. faults' \in Nat /\ open' \subseteq Sockets /\ due' \subseteq open'
  BY <1>1, <1>2 DEF TypeOK
<1>5. QED
  BY <1>2, <1>3, <1>4, ProcessesStayIsSound

LEMMA NetworkActsIsSound == IInv /\ NetworkActs => IInv'
<1> SUFFICES ASSUME IInv, NetworkActs
             PROVE  IInv'
  OBVIOUS
<1>1. InQueues(inbox, PostMap) /\ TypeOK
  BY MailInQueues DEF IInv
<1>2. NetworkStep(Sockets \ {ListenSocket}) /\ UNCHANGED procVars
  BY DEF NetworkActs
<1>3. PICK F : F = PostMap
  OBVIOUS
<1>4. faults \in Nat
  BY <1>1 DEF TypeOK
<1>5. InQueues(inbox', F) /\ faults' \in Nat /\ open' = open
  BY <1>1, <1>2, <1>3, <1>4, NetworkStepKeeps
<1>6. due' \subseteq open
  BY <1>1, <1>2 DEF TypeOK, NetworkStep, Duplicate, Reorder, Late
<1>7. open' \subseteq Sockets /\ due' \subseteq open'
  BY <1>1, <1>5, <1>6 DEF TypeOK
<1>8. QED
  BY <1>2, <1>3, <1>5, <1>7, ProcessesStayIsSound

\* Where nothing changes the invariant stays.
LEMMA StutterIsSound == IInv /\ UNCHANGED vars => IInv'
<1> SUFFICES ASSUME IInv, UNCHANGED vars
             PROVE  IInv'
  OBVIOUS
<1>1. InQueues(inbox, PostMap) /\ TypeOK
  BY MailInQueues DEF IInv
<1>2. /\ inbox' = inbox /\ faults' = faults /\ open' = open /\ due' = due
      /\ UNCHANGED procVars
  BY DEF vars, procVars
<1>3. InQueues(inbox', PostMap)
  BY <1>1, <1>2 DEF InQueues
<1>4. faults' \in Nat /\ open' \subseteq Sockets /\ due' \subseteq open'
  BY <1>1, <1>2 DEF TypeOK
<1>5. QED
  BY <1>2, <1>3, <1>4, ProcessesStayIsSound

-----------------------------------------------------------------------------
(* The children's steps *)

\* The steps of child p: it becomes t, a sound state, and sends to its client.
LEMMA ChildMoveIsSound ==
    ASSUME IInv, NEW p \in Ports, child[p] # Unforked,
           NEW t, ChildReady(p, t), WindowReached(t),
           NEW c \in Clients, Told(c), t.mvAddr \in {OldSocket(c), NewSocket(c)},
           child' = [child EXCEPT ![p] = t],
           UNCHANGED <<client, listener, fresh>>,
           InQueues(inbox', PostMap), faults' \in Nat,
           open' = open, due' \subseteq due
    PROVE  IInv' /\ child'[p] # Unforked
<1>0. TypeOK /\ ListenerIsSound
  BY DEF IInv
<1>1. t \in ChildRecord(p) /\ WellFormed(t) /\ t # Unforked
  BY ForkedIsNotUnforked DEF ChildReady
<1>2. child'[p] = t /\ \A x \in Ports \ {p} : child'[x] = child[x]
  BY <1>0 DEF TypeOK
<1>3. /\ child' = [x \in Ports |-> child'[x]]
      /\ \A x \in Ports : child'[x] = Unforked \/ child'[x] \in ChildRecord(x)
  BY <1>0, <1>1, <1>2 DEF TypeOK
<1>4. PostMap' = PostMap
  BY PostStays
<1>5. PICK F : F = PostMap'
  OBVIOUS
<1>6. /\ MailIsSound' /\ inbox' = [s \in Sockets |-> inbox'[s]]
      /\ \A s \in Sockets : inbox'[s] \in Seq(Datagrams(s))
  BY <1>4, <1>5, QueuesAfter
<1>7. TypeOK'
  <2>1. due' \subseteq open' /\ open' \subseteq Sockets
    BY <1>0 DEF TypeOK
  <2>2. QED
    BY <1>0, <1>3, <1>6, <2>1 DEF TypeOK, Datagrams, ToClient, ToServer
<1>8. ClientsAdvance
  <2>1. \A e \in Clients : client[e].mvSequence <= client[e].mvSequence
    BY <1>0 DEF TypeOK, ClientRecord
  <2>2. QED
    BY <1>0, <2>1 DEF ClientsAdvance, Told, TypeOK
<1>9. \A e \in Clients : ClientIsSound(e)'
  BY DEF IInv, ClientIsSound, Told
<1>10. ListenerIsSound'
  BY <1>0, <1>2 DEF ListenerIsSound
<1>11. ASSUME NEW x \in Ports, child'[x] # Unforked
       PROVE  ChildIsSound(child[x])'
  <2>1. CASE x = p
    BY <1>1, <1>2, <2>1 DEF ChildIsSound, WindowReached, Told
  <2>2. CASE x # p
    BY <1>2, <1>8, <1>11, <2>2, UntouchedChildIsSound
  <2>3. QED
    BY <2>1, <2>2
<1>12. QED
  BY <1>1, <1>2, <1>6, <1>7, <1>9, <1>10, <1>11 DEF IInv

\* A child that was forked is well-formed and talks to a client that knows of it.
LEMMA ChildFacts ==
    ASSUME IInv, NEW p \in Ports, child[p] # Unforked
    PROVE  /\ ChildReady(p, child[p]) /\ WindowReached(child[p])
           /\ \E c \in Clients : /\ Told(c)
                                /\ child[p].mvAddr \in {OldSocket(c), NewSocket(c)}
  BY DEF IInv, TypeOK, ChildIsSound, ChildReady

\* The lower end of a window is a number, and so is what a client has written.
LEMMA WindowNumbers ==
    ASSUME TypeOK
    PROVE  /\ \A c \in Clients : client[c].mvSequence \in Nat
           /\ \A p : \A s \in ChildRecord(p) : WindowBase(s) \in Int
<1>1. \A c \in Clients : client[c].mvSequence \in Nat
  BY DEF TypeOK, ClientRecord
<1>2. ASSUME NEW p, NEW s \in ChildRecord(p)
      PROVE  WindowBase(s) \in Int
  <2>1. s.mvSequence \in Nat /\ s.mvWindow \in Seq(DataPacket)
    BY DEF ChildRecord
  <2>2. Len(s.mvWindow) \in Nat
    BY <2>1, LenProperties
  <2>3. QED
    BY <2>1, <2>2 DEF WindowBase
<1>3. QED
  BY <1>1, <1>2

\* A window that keeps its lower end or starts anew has not passed its client.
LEMMA ReachedAfter ==
    ASSUME TypeOK, NEW c \in Clients, NEW p, NEW s, NEW t \in ChildRecord(p),
           WindowReached(s), s \in ChildRecord(p), KeepsBase(s, t)
    PROVE  WindowReached(t)
<1>1. client[c].mvSequence \in Nat
  BY DEF TypeOK, ClientRecord
<1>2. CASE WindowBase(t) = 0
  BY <1>1, <1>2 DEF WindowReached
<1>3. CASE Transferring(s) /\ WindowBase(t) <= WindowBase(s)
  <2>1. PICK e \in Clients : WindowBase(s) <= client[e].mvSequence
    BY <1>3 DEF WindowReached
  <2>2. client[e].mvSequence \in Nat /\ WindowBase(s) \in Int /\ WindowBase(t) \in Int
    BY WindowNumbers
  <2>3. WindowBase(t) <= client[e].mvSequence
    BY <1>3, <2>1, <2>2
  <2>4. QED
    BY <2>3 DEF WindowReached
<1>4. QED
  BY <1>2, <1>3 DEF KeepsBase, WindowReached

\* What child p sends to client c stays within what may be on the way.
LEMMA ChildMailKeeps ==
    ASSUME NEW p \in Ports, NEW c \in Clients, Told(c),
           NEW to \in {OldSocket(c), NewSocket(c)}, UNCHANGED <<client, listener>>,
           NEW pkt \in ToClient, pkt.type \in {"RR", "REJ"} => pkt.sequence >= 1
    PROVE  /\ to \in Sockets
           /\ Datagram(p, pkt) \in PostMap[to]
           /\ Datagram(p, Flipped) \in PostMap[to]
<1>1. to \in Sockets /\ PostMap' = PostMap
  BY SocketFacts, PostStays
<1>2. Told(c)'
  BY DEF Told
<1>3. Datagram(p, pkt) \in Post(to)' /\ Datagram(p, Flipped) \in Post(to)'
  BY <1>2, ChildMayMail
<1>4. Datagram(p, pkt) \in PostMap'[to] /\ Datagram(p, Flipped) \in PostMap'[to]
  BY <1>1, <1>3 DEF PostMap
<1>5. QED
  BY <1>1, <1>4

\* A handler's reply, which went to a client that has been told a port.
LEMMA ChildRepliesIsSound ==
    ASSUME IInv, NEW p \in Ports, child[p] # Unforked,
           NEW reply, ChildReady(p, reply.child), WindowReached(reply.child),
           NEW c \in Clients, Told(c),
           reply.child.mvAddr \in {OldSocket(c), NewSocket(c)},
           reply.out = <<>> \/ \E pkt : reply.out = <<pkt>> /\ FromInit(pkt),
           NEW queues, InQueues(queues, PostMap), ChildReplies(p, reply, queues)
    PROVE  IInv' /\ child'[p] # Unforked
<1>1. PICK t : t = reply.child
  OBVIOUS
<1>2. PICK to : to = t.mvAddr
  OBVIOUS
<1>3. /\ child' = [child EXCEPT ![p] = t] /\ due' = due \ {p}
      /\ UNCHANGED <<client, listener, fresh>> /\ open' = open
      /\ Sends(queues, p, to, reply.out)
  BY <1>1, <1>2 DEF ChildReplies
<1>4. to \in {OldSocket(c), NewSocket(c)} /\ to \in Sockets
  BY <1>1, <1>2, SocketFacts
<1>5. PICK F : F = PostMap
  OBVIOUS
<1>6. \/ reply.out = <<>>
      \/ \E pkt : /\ reply.out = <<pkt>>
                  /\ Datagram(p, pkt) \in F[to] /\ Datagram(p, Flipped) \in F[to]
  <2>1. CASE reply.out # <<>>
    <3>1. PICK pkt : reply.out = <<pkt>> /\ FromInit(pkt)
      BY <2>1
    <3>2. pkt \in ToClient /\ (pkt.type \in {"RR", "REJ"} => pkt.sequence >= 1)
      BY <3>1 DEF FromInit
    <3>3. Datagram(p, pkt) \in PostMap[to] /\ Datagram(p, Flipped) \in PostMap[to]
      BY <1>3, <1>4, <3>2, ChildMailKeeps
    <3>4. QED
      BY <1>5, <3>1, <3>3
  <2>2. QED
    BY <2>1
<1>7. faults \in Nat
  BY DEF IInv, TypeOK
<1>8. InQueues(inbox', F) /\ faults' \in Nat
  BY <1>3, <1>4, <1>5, <1>6, <1>7, SendsKeeps
<1>9. QED
  BY <1>1, <1>2, <1>3, <1>4, <1>5, <1>8, ChildMoveIsSound

\* A handler of child p's has made outcome of state s, which talks to client c.
LEMMA ChildFailsIsSound ==
    ASSUME IInv, NEW p \in Ports, NEW s, ChildReady(p, s), WindowReached(s),
           s.mvState \in {"INIT", "WAIT_RR"}, NEW c \in Clients
    PROVE  LET reply == ChildFails(s)
           IN  /\ ChildReady(p, reply.child) /\ WindowReached(reply.child)
               /\ reply.child.mvAddr = s.mvAddr
               /\ \/ reply.out = <<>>
                  \/ \E pkt : reply.out = <<pkt>> /\ FromInit(pkt)
<1>0. TypeOK /\ s \in ChildRecord(p)
  BY DEF IInv, ChildReady
<1>1. PICK reply : reply = ChildFails(s)
  OBVIOUS
<1>2. CASE s.mvState = "INIT"
  <2>1. reply = ChildInitFailed(s, Files)
    BY <1>1, <1>2 DEF ChildFails
  <2>2. InitOutcome(p, s, reply)
    BY <1>2, <2>1, ChildInitFailedIsSound
  <2>3. /\ ChildReady(p, reply.child) /\ reply.child.mvAddr = s.mvAddr
        /\ KeepsBase(s, reply.child)
        /\ \E pkt : reply.out = <<pkt>> /\ FromInit(pkt)
    BY <2>2 DEF InitOutcome
  <2>4. WindowReached(reply.child)
    BY <1>0, <2>3, ReachedAfter DEF ChildReady
  <2>5. QED
    BY <1>1, <2>3, <2>4
<1>3. CASE s.mvState = "WAIT_RR"
  <2>1. PICK t : t = WaitRRFailed(s)
    OBVIOUS
  <2>2. reply = [child |-> t, out |-> <<>>]
    BY <1>1, <1>3, <2>1 DEF ChildFails
  <2>3. ChildReady(p, t) /\ t.mvAddr = s.mvAddr /\ KeepsBase(s, t)
    BY <1>3, <2>1, WaitRRFailedIsSound
  <2>4. WindowReached(t)
    BY <1>0, <2>3, ReachedAfter DEF ChildReady
  <2>5. QED
    BY <1>1, <2>2, <2>3, <2>4
<1>4. QED
  BY <1>2, <1>3

\* An RR moves the window up to behind a block some client has written.
LEMMA ChildTakesIsSound ==
    ASSUME IInv, NEW p \in Ports, NEW s, ChildReady(p, s), WindowReached(s),
           s.mvState \in {"INIT", "WAIT_RR"}, s.mvRetries >= 1,
           NEW c \in Clients, NEW d, d.pkt \in ToServer, SentByClient(c, p, d)
    PROVE  LET reply == ChildTakes(s, d.pkt)
           IN  /\ ChildReady(p, reply.child) /\ WindowReached(reply.child)
               /\ reply.child.mvAddr = s.mvAddr
               /\ \/ reply.out = <<>>
                  \/ \E pkt : reply.out = <<pkt>> /\ FromInit(pkt)
<1>0. TypeOK /\ s \in ChildRecord(p)
  BY DEF IInv, ChildReady
<1>1. PICK reply : reply = ChildTakes(s, d.pkt)
  OBVIOUS
<1>2. PICK m : m = d.pkt
  OBVIOUS
<1>3. /\ m \in ToServer /\ (m.type = "FLN" => m.data \in Clients)
      /\ m.type = "RR" => m.sequence < client[c].mvSequence
  BY <1>2 DEF SentByClient
<1>4. CASE s.mvState = "INIT"
  <2>1. reply = ChildInit(s, m, Files)
    BY <1>1, <1>2, <1>4 DEF ChildTakes
  <2>2. InitOutcome(p, s, reply)
    BY <1>3, <1>4, <2>1, ChildInitIsSound
  <2>3. /\ ChildReady(p, reply.child) /\ reply.child.mvAddr = s.mvAddr
        /\ KeepsBase(s, reply.child)
        /\ \E pkt : reply.out = <<pkt>> /\ FromInit(pkt)
    BY <2>2 DEF InitOutcome
  <2>4. WindowReached(reply.child)
    BY <1>0, <2>3, ReachedAfter DEF ChildReady
  <2>5. QED
    BY <1>1, <2>3, <2>4
<1>5. CASE s.mvState = "WAIT_RR"
  <2>1. PICK t : t = WaitRR(s, m)
    OBVIOUS
  <2>2. reply = [child |-> t, out |-> <<>>]
    BY <1>1, <1>2, <1>5, <2>1 DEF ChildTakes
  <2>3. /\ ChildReady(p, t) /\ t.mvAddr = s.mvAddr
        /\ KeepsBase(s, t) \/ (m.type = "RR" /\ WindowBase(t) <= m.sequence + 1)
    BY <1>3, <1>5, <2>1, WaitRRIsSound
  <2>4. WindowReached(t)
    <3>1. CASE KeepsBase(s, t)
      BY <1>0, <2>3, <3>1, ReachedAfter DEF ChildReady
    <3>2. CASE m.type = "RR" /\ WindowBase(t) <= m.sequence + 1
      <4>1. /\ client[c].mvSequence \in Nat /\ m.sequence \in Nat
            /\ WindowBase(t) \in Int
        BY <1>0, <1>3, <2>3, WindowNumbers DEF ToServer, ChildReady
      <4>2. WindowBase(t) <= client[c].mvSequence
        BY <1>3, <3>2, <4>1
      <4>3. QED
        BY <4>2 DEF WindowReached
    <3>3. QED
      BY <2>3, <3>1, <3>2
  <2>5. QED
    BY <1>1, <2>2, <2>3, <2>4
<1>6. QED
  BY <1>4, <1>5

LEMMA ChildTimesOutIsSound ==
    ASSUME IInv, NEW p \in Ports, ChildTimesOut(p)
    PROVE  IInv' /\ child'[p] # Unforked
<1>1. PICK v : v = child[p]
  OBVIOUS
<1>2. PICK s : s = ChildTimedOut(v)
  OBVIOUS
<1>3. PICK reply : reply = ChildFails(s)
  OBVIOUS
<1>4. /\ child[p] # Unforked /\ ChildRunning(v) /\ v.mvState \in {"INIT", "WAIT_RR"}
      /\ ChildReplies(p, reply, inbox)
  BY <1>1, <1>2, <1>3 DEF ChildTimesOut, ChildWaits, ChildAlive
<1>5. ChildReady(p, v) /\ WindowReached(v)
  BY <1>1, <1>4, ChildFacts
<1>6. PICK c \in Clients : Told(c) /\ v.mvAddr \in {OldSocket(c), NewSocket(c)}
  BY <1>1, <1>4, ChildFacts
<1>7. /\ ChildReady(p, s) /\ s.mvAddr = v.mvAddr /\ s.mvState = v.mvState
      /\ WindowBase(s) = WindowBase(v)
  BY <1>2, <1>4, <1>5, ChildTimeoutKeeps
<1>8. WindowReached(s)
  BY <1>5, <1>7 DEF WindowReached, Transferring
<1>9. /\ ChildReady(p, reply.child) /\ WindowReached(reply.child)
      /\ reply.child.mvAddr = s.mvAddr
      /\ reply.out = <<>> \/ \E pkt : reply.out = <<pkt>> /\ FromInit(pkt)
  BY <1>3, <1>4, <1>7, <1>8, ChildFailsIsSound
<1>10. InQueues(inbox, PostMap)
  BY MailInQueues DEF IInv
<1>11. QED
  BY <1>4, <1>6, <1>7, <1>9, <1>10, ChildRepliesIsSound

LEMMA ChildReceivesIsSound ==
    ASSUME IInv, NEW p \in Ports, ChildReceives(p)
    PROVE  IInv' /\ child'[p] # Unforked
<1>1. PICK v : v = child[p]
  OBVIOUS
<1>2. PICK d : d = Head(inbox[p])
  OBVIOUS
<1>3. PICK s : s = ChildReceived(v, d)
  OBVIOUS
<1>4. PICK reply : reply = IF Intact(d.pkt) THEN ChildTakes(s, d.pkt) ELSE ChildFails(s)
  OBVIOUS
<1>5. /\ child[p] # Unforked /\ v.mvState \in {"INIT", "WAIT_RR"} /\ Readable(p)
      /\ ChildReplies(p, reply, Received(p))
  BY <1>1, <1>2, <1>3, <1>4 DEF ChildReceives, ChildWaits, ChildAlive
<1>6. ChildReady(p, v) /\ WindowReached(v)
  BY <1>1, <1>5, ChildFacts
<1>7. PICK F : F = PostMap
  OBVIOUS
<1>8. p \in Sockets /\ F[p] = Post(p)
  BY <1>7, SocketFacts DEF PostMap
<1>9. InQueues(inbox, F)
  BY <1>7, MailInQueues DEF IInv
<1>10. InQueues(Received(p), F) /\ d \in Post(p)
  BY <1>2, <1>5, <1>8, <1>9, ReceivedKeeps DEF Readable
<1>11. d.pkt \in ToServer /\ \E c \in Clients : SentByClient(c, p, d)
  BY <1>10, ServerMail
<1>12. PICK c \in Clients : SentByClient(c, p, d)
  BY <1>11
<1>13. /\ d.from \in {OldSocket(c), NewSocket(c)} /\ Told(c)
       /\ d.from \in ClientSockets
  BY <1>12, SocketFacts DEF SentByClient
<1>14. /\ ChildReady(p, s) /\ s.mvAddr = d.from /\ s.mvState = v.mvState
       /\ WindowBase(s) = WindowBase(v) /\ s.mvRetries >= 1
  BY <1>3, <1>6, <1>13, ChildTakesDatagram
<1>15. WindowReached(s)
  BY <1>6, <1>14 DEF WindowReached, Transferring
<1>16. /\ ChildReady(p, reply.child) /\ WindowReached(reply.child)
       /\ reply.child.mvAddr = s.mvAddr
       /\ reply.out = <<>> \/ \E pkt : reply.out = <<pkt>> /\ FromInit(pkt)
  <2>1. CASE Intact(d.pkt)
    <3>1. reply = ChildTakes(s, d.pkt)
      BY <1>4, <2>1
    <3>2. s.mvState \in {"INIT", "WAIT_RR"} /\ d.pkt \in ToServer
      BY <1>5, <1>11, <1>14
    <3>3. LET r == ChildTakes(s, d.pkt)
          IN  /\ ChildReady(p, r.child) /\ WindowReached(r.child)
              /\ r.child.mvAddr = s.mvAddr
              /\ r.out = <<>> \/ \E pkt : r.out = <<pkt>> /\ FromInit(pkt)
      BY <1>12, <1>14, <1>15, <3>2, ChildTakesIsSound
    <3>4. QED
      BY <3>1, <3>3
  <2>2. CASE ~Intact(d.pkt)
    <3>1. reply = ChildFails(s)
      BY <1>4, <2>2
    <3>2. QED
      BY <1>5, <1>14, <1>15, <3>1, ChildFailsIsSound
  <2>3. QED
    BY <2>1, <2>2
<1>17. QED
  BY <1>5, <1>7, <1>10, <1>13, <1>14, <1>16, ChildRepliesIsSound

\* The steps of a child on its own: its window does not move up.
LEMMA ChildGoesOnIsSound ==
    ASSUME IInv, NEW p \in Ports, child[p] # Unforked,
           NEW t, ChildReady(p, t), t.mvAddr = child[p].mvAddr,
           KeepsBase(child[p], t), child' = [child EXCEPT ![p] = t],
           UNCHANGED <<client, listener, fresh>>,
           InQueues(inbox', PostMap), faults' \in Nat, open' = open, due' = due
    PROVE  IInv'
<1>1. ChildReady(p, child[p]) /\ WindowReached(child[p])
  BY ChildFacts
<1>2. PICK c \in Clients : Told(c) /\ child[p].mvAddr \in {OldSocket(c), NewSocket(c)}
  BY ChildFacts
<1>3. WindowReached(t)
  <2>1. PICK s : s = child[p]
    OBVIOUS
  <2>2. WindowReached(s) /\ KeepsBase(s, t) /\ s \in ChildRecord(p)
    BY <1>1, <2>1 DEF ChildReady
  <2>3. t \in ChildRecord(p) /\ TypeOK
    BY DEF ChildReady, IInv
  <2>4. QED
    BY <1>2, <2>2, <2>3, ReachedAfter
<1>4. QED
  BY <1>2, <1>3, ChildMoveIsSound

LEMMA ChildFillsWindowIsSound ==
    ASSUME IInv, NEW p \in Ports, ChildFillsWindow(p)
    PROVE  IInv'
<1>1. PICK s : s = child[p]
  OBVIOUS
<1>2. PICK t : t = FillWindow(s)
  OBVIOUS
<1>3. /\ child[p] # Unforked /\ s.mvState = "FILL_WINDOW"
      /\ child' = [child EXCEPT ![p] = t] /\ UNCHANGED <<client, listener, fresh>>
      /\ inbox' = inbox /\ open' = open /\ due' = due /\ faults' = faults
  BY <1>1, <1>2 DEF ChildFillsWindow, ChildAlive
<1>4. ChildReady(p, s)
  BY <1>1, <1>3, ChildFacts
<1>5. ChildReady(p, t) /\ t.mvAddr = s.mvAddr /\ KeepsBase(s, t)
  BY <1>2, <1>3, <1>4, FillWindowIsSound
<1>6. InQueues(inbox', PostMap) /\ faults' \in Nat
  BY <1>3, MailInQueues DEF IInv, TypeOK, InQueues
<1>7. QED
  BY <1>1, <1>3, <1>5, <1>6, ChildGoesOnIsSound

LEMMA ChildHasSentIsSound ==
    ASSUME IInv, NEW p \in Ports, ChildHasSent(p)
    PROVE  IInv'
<1>1. PICK s : s = child[p]
  OBVIOUS
<1>2. PICK t : t = [s EXCEPT !.mvState = "WAIT_RR"]
  OBVIOUS
<1>3. /\ child[p] # Unforked /\ s.mvState = "SEND_WINDOW"
      /\ child' = [child EXCEPT ![p] = t] /\ UNCHANGED <<client, listener, fresh>>
      /\ inbox' = inbox /\ open' = open /\ due' = due /\ faults' = faults
  BY <1>1, <1>2 DEF ChildHasSent, ChildAlive
<1>4. ChildReady(p, s)
  BY <1>1, <1>3, ChildFacts
<1>5. ChildReady(p, t) /\ t.mvAddr = s.mvAddr /\ KeepsBase(s, t)
  BY <1>2, <1>3, <1>4, HasSentIsSound
<1>6. InQueues(inbox', PostMap) /\ faults' \in Nat
  BY <1>3, MailInQueues DEF IInv, TypeOK, InQueues
<1>7. QED
  BY <1>1, <1>3, <1>5, <1>6, ChildGoesOnIsSound

LEMMA ChildSendsIsSound ==
    ASSUME IInv, NEW p \in Ports, ChildSends(p)
    PROVE  IInv'
<1>1. PICK s : s = child[p]
  OBVIOUS
<1>2. PICK t : t = PopOutBuf(s)
  OBVIOUS
<1>3. /\ child[p] # Unforked /\ s.mvState = "SEND_WINDOW" /\ s.mvOutBuf # <<>>
      /\ child' = [child EXCEPT ![p] = t] /\ UNCHANGED <<client, listener, fresh>>
      /\ open' = open /\ due' = due
      /\ SendtoErr(inbox, p, s.mvAddr, Head(s.mvOutBuf))
  BY <1>1, <1>2 DEF ChildSends, ChildAlive
<1>4. ChildReady(p, s)
  BY <1>1, <1>3, ChildFacts
<1>5. /\ ChildReady(p, t) /\ t.mvAddr = s.mvAddr /\ KeepsBase(s, t)
      /\ Head(s.mvOutBuf) \in DataPacket
  BY <1>2, <1>3, <1>4, PopOutBufIsSound
<1>6. PICK c \in Clients : Told(c) /\ s.mvAddr \in {OldSocket(c), NewSocket(c)}
  BY <1>1, <1>3, ChildFacts
<1>7. PICK pkt : pkt = Head(s.mvOutBuf)
  OBVIOUS
<1>8. pkt \in ToClient /\ (pkt.type \in {"RR", "REJ"} => pkt.sequence >= 1)
  BY <1>5, <1>7, DataPacketsGoToClients
<1>9. PICK F : F = PostMap
  OBVIOUS
<1>10. /\ s.mvAddr \in Sockets /\ Datagram(p, pkt) \in F[s.mvAddr]
       /\ Datagram(p, Flipped) \in F[s.mvAddr]
  BY <1>3, <1>6, <1>8, <1>9, ChildMailKeeps
<1>11. InQueues(inbox, F) /\ faults \in Nat
  BY <1>9, MailInQueues DEF IInv, TypeOK
<1>12. InQueues(inbox', F) /\ faults' \in Nat
  BY <1>3, <1>7, <1>10, <1>11, SendtoErrKeeps
<1>13. QED
  BY <1>1, <1>3, <1>5, <1>9, <1>12, ChildGoesOnIsSound

-----------------------------------------------------------------------------
(* The server's steps *)

\* The steps of the server: its loop's state and perhaps one new child, for a
\* client that has been told a port.
LEMMA ListenerMoveIsSound ==
    ASSUME IInv, UNCHANGED client,
           listener' \in [cxn2: BOOLEAN, sk: Ports \union {Nothing},
                          outpkt: Answers \union {Unwritten}],
           listener.outpkt # Unwritten => listener'.outpkt # Unwritten,
           fresh' \subseteq fresh,
           listener'.cxn2 => /\ listener'.sk \in Ports \ fresh'
                             /\ child'[listener'.sk] = Unforked,
           \A p \in fresh' : child'[p] = Unforked,
           child' = [p \in Ports |-> child'[p]],
           \A p \in Ports :
              \/ child'[p] = child[p]
              \/ \E c \in Clients :
                    Told(c) /\ child'[p] = ForkedChild(p, OldSocket(c)),
           NEW F, F = PostMap', InQueues(inbox', F), faults' \in Nat,
           open' \subseteq Sockets, due' \subseteq open'
    PROVE  IInv'
<1>0. TypeOK
  BY DEF IInv
<1>1. /\ MailIsSound' /\ inbox' = [s \in Sockets |-> inbox'[s]]
      /\ \A s \in Sockets : inbox'[s] \in Seq(Datagrams(s))
  BY QueuesAfter
<1>2. ClientsAdvance
  <2>1. \A e \in Clients : client[e].mvSequence <= client[e].mvSequence
    BY <1>0 DEF TypeOK, ClientRecord
  <2>2. QED
    BY <1>0, <2>1 DEF ClientsAdvance, Told, TypeOK
<1>3. ASSUME NEW p \in Ports, child'[p] # child[p]
      PROVE  child'[p] \in ChildRecord(p) /\ ChildIsSound(child[p])'
  <2>1. PICK c \in Clients : Told(c) /\ child'[p] = ForkedChild(p, OldSocket(c))
    BY <1>3
  <2>2. PICK s : s = ForkedChild(p, OldSocket(c))
    OBVIOUS
  <2>3. /\ s \in ChildRecord(p) /\ WellFormed(s) /\ s.mvState = "INIT"
        /\ s.mvAddr = OldSocket(c)
    BY <2>2, SocketFacts, ForkedChildFacts DEF ChildReady
  <2>4. ~Transferring(s)
    BY <2>3 DEF Transferring
  <2>5. child'[p] = s /\ Told(c)'
    BY <2>1, <2>2 DEF Told
  <2>6. QED
    BY <2>3, <2>4, <2>5 DEF ChildIsSound, WindowReached
<1>4. TypeOK'
  <2>1. \A p \in Ports : child'[p] = Unforked \/ child'[p] \in ChildRecord(p)
    BY <1>0, <1>3 DEF TypeOK
  <2>2. fresh' \subseteq Ports
    BY <1>0 DEF TypeOK
  <2>3. QED
    BY <1>0, <1>1, <2>1, <2>2 DEF TypeOK, Datagrams, ToClient, ToServer, Answers
<1>5. \A e \in Clients : ClientIsSound(e)'
  BY DEF IInv, ClientIsSound, Told
<1>6. ListenerIsSound'
  BY DEF ListenerIsSound
<1>7. ASSUME NEW p \in Ports, child'[p] # Unforked
      PROVE  ChildIsSound(child[p])'
  BY <1>2, <1>3, <1>7, UntouchedChildIsSound
<1>8. QED
  BY <1>1, <1>4, <1>5, <1>6, <1>7 DEF IInv

LEMMA ListenerReceivesIsSound == IInv /\ ListenerReceives => IInv'
<1> SUFFICES ASSUME IInv, ListenerReceives
             PROVE  IInv'
  OBVIOUS
<1>0. TypeOK /\ ListenerIsSound /\ ListenSocket \in Sockets
  BY SocketFacts DEF IInv
<1>1. PICK d : d = Head(inbox[ListenSocket])
  OBVIOUS
<1>2. PICK F : F = PostMap
  OBVIOUS
<1>3. /\ Readable(ListenSocket) /\ client' = client /\ due' = due
  BY DEF ListenerReceives
<1>4. InQueues(Received(ListenSocket), F) /\ d \in F[ListenSocket]
  <2>1. InQueues(inbox, F)
    BY <1>2, MailInQueues DEF IInv
  <2>2. QED
    BY <1>0, <1>1, <1>3, <2>1, ReceivedKeeps DEF Readable
<1>5. d \in Post(ListenSocket)
  BY <1>0, <1>2, <1>4 DEF PostMap
<1>6. PICK c \in Clients : SentByClient(c, ListenSocket, d)
  BY <1>5, ServerMail
<1>7. d.from = OldSocket(c) /\ d.from \in Sockets /\ d.pkt \in ToServer
  BY <1>5, <1>6, ServerMail, SocketFacts DEF SentByClient
<1>8. CASE ~Intact(d.pkt)
  <2>1. /\ inbox' = Received(ListenSocket)
        /\ UNCHANGED procVars /\ open' = open /\ faults' = faults
    BY <1>1, <1>3, <1>8 DEF ListenerReceives, procVars
  <2>2. InQueues(inbox', PostMap)
    BY <1>2, <1>4, <2>1
  <2>3. faults' \in Nat /\ open' \subseteq Sockets /\ due' \subseteq open'
    BY <1>0, <1>3, <2>1 DEF TypeOK
  <2>4. QED
    BY <2>1, <2>2, <2>3, ProcessesStayIsSound
<1>9. CASE Intact(d.pkt)
  <2>1. PICK port \in GetSocket(d.pkt) :
           LET step == RunStep(listener, d.pkt, port)
           IN  /\ listener' = step.server
               /\ fresh' = fresh \ {port}
               /\ child' = IF step.fork
                           THEN [child EXCEPT ![listener.sk] =
                                    ForkedChild(listener.sk, d.from)]
                           ELSE child
               /\ open' = IF step.fork THEN open \union {listener.sk} ELSE open
               /\ Sends(Received(ListenSocket), ListenSocket, d.from, step.out)
    BY <1>1, <1>9 DEF ListenerReceives
  <2>2. PICK step : step = RunStep(listener, d.pkt, port)
    OBVIOUS
  <2>3. PICK l : l = step.server
    OBVIOUS
  <2>4. PICK sk : sk = listener.sk
    OBVIOUS
  <2>5. /\ listener' = l /\ fresh' = fresh \ {port}
        /\ child' = IF step.fork THEN [child EXCEPT ![sk] = ForkedChild(sk, OldSocket(c))]
                                 ELSE child
        /\ open' = IF step.fork THEN open \union {sk} ELSE open
        /\ Sends(Received(ListenSocket), ListenSocket, d.from, step.out)
    BY <1>7, <2>1, <2>2, <2>3, <2>4
  <2>6. /\ d.pkt.type = "CXN" => port \in fresh /\ port \in Ports
        /\ d.pkt.type = "CXN" => d.pkt.sequence = 0
        /\ d.pkt.type = "CXN2" => d.pkt.sequence = 1
        /\ d.pkt.type \notin {"CXN", "FLIPPED"} => Told(c)
    BY <1>0, <1>6 DEF GetSocket, TypeOK, SentByClient
  <2>7. /\ l \in [cxn2: BOOLEAN, sk: Ports \union {Nothing},
                  outpkt: Answers \union {Unwritten}]
        /\ step.out = <<>> \/ step.out = <<l.outpkt>>
        /\ listener.outpkt # Unwritten => l.outpkt # Unwritten
        /\ d.pkt.type \in {"CXN", "CXN2"} /\ step.out # <<>> => l.outpkt # Unwritten
        /\ step.out # <<>> => d.pkt.type \in {"CXN", "CXN2", "REJ"}
        /\ step.fork => d.pkt.type = "CXN2" /\ listener.cxn2 /\ ~l.cxn2
        /\ l.cxn2 => IF d.pkt.type = "CXN" THEN l.sk = port
                                           ELSE listener.cxn2 /\ l.sk = sk
    <3>1. PICK m : m = listener
      OBVIOUS
    <3>2. m \in [cxn2: BOOLEAN, sk: Ports \union {Nothing},
                 outpkt: Answers \union {Unwritten}]
      BY <1>0, <3>1 DEF TypeOK
    <3>3. QED
      BY <1>9, <2>2, <2>3, <2>4, <2>6, <3>1, <3>2, RunStepFacts
  <2>8. step.fork => sk \in Ports \ fresh /\ child[sk] = Unforked /\ Told(c)
    BY <1>0, <2>4, <2>6, <2>7 DEF ListenerIsSound
  <2>9. /\ child' = [p \in Ports |-> child'[p]]
        /\ \A p \in Ports : \/ child'[p] = child[p]
                           \/ /\ step.fork /\ p = sk
                              /\ child'[p] = ForkedChild(p, OldSocket(c))
    BY <1>0, <2>5, <2>8 DEF TypeOK
  <2>10. /\ l.cxn2 => l.sk \in Ports \ fresh' /\ child'[l.sk] = Unforked
         /\ \A p \in fresh' : child'[p] = Unforked
    <3>1. \A p \in fresh' : child'[p] = Unforked
      BY <1>0, <2>5, <2>8, <2>9 DEF ListenerIsSound, TypeOK
    <3>2. CASE l.cxn2 /\ d.pkt.type = "CXN"
      BY <1>0, <2>5, <2>6, <2>7, <3>1, <3>2 DEF ListenerIsSound
    <3>3. CASE l.cxn2 /\ d.pkt.type # "CXN"
      BY <1>0, <2>4, <2>5, <2>7, <3>1, <3>3 DEF ListenerIsSound
    <3>4. QED
      BY <3>1, <3>2, <3>3
  <2>11. PICK G : G = PostMap'
    OBVIOUS
  <2>12. InQueues(Received(ListenSocket), G)
    <3>1. \A s \in Sockets : F[s] \subseteq G[s]
      <4>1. ASSUME NEW e \in Clients
            PROVE  /\ Told(e) => Told(e)'
                   /\ client[e].mvSequence \in Nat /\ client'[e].mvSequence \in Nat
                   /\ client[e].mvSequence <= client'[e].mvSequence
        BY <1>0, <1>3 DEF TypeOK, ClientRecord, Told
      <4>2. QED
        BY <1>2, <2>5, <2>7, <2>11, <4>1, PostGrows
    <3>2. QED
      BY <1>4, <3>1, QueuesWiden
  <2>13. \/ step.out = <<>>
         \/ \E pkt : /\ step.out = <<pkt>>
                     /\ Datagram(ListenSocket, pkt) \in G[d.from]
                     /\ Datagram(ListenSocket, Flipped) \in G[d.from]
    <3>1. CASE step.out # <<>>
      <4>1. d.pkt.type = "REJ" => listener.outpkt # Unwritten
        BY <2>6 DEF IInv, ClientIsSound
      <4>2. l.outpkt # Unwritten /\ l.outpkt \in Answers
        BY <2>7, <3>1, <4>1
      <4>3. /\ Datagram(ListenSocket, l.outpkt) \in Post(OldSocket(c))'
            /\ Datagram(ListenSocket, Flipped) \in Post(OldSocket(c))'
        BY <2>5, <4>2, ListenerMayMail
      <4>4. QED
        BY <1>7, <2>7, <2>11, <3>1, <4>3 DEF PostMap
    <3>2. QED
      BY <3>1
  <2>14. InQueues(inbox', G) /\ faults' \in Nat
    <3>1. faults \in Nat
      BY <1>0 DEF TypeOK
    <3>2. QED
      BY <1>7, <2>5, <2>12, <2>13, <3>1, SendsKeeps
  <2>15. open' \subseteq Sockets /\ due' \subseteq open'
    BY <1>0, <1>3, <2>5, <2>8, SocketFacts DEF TypeOK
  <2>16. /\ listener' \in [cxn2: BOOLEAN, sk: Ports \union {Nothing},
                           outpkt: Answers \union {Unwritten}]
         /\ listener.outpkt # Unwritten => listener'.outpkt # Unwritten
         /\ listener'.cxn2 => /\ listener'.sk \in Ports \ fresh'
                              /\ child'[listener'.sk] = Unforked
         /\ fresh' \subseteq fresh
    BY <2>5, <2>7, <2>10
  <2>17. \A p \in Ports :
            \/ child'[p] = child[p]
            \/ \E e \in Clients : Told(e) /\ child'[p] = ForkedChild(p, OldSocket(e))
    BY <2>8, <2>9
  <2>18. QED
    BY <1>3, <2>9, <2>10, <2>11, <2>14, <2>15, <2>16, <2>17, ListenerMoveIsSound
<1>10. QED
  BY <1>8, <1>9

-----------------------------------------------------------------------------
(* The invariant *)

\* At the start nothing is on the way, no client has sent anything and no child
\* was forked.
LEMMA InitIsSound == Init => IInv
<1> SUFFICES ASSUME Init
             PROVE  IInv
  OBVIOUS
<1>0. /\ client = [c \in Clients |-> NewClient(c)] /\ listener = NewListener
      /\ child = [p \in Ports |-> Unforked] /\ fresh = Ports
      /\ inbox = [s \in Sockets |-> <<>>]
      /\ open = {ListenSocket} \union {OldSocket(c) : c \in Clients}
      /\ due = {} /\ faults = 0
  BY DEF Init, NetworkInit
<1>1. ASSUME NEW c \in Clients
      PROVE  /\ client[c] \in ClientRecord(c) /\ client[c].i = -1
             /\ client[c].addr = Nothing /\ client[c].mvAddr = ListenSocket
             /\ client[c].mvSocket = OldSocket(c) /\ client[c].mvState = "INIT"
             /\ client[c].mvSequence = 0
  <2>1. PKT_TRNSMAX \in 0 .. PKT_TRNSMAX /\ <<>> \in Seq(Int)
    BY RetriesAssumption, EmptySeq
  <2>2. PICK e \in Seq(Int) : e = <<>>
    BY <2>1
  <2>3. client[c] = [mvState |-> "INIT", mvSequence |-> 0, mvRetries |-> PKT_TRNSMAX,
                     mvAddr |-> ListenSocket, mvTo |-> e, mvSocket |-> OldSocket(c),
                     i |-> -1, addr |-> Nothing]
    BY <1>0, <2>2 DEF NewClient
  <2>4. QED
    BY <2>1, <2>3 DEF ClientRecord
<1>2. \A c \in Clients : ClientIsSound(c)
  <2> SUFFICES ASSUME NEW c \in Clients
               PROVE  ClientIsSound(c)
    OBVIOUS
  <2>1. client[c].mvSocket # NewSocket(c)
    BY <1>1, OwnSockets
  <2>2. QED
    BY <1>1, <2>1 DEF ClientIsSound, Told
<1>3. TypeOK
  <2>1. \A s \in Sockets : inbox[s] \in Seq(Datagrams(s))
    BY <1>0, EmptySeq
  <2>2. open \subseteq Sockets
    BY <1>0, SocketFacts
  <2>3. listener \in [cxn2: BOOLEAN, sk: Ports \union {Nothing},
                      outpkt: Answers \union {Unwritten}]
    BY <1>0 DEF NewListener
  <2>4. QED
    BY <1>0, <1>1, <2>1, <2>2, <2>3 DEF TypeOK
<1>4. MailIsSound
  BY <1>0, EmptySeq DEF MailIsSound
<1>5. ListenerIsSound
  BY <1>0 DEF ListenerIsSound, NewListener
<1>6. \A p \in Ports : child[p] = Unforked
  BY <1>0
<1>7. QED
  BY <1>2, <1>3, <1>4, <1>5, <1>6 DEF IInv

\* A client's exit, and a child's, close its socket and nothing else.
LEMMA ExitsAreSound ==
    ASSUME IInv
    PROVE  /\ \A c \in Clients : ClientExits(c) => IInv'
           /\ \A p \in Ports : ChildExits(p) => IInv'
  BY CloseIsSound DEF ClientExits, ChildExits

LEMMA NextIsSound == IInv /\ [Next]_vars => IInv'
<1> SUFFICES ASSUME IInv, [Next]_vars
             PROVE  IInv'
  OBVIOUS
<1>1. ASSUME NEW c \in Clients, ClientStep(c)
      PROVE  IInv'
  BY <1>1, ClientConnectsIsSound, ClientReceivesIsSound, ClientTimesOutIsSound,
     ExitsAreSound DEF ClientStep
<1>2. ASSUME NEW p \in Ports, ChildStep(p)
      PROVE  IInv'
  BY <1>2, ChildReceivesIsSound, ChildTimesOutIsSound, ChildFillsWindowIsSound,
     ChildSendsIsSound, ChildHasSentIsSound, ExitsAreSound DEF ChildStep
<1>3. CASE ListenerReceives
  BY <1>3, ListenerReceivesIsSound
<1>4. CASE Tick
  BY <1>4, TickIsSound
<1>5. CASE NetworkActs
  BY <1>5, NetworkActsIsSound
<1>6. CASE Terminated
  BY <1>6, StutterIsSound DEF Terminated
<1>7. CASE UNCHANGED vars
  BY <1>7, StutterIsSound
<1>8. QED
  BY <1>1, <1>2, <1>3, <1>4, <1>5, <1>6, <1>7 DEF Next

\* Whatever the network does, mail, clients, server and children stay sound
\* (Client.cpp:189-286, Server.cpp:100-215, 335-431).
THEOREM SessionIsSound == Spec => []IInv
<1>1. QED
  BY InitIsSound, NextIsSound, PTL DEF Spec

\* The variables keep their types: a child talks to clients only, and neither
\* end of a transfer is ever in a state the code does not name.
THEOREM SessionTypesAreKept == Spec => []TypeOK
<1>1. IInv => TypeOK
  BY DEF IInv
<1>2. QED
  BY <1>1, SessionIsSound, PTL

\* A block leaves a child's window only when some client has written it, for
\* any number of clients and whatever packets of the handshake reach waitRR
\* (Server.cpp:335, 387-431, Client.cpp:247).
THEOREM WindowsAreReached == Spec => []WindowsStayReachable
<1>1. IInv => WindowsStayReachable
  BY DEF IInv, ChildIsSound, WindowsStayReachable
<1>2. QED
  BY <1>1, SessionIsSound, PTL

\* With one client, what has left a child's window was written by the client
\* that the child talks to (Server.cpp:387-431); with two it may not be.
THEOREM OneClientsWindowFits ==
    ASSUME NEW me, Clients = {me}
    PROVE  Spec => []WindowsFitTheirClients
<1>1. IInv => WindowsFitTheirClients
  <2> SUFFICES ASSUME IInv, NEW p \in Ports, NEW c \in Clients,
                      child[p] # Unforked, Transferring(child[p])
               PROVE  WindowBase(child[p]) <= client[c].mvSequence
    BY DEF WindowsFitTheirClients
  <2>1. PICK d \in Clients : WindowBase(child[p]) <= client[d].mvSequence
    BY DEF IInv, ChildIsSound, WindowReached
  <2>2. d = c
    OBVIOUS
  <2>3. QED
    BY <2>1, <2>2
<1>2. QED
  BY <1>1, SessionIsSound, PTL

\* Sending leaves every queue but the receiver's alone.
LEMMA SendsToOne ==
    ASSUME NEW q, NEW from, NEW to, NEW out, NEW s, s # to,
           Sends(q, from, to, out)
    PROVE  inbox'[s] = q[s]
<1>1. \A d : Deliver(q, to, d)[s] = q[s]
  BY DEF Deliver
<1>2. QED
  BY <1>1 DEF Sends, SendtoErr

\* While the server takes a packet no child that is there changes: a port gets
\* one child (Server.cpp:136-155).
LEMMA ListenerLeavesChildren ==
    ASSUME IInv, ListenerReceives, NEW p \in Ports, child[p] # Unforked
    PROVE  child'[p] = child[p]
<1>0. TypeOK /\ ListenerIsSound
  BY DEF IInv
<1>1. PICK d : d = Head(inbox[ListenSocket])
  OBVIOUS
<1>2. CASE ~Intact(d.pkt)
  BY <1>1, <1>2 DEF ListenerReceives
<1>3. CASE Intact(d.pkt)
  <2>1. PICK port \in GetSocket(d.pkt) :
           child' = IF RunStep(listener, d.pkt, port).fork
                    THEN [child EXCEPT ![listener.sk] =
                             ForkedChild(listener.sk, d.from)]
                    ELSE child
    BY <1>1, <1>3 DEF ListenerReceives
  <2>2. RunStep(listener, d.pkt, port).fork => listener.cxn2
    BY DEF RunStep
  <2>3. listener.cxn2 => child[listener.sk] = Unforked
    BY <1>0 DEF ListenerIsSound
  <2>4. QED
    BY <2>1, <2>2, <2>3
<1>4. QED
  BY <1>2, <1>3

\* A child's step puts nothing into the server's queue: it sends to clients.
LEMMA ChildrenSendToClients ==
    ASSUME IInv, NEW p \in Ports, ChildStep(p)
    PROVE  inbox'[ListenSocket] = inbox[ListenSocket]
<1>0. ListenSocket # p /\ ListenSocket \in Sockets /\ p \in Sockets
  BY SocketFacts
<1>1. ASSUME NEW reply, NEW queues, ChildReplies(p, reply, queues),
             queues[ListenSocket] = inbox[ListenSocket],
             IInv', child'[p] # Unforked
      PROVE  inbox'[ListenSocket] = inbox[ListenSocket]
  <2>1. child'[p] = reply.child
    BY <1>1 DEF ChildReplies, IInv, TypeOK
  <2>2. PICK c \in Clients : child'[p].mvAddr \in {OldSocket(c), NewSocket(c)}
    BY <1>1 DEF IInv, ChildIsSound
  <2>3. reply.child.mvAddr # ListenSocket
    BY <2>1, <2>2, SocketFacts
  <2>4. Sends(queues, p, reply.child.mvAddr, reply.out)
    BY <1>1 DEF ChildReplies
  <2>5. QED
    BY <1>1, <2>3, <2>4, SendsToOne
<1>2. CASE ChildReceives(p)
  <2>1. Received(p)[ListenSocket] = inbox[ListenSocket]
    BY <1>0 DEF Received
  <2>2. IInv' /\ child'[p] # Unforked
    BY <1>2, ChildReceivesIsSound
  <2>3. QED
    BY <1>1, <1>2, <2>1, <2>2 DEF ChildReceives
<1>3. CASE ChildTimesOut(p)
  <2>1. IInv' /\ child'[p] # Unforked
    BY <1>3, ChildTimesOutIsSound
  <2>2. QED
    BY <1>1, <1>3, <2>1 DEF ChildTimesOut
<1>4. CASE ChildFillsWindow(p) \/ ChildHasSent(p)
  BY <1>4 DEF ChildFillsWindow, ChildHasSent
<1>5. CASE ChildSends(p)
  <2>1. /\ child[p] # Unforked
        /\ SendtoErr(inbox, p, child[p].mvAddr, Head(child[p].mvOutBuf))
    BY <1>5 DEF ChildSends, ChildAlive
  <2>2. PICK c \in Clients : child[p].mvAddr \in {OldSocket(c), NewSocket(c)}
    BY <2>1 DEF IInv, ChildIsSound
  <2>3. child[p].mvAddr # ListenSocket
    BY <2>2, SocketFacts
  <2>4. \A x : Deliver(inbox, child[p].mvAddr, x)[ListenSocket] = inbox[ListenSocket]
    BY <2>3 DEF Deliver
  <2>5. QED
    BY <2>1, <2>4 DEF SendtoErr
<1>6. CASE ChildExits(p)
  BY <1>0, <1>6 DEF ChildExits, Close
<1>7. QED
  BY <1>2, <1>3, <1>4, <1>5, <1>6 DEF ChildStep

\* No port gets a second child, and no two processes read one socket, however
\* often a CXN or a CXN2 arrives (Server.cpp:136-155).
THEOREM PortsAreNotShared == Spec => ChildrenShareNoPort
<1> DEFINE Step == \A p \in Ports : child[p] # Unforked /\ child'[p] # child[p]
                      => inbox'[ListenSocket] = inbox[ListenSocket]
<1>1. IInv /\ [Next]_vars => [Step]_vars
  <2> SUFFICES ASSUME IInv, Next, NEW p \in Ports,
                      child[p] # Unforked, child'[p] # child[p]
               PROVE  inbox'[ListenSocket] = inbox[ListenSocket]
    OBVIOUS
  <2>1. ~ListenerReceives
    BY ListenerLeavesChildren
  <2>2. ~(Tick \/ NetworkActs \/ Terminated)
    BY DEF Tick, NetworkActs, Terminated, procVars, vars
  <2>3. \A c \in Clients : ~ClientStep(c)
    BY DEF ClientStep, ClientConnects, ClientReceives, ClientTimesOut, ClientReplies,
           ClientExits, procVars
  <2>4. PICK x \in Ports : ChildStep(x)
    BY <2>1, <2>2, <2>3 DEF Next
  <2>5. \E v : child' = [child EXCEPT ![x] = v]
    BY <2>4 DEF ChildStep, ChildReceives, ChildTimesOut, ChildReplies,
       ChildFillsWindow, ChildSends, ChildHasSent, ChildExits, procVars
  <2>6. x = p
    BY <2>5
  <2>7. QED
    BY <2>4, <2>6, ChildrenSendToClients
<1>2. QED
  BY <1>1, SessionIsSound, PTL DEF Spec, ChildrenShareNoPort

=============================================================================
