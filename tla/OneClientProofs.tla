--------------------------- MODULE OneClientProofs ---------------------------
(***************************************************************************)
(* While one client runs and the network delivers in order, every step of  *)
(* the program keeps the invariant of module OneClient, and the client's   *)
(* file is a copy in the making of the remote one: for every file, window  *)
(* size, capacity and number of ports, whatever is dropped, flipped or     *)
(* late.                                                                   *)
(***************************************************************************)
EXTENDS OneClientHandlers

-----------------------------------------------------------------------------
(* Queues in order *)

Ordered(q) == \A s \in Sockets : InOrder(q[s])

LEMMA EmptyIsInOrder == InOrder(<<>>)
<1>1. Len(<<>>) = 0
  BY EmptySeq
<1>2. QED
  BY <1>1 DEF InOrder

\* What is behind the head may follow it.
LEMMA TailIsInOrder ==
    ASSUME NEW S, NEW q \in Seq(S), q # <<>>, InOrder(q)
    PROVE  /\ InOrder(Tail(q))
           /\ Tail(q) \in Seq({e \in S : MayFollow(Head(q), e)})
<1>1. PICK r : r = Tail(q)
  OBVIOUS
<1>2. PICK E : E = {e \in S : MayFollow(Head(q), e)}
  OBVIOUS
<1>3. Len(q) \in Nat /\ Len(q) >= 1
  BY EmptySeq, LenProperties
<1>4. /\ r \in Seq(S) /\ Len(r) = Len(q) - 1 /\ Head(q) = q[1]
      /\ \A i \in 1 .. Len(r) : r[i] = q[i + 1]
  BY <1>1, <1>3, HeadTailProperties
<1>5. ASSUME NEW i \in 1 .. Len(r)
      PROVE  r[i] \in E
  <2>1. i + 1 \in 1 .. Len(q) /\ 1 \in 1 .. Len(q) /\ 1 < i + 1
    BY <1>3, <1>4
  <2>2. MayFollow(q[1], q[i + 1])
    BY <2>1 DEF InOrder
  <2>3. q[i + 1] \in S
    BY <2>1, ElementOfSeq
  <2>4. QED
    BY <1>2, <1>4, <2>2, <2>3
<1>6. r \in Seq(E)
  <2>1. DOMAIN r = 1 .. Len(r) /\ r \in [1 .. Len(r) -> S] /\ Len(r) \in Nat
    BY <1>4, LenProperties
  <2>2. r \in [1 .. Len(r) -> E]
    BY <1>5, <2>1
  <2>3. QED
    BY <2>1, <2>2, SeqDef
<1>7. ASSUME NEW i \in 1 .. Len(r), NEW j \in 1 .. Len(r), i < j
      PROVE  MayFollow(r[i], r[j])
  <2>1. i + 1 \in 1 .. Len(q) /\ j + 1 \in 1 .. Len(q) /\ i + 1 < j + 1
    BY <1>3, <1>4, <1>7
  <2>2. QED
    BY <1>4, <2>1 DEF InOrder
<1>8. InOrder(r)
  BY <1>7 DEF InOrder
<1>9. QED
  BY <1>1, <1>2, <1>6, <1>8

\* Behind all that is there.
LEMMA AppendInOrder ==
    ASSUME NEW S, NEW q \in Seq(S), InOrder(q), NEW e, \A d \in S : MayFollow(d, e)
    PROVE  InOrder(Append(q, e))
<1>1. PICK r : r = Append(q, e)
  OBVIOUS
<1>2. PICK n \in Nat : n = Len(q)
  BY LenProperties
<1>3. PICK T : T = S \union {e}
  OBVIOUS
<1>4. q \in Seq(T) /\ e \in T
  <2>1. q \in [1 .. n -> S]
    BY <1>2, LenProperties
  <2>2. q \in [1 .. n -> T]
    BY <1>3, <2>1
  <2>3. QED
    BY <1>3, <2>2, SeqDef
<1>5. /\ Len(r) = n + 1 /\ r[n + 1] = e
      /\ \A i \in 1 .. n : r[i] = q[i]
  BY <1>1, <1>2, <1>4, AppendProperties
<1>6. ASSUME NEW i \in 1 .. n + 1, NEW j \in 1 .. n + 1, i < j
      PROVE  MayFollow(r[i], r[j])
  <2>1. i \in 1 .. n
    BY <1>6
  <2>2. r[i] = q[i] /\ q[i] \in S
    BY <1>2, <1>5, <2>1, ElementOfSeq
  <2>3. CASE j = n + 1
    BY <1>5, <2>2, <2>3
  <2>4. CASE j # n + 1
    <3>1. j \in 1 .. n
      BY <2>4
    <3>2. QED
      BY <1>2, <1>5, <1>6, <2>1, <3>1 DEF InOrder
  <2>5. QED
    BY <2>3, <2>4
<1>7. InOrder(r)
  BY <1>5, <1>6 DEF InOrder
<1>8. QED
  BY <1>1, <1>7

\* What bits were flipped of may follow whatever the packet might.
LEMMA FlippedMayFollow ==
    ASSUME NEW d, NEW from, NEW pkt, MayFollow(d, Datagram(from, pkt))
    PROVE  MayFollow(d, Datagram(from, Flipped))
  BY DEF MayFollow, Datagram, Flipped

\* Sends puts a packet behind what waits at its receiver's.
LEMMA SendsInOrder ==
    ASSUME NEW R, NEW q, InQueues(q, R), Ordered(q),
           NEW from, NEW to \in Sockets, NEW out, Sends(q, from, to, out),
           \/ out = <<>>
           \/ \E pkt : /\ out = <<pkt>>
                       /\ \A d \in R[to] : MayFollow(d, Datagram(from, pkt))
    PROVE  Ordered(inbox')
<1>1. ASSUME NEW e, \A d \in R[to] : MayFollow(d, e)
      PROVE  Ordered(Deliver(q, to, e))
  <2>1. PICK r : r = Deliver(q, to, e)
    OBVIOUS
  <2>2. q[to] \in Seq(R[to]) /\ InOrder(q[to]) /\ DOMAIN q = Sockets
    BY DEF InQueues, Ordered
  <2>3. InOrder(Append(q[to], e))
    BY <1>1, <2>2, AppendInOrder
  <2>4. r = q \/ r = [q EXCEPT ![to] = Append(q[to], e)]
    BY <2>1 DEF Deliver
  <2>5. ASSUME NEW s \in Sockets
        PROVE  InOrder(r[s])
    BY <2>2, <2>3, <2>4 DEF Ordered
  <2>6. QED
    BY <2>1, <2>5 DEF Ordered
<1>2. CASE out = <<>>
  BY <1>2 DEF Sends
<1>3. CASE out # <<>>
  <2>1. PICK pkt : /\ out = <<pkt>>
                   /\ \A d \in R[to] : MayFollow(d, Datagram(from, pkt))
    BY <1>3
  <2>2. SendtoErr(q, from, to, pkt)
    BY <1>3, <2>1 DEF Sends
  <2>3. \A d \in R[to] : MayFollow(d, Datagram(from, Flipped))
    BY <2>1, FlippedMayFollow
  <2>4. /\ Ordered(Deliver(q, to, Datagram(from, pkt)))
        /\ Ordered(Deliver(q, to, Datagram(from, Flipped)))
    BY <1>1, <2>1, <2>3
  <2>5. QED
    BY <2>2, <2>4 DEF SendtoErr
<1>4. QED
  BY <1>2, <1>3

\* recvfrom leaves what may follow the datagram it took.
LEMMA ReceivedInOrder ==
    ASSUME NEW F, F = [s \in Sockets |-> F[s]], InQueues(inbox, F), Ordered(inbox),
           NEW x \in Sockets, inbox[x] # <<>>
    PROVE  LET d == Head(inbox[x])
               R == [F EXCEPT ![x] = {e \in F[x] : MayFollow(d, e)}]
           IN  InQueues(Received(x), R) /\ Ordered(Received(x)) /\ d \in F[x]
<1>1. PICK d : d = Head(inbox[x])
  OBVIOUS
<1>2. PICK E : E = {e \in F[x] : MayFollow(d, e)}
  OBVIOUS
<1>3. PICK R : R = [F EXCEPT ![x] = E]
  OBVIOUS
<1>4. PICK q : q = Received(x)
  OBVIOUS
<1>5. inbox[x] \in Seq(F[x]) /\ InOrder(inbox[x]) /\ DOMAIN inbox = Sockets
  BY DEF InQueues, Ordered
<1>6. d \in F[x]
  BY <1>1, <1>5, HeadTailProperties
<1>7. InOrder(Tail(inbox[x])) /\ Tail(inbox[x]) \in Seq(E)
  BY <1>1, <1>2, <1>5, TailIsInOrder
<1>8. q = [inbox EXCEPT ![x] = Tail(inbox[x])]
  BY <1>4 DEF Received
<1>9. ASSUME NEW s \in Sockets
      PROVE  q[s] \in Seq(R[s]) /\ InOrder(q[s])
  <2>1. CASE s = x
    BY <1>3, <1>5, <1>7, <1>8, <2>1
  <2>2. CASE s # x
    BY <1>3, <1>5, <1>8, <2>2 DEF InQueues, Ordered
  <2>3. QED
    BY <2>1, <2>2
<1>10. q = [s \in Sockets |-> q[s]]
  BY <1>5, <1>8
<1>11. InQueues(q, R) /\ Ordered(q)
  BY <1>9, <1>10 DEF InQueues, Ordered
<1>12. QED
  BY <1>1, <1>2, <1>3, <1>4, <1>6, <1>11

\* A queue thrown away, and the queues of closed sockets.
LEMMA EmptiedInOrder ==
    ASSUME NEW F, NEW q, InQueues(q, F), Ordered(q), NEW x \in Sockets
    PROVE  Ordered([q EXCEPT ![x] = <<>>])
<1>1. PICK r : r = [q EXCEPT ![x] = <<>>]
  OBVIOUS
<1>2. DOMAIN q = Sockets
  BY DEF InQueues
<1>3. \A s \in Sockets : InOrder(r[s])
  BY <1>1, <1>2, EmptyIsInOrder DEF Ordered
<1>4. QED
  BY <1>1, <1>3 DEF Ordered

LEMMA CloseInOrder ==
    ASSUME Ordered(inbox), NEW closed, Close(closed)
    PROVE  Ordered(inbox')
<1>1. inbox' = [s \in Sockets |-> IF s \in closed THEN <<>> ELSE inbox[s]]
  BY DEF Close
<1>2. QED
  BY <1>1, EmptyIsInOrder DEF Ordered

-----------------------------------------------------------------------------
(* What waits *)

MailMap == [s \in Sockets |-> Post(s) \intersect Expected(s)]

ExpectedMap == [s \in Sockets |-> Expected(s)]

\* In a state that meets both invariants.
LEMMA MailWaitsInOrder ==
    ASSUME IInv, OneClientInv
    PROVE  InQueues(inbox, MailMap) /\ Ordered(inbox)
<1>1. /\ inbox = [s \in Sockets |-> inbox[s]]
      /\ \A s \in Sockets : /\ inbox[s] \in Seq(Post(s)) /\ inbox[s] \in Seq(Expected(s))
                            /\ InOrder(inbox[s])
  BY DEF IInv, TypeOK, MailIsSound, OneClientInv, QueuesAreInOrder
<1>2. ASSUME NEW s \in Sockets
      PROVE  inbox[s] \in Seq(MailMap[s])
  <2>1. PICK q : q = inbox[s]
    OBVIOUS
  <2>2. PICK A : A = Post(s)
    OBVIOUS
  <2>3. PICK B : B = Expected(s)
    OBVIOUS
  <2>4. q \in Seq(A) /\ q \in Seq(B)
    BY <1>1, <2>1, <2>2, <2>3
  <2>5. /\ Len(q) \in Nat /\ q \in [1 .. Len(q) -> A]
        /\ q \in [1 .. Len(q) -> B]
    BY <2>4, LenProperties
  <2>6. q \in [1 .. Len(q) -> A \intersect B]
    BY <2>5
  <2>7. q \in Seq(A \intersect B)
    BY <2>5, <2>6, SeqDef
  <2>8. QED
    BY <2>1, <2>2, <2>3, <2>7 DEF MailMap
<1>3. QED
  BY <1>1, <1>2 DEF InQueues, Ordered

\* A step that leaves R in the queues q and then sends.
LEMMA AnswersInOrder ==
    ASSUME NEW G, G = ExpectedMap', NEW R, NEW q, InQueues(q, R), Ordered(q),
           \A s \in Sockets : R[s] \subseteq G[s], faults \in Nat,
           NEW from, NEW to \in Sockets, NEW out, Sends(q, from, to, out),
           \/ out = <<>>
           \/ \E pkt : /\ out = <<pkt>>
                       /\ Datagram(from, pkt) \in G[to]
                       /\ Datagram(from, Flipped) \in G[to]
                       /\ \A d \in R[to] : MayFollow(d, Datagram(from, pkt))
    PROVE  QueuesAreInOrder'
<1>1. InQueues(q, G)
  BY QueuesWiden
<1>2. InQueues(inbox', G)
  <2>1. \/ out = <<>>
        \/ \E pkt : /\ out = <<pkt>>
                    /\ Datagram(from, pkt) \in G[to]
                    /\ Datagram(from, Flipped) \in G[to]
    OBVIOUS
  <2>2. QED
    BY <1>1, <2>1, SendsKeeps
<1>3. Ordered(inbox')
  <2>1. \/ out = <<>>
        \/ \E pkt : /\ out = <<pkt>>
                    /\ \A d \in R[to] : MayFollow(d, Datagram(from, pkt))
    OBVIOUS
  <2>2. QED
    BY <2>1, SendsInOrder
<1>4. \A s \in Sockets : G[s] = Expected(s)'
  BY DEF ExpectedMap
<1>5. QED
  BY <1>2, <1>3, <1>4 DEF QueuesAreInOrder, InQueues, Ordered

-----------------------------------------------------------------------------
(* Steps that leave every process as it is *)

LEMMA ExpectedStays ==
    ASSUME UNCHANGED <<client, child>>
    PROVE  ExpectedMap' = ExpectedMap
<1>1. Forked' = Forked
  BY DEF Forked
<1>2. ASSUME NEW s \in Sockets
      PROVE  Expected(s)' = Expected(s)
  <2>1. \A d : ToRead(s, d)' <=> ToRead(s, d)
    BY <1>1 DEF ToRead, ToCome, ChildWrote
  <2>2. \A d : ToServe(s, d)' <=> ToServe(s, d)
    BY <1>1 DEF ToServe
  <2>3. QED
    BY <2>1, <2>2 DEF Expected, Datagrams, ToClient, ToServer
<1>3. QED
  BY <1>2 DEF ExpectedMap

LEMMA ProcessesStayInOrder ==
    ASSUME OneClientInv, UNCHANGED procVars, NEW F, F = MailMap,
           InQueues(inbox', F), Ordered(inbox')
    PROVE  OneClientInv'
<1>1. UNCHANGED <<client, listener, child>>
  BY DEF procVars
<1>2. PICK G : G = ExpectedMap
  OBVIOUS
<1>3. G = ExpectedMap'
  BY <1>1, <1>2, ExpectedStays
<1>4. \A s \in Sockets : F[s] \subseteq G[s]
  BY <1>2 DEF MailMap, ExpectedMap
<1>5. InQueues(inbox', G)
  BY <1>4, QueuesWiden
<1>6. \A s \in Sockets : G[s] = Expected(s)'
  BY <1>3 DEF ExpectedMap
<1>7. QueuesAreInOrder'
  BY <1>5, <1>6 DEF QueuesAreInOrder, InQueues, Ordered
<1>8. Forked' = Forked
  BY <1>1 DEF Forked
<1>9. OneChild'
  BY <1>1, <1>8 DEF OneClientInv, OneChild
<1>10. \A c \in Clients : ClientIsServed(client[c])'
  BY <1>1, <1>8 DEF OneClientInv, ClientIsServed
<1>11. \A c \in Clients : \A p \in Forked' : ChildServes(child[p], client[c])'
  BY <1>1, <1>8 DEF OneClientInv
<1>12. QED
  BY <1>7, <1>9, <1>10, <1>11 DEF OneClientInv

\* A client's exit, and a child's.
LEMMA ExitsInOrder ==
    ASSUME IInv, OneClientInv, NEW closed, Close(closed), UNCHANGED procVars
    PROVE  OneClientInv'
<1>1. PICK F : F = MailMap
  OBVIOUS
<1>2. InQueues(inbox, F) /\ Ordered(inbox)
  BY <1>1, MailWaitsInOrder
<1>3. InQueues(inbox', F) /\ Ordered(inbox')
  BY <1>2, CloseKeeps, CloseInOrder
<1>4. QED
  BY <1>1, <1>3, ProcessesStayInOrder

\* Time passes, datagrams are late, or nothing happens at all.
LEMMA WaitsInOrder ==
    ASSUME IInv, OneClientInv, UNCHANGED procVars, UNCHANGED inbox
    PROVE  OneClientInv'
<1>1. PICK F : F = MailMap
  OBVIOUS
<1>2. InQueues(inbox, F) /\ Ordered(inbox)
  BY <1>1, MailWaitsInOrder
<1>3. InQueues(inbox', F) /\ Ordered(inbox')
  BY <1>2 DEF InQueues, Ordered
<1>4. QED
  BY <1>1, <1>3, ProcessesStayInOrder

\* A loopback only delays.
LEMMA NetworkKeepsOrder ==
    ASSUME OneClientInOrder, NetworkActs
    PROVE  UNCHANGED procVars /\ UNCHANGED inbox
<1>1. ~Duplicate /\ ~Reorder
  BY DEF OneClientInOrder, Duplicate, Reorder, Fault
<1>2. QED
  BY <1>1 DEF NetworkActs, NetworkStep, Late

-----------------------------------------------------------------------------
(* rcopy's steps *)

\* A datagram of a child's in the mail shows that the child was forked, and
\* that one is the only one.
LEMMA SenderIsTheChild ==
    ASSUME OneClientInv, NEW s \in ClientSockets, NEW d \in Expected(s),
           d.from \in Ports
    PROVE  /\ d.from \in Forked /\ Forked = {d.from}
           /\ ChildWrote(child[d.from], d.pkt)
<1>1. ChildWrote(child[d.from], d.pkt)
  BY DEF Expected, ToRead
<1>2. d.from \in Forked
  BY <1>1 DEF ChildWrote, Forked
<1>3. QED
  BY <1>1, <1>2 DEF OneClientInv, OneChild

\* Until a client has been told a port there is no child.
LEMMA UntoldHasNoChild ==
    ASSUME IInv, OneClientInOrder, NEW c \in Clients, ~Told(c)
    PROVE  Forked = {}
<1>1. \A p \in Ports : child[p] = Unforked
  BY DEF IInv, ChildIsSound, OneClientInOrder
<1>2. QED
  BY <1>1 DEF Forked

\* The steps of client c: it becomes t, R is left in the queues, and it sends
\* from socket from.
LEMMA ClientMovesInOrder ==
    ASSUME IInv, IInv', OneClientInv, OneClientInOrder, NEW c \in Clients, NEW t,
           client' = [client EXCEPT ![c] = t], UNCHANGED <<listener, child>>,
           t.mvSequence >= client[c].mvSequence,
           client[c].i >= 1 => t.i >= 1,
           ClientIsServed(t),
           \A p \in Forked : child[p].mvState = "INIT" =>
                                t.i <= child[p].mvSequence + 1,
           NEW R, \A s \in Sockets : R[s] \subseteq MailMap[s],
           \A d \in R[t.mvSocket] : ToCome(t, d),
           NEW q, InQueues(q, R), Ordered(q),
           NEW from \in {OldSocket(c), NewSocket(c)}, NEW out,
           Sends(q, from, t.mvAddr, out),
           \/ out = <<>>
           \/ \E pkt : out = <<pkt>> /\ Sendable(c, t, pkt) /\ MaySend(t, pkt)
    PROVE  OneClientInv'
<1>1. client'[c] = t /\ \A e \in Clients : e = c
  BY DEF IInv, TypeOK, OneClientInOrder
<1>2. /\ t \in ClientRecord(c) /\ client[c] \in ClientRecord(c)
      /\ t.mvSequence \in Nat /\ client[c].mvSequence \in Nat
      /\ t.i \in Int /\ client[c].i \in Int
      /\ t.mvAddr \in {ListenSocket} \union Ports
  BY <1>1 DEF IInv, TypeOK, ClientRecord
<1>3. Forked' = Forked
  BY DEF Forked
<1>4. PICK G : G = ExpectedMap'
  OBVIOUS
<1>5. \A s \in Sockets : G[s] = Expected(s)'
  BY <1>4 DEF ExpectedMap
<1>6. /\ from \in Sockets /\ from \notin {ListenSocket} \union Ports
      /\ t.mvAddr \in Sockets /\ t.mvAddr \notin ClientSockets
  BY <1>2, SocketFacts
<1>7. ~Told(c)' <=> t.i < 1
  BY <1>1, <1>2 DEF IInv, ClientIsSound
<1>8. t.i < 1 => Forked = {}
  <2> SUFFICES ASSUME t.i < 1
               PROVE  Forked = {}
    OBVIOUS
  <2>1. client[c].i < 1
    BY <1>2
  <2>2. ~Told(c)
    BY <1>2, <2>1 DEF IInv, ClientIsSound
  <2>3. QED
    BY <2>2, UntoldHasNoChild
<1>9. ASSUME NEW s \in Sockets, NEW d \in R[s]
      PROVE  d \in G[s]
  <2>1. d \in Expected(s) /\ d \in Datagrams(s)
    BY DEF MailMap, Expected
  <2>2. CASE s \in ClientSockets
    <3>1. ToRead(s, d)
      BY <2>1, <2>2 DEF Expected
    <3>2. ASSUME NEW e \in Clients, client'[e].mvSocket = s
          PROVE  ToCome(client'[e], d)
      BY <1>1, <3>2
    <3>3. ToRead(s, d)'
      BY <1>3, <3>1, <3>2 DEF ToRead
    <3>4. QED
      BY <1>5, <2>1, <2>2, <3>3 DEF Expected, Datagrams, ToClient, ToServer
  <2>3. CASE s \notin ClientSockets
    <3>1. ToServe(s, d)
      BY <2>1, <2>3 DEF Expected
    <3>2. d.pkt.type = "REJ" => d.pkt.sequence <= t.mvSequence
      <4>1. d.pkt.sequence \in Nat
        BY <2>1, <2>3 DEF Datagrams, ToServer
      <4>2. d.pkt.type = "REJ" => d.pkt.sequence <= client[c].mvSequence
        BY <3>1 DEF ToServe
      <4>3. QED
        BY <1>2, <4>1, <4>2
    <3>3. ToServe(s, d)'
      BY <1>1, <1>3, <3>1, <3>2 DEF ToServe
    <3>4. QED
      BY <1>5, <2>1, <2>3, <3>3 DEF Expected, Datagrams, ToClient, ToServer
  <2>4. QED
    BY <2>2, <2>3
<1>10. ASSUME NEW pkt, Sendable(c, t, pkt), MaySend(t, pkt)
       PROVE  /\ Datagram(from, pkt) \in G[t.mvAddr]
              /\ Datagram(from, Flipped) \in G[t.mvAddr]
              /\ \A d \in R[t.mvAddr] : MayFollow(d, Datagram(from, pkt))
  <2>1. /\ Datagram(from, pkt).from = from /\ Datagram(from, pkt).pkt = pkt
        /\ Datagram(from, Flipped).pkt = Flipped
    BY DEF Datagram
  <2>2. /\ pkt \in ToServer /\ Flipped \in ToServer /\ Flipped.type = "FLIPPED"
    BY <1>10, FlippedFacts DEF Sendable
  <2>3. /\ Datagram(from, pkt) \in Datagrams(t.mvAddr)
        /\ Datagram(from, Flipped) \in Datagrams(t.mvAddr)
    BY <1>6, <2>2 DEF Datagrams, Datagram
  <2>4. t.mvAddr = ListenSocket => pkt.type \in {"CXN", "CXN2"}
    <3>1. t.mvAddr = ListenSocket => ~(t.i >= 2)
      BY SocketFacts DEF ClientIsServed
    <3>2. QED
      BY <1>2, <1>10, <3>1 DEF MaySend
  <2>5. pkt.type = "CXN" => Forked = {} /\ t.i = 0
    BY <1>8, <1>10 DEF MaySend
  <2>6. ToServe(t.mvAddr, Datagram(from, pkt))'
    BY <1>1, <1>3, <1>10, <2>1, <2>4, <2>5 DEF ToServe, MaySend
  <2>7. ToServe(t.mvAddr, Datagram(from, Flipped))'
    BY <2>1, <2>2 DEF ToServe
  <2>8. Datagram(from, pkt) \in G[t.mvAddr] /\ Datagram(from, Flipped) \in G[t.mvAddr]
    BY <1>5, <1>6, <2>3, <2>6, <2>7 DEF Expected, Datagrams, ToClient, ToServer
  <2>9. ASSUME NEW d \in R[t.mvAddr]
        PROVE  MayFollow(d, Datagram(from, pkt))
    <3>1. d \in Post(t.mvAddr)
      BY <1>6 DEF MailMap
    <3>2. SentByClient(c, t.mvAddr, d)
      BY <1>1, <1>6, <3>1 DEF Post
    <3>3. d.from \notin Ports
      BY <3>2, SocketFacts DEF SentByClient
    <3>4. pkt.type = "CXN" => d.pkt.type # "CXN2"
      <4> SUFFICES ASSUME pkt.type = "CXN"
                   PROVE  d.pkt.type # "CXN2"
        OBVIOUS
      <4>1. ~Told(c)
        BY <1>2, <2>5 DEF IInv, ClientIsSound
      <4>2. QED
        BY <3>2, <4>1 DEF SentByClient
    <3>5. QED
      BY <2>1, <3>3, <3>4 DEF MayFollow
  <2>10. QED
    BY <2>8, <2>9
<1>11. QueuesAreInOrder'
  <2>1. \/ out = <<>>
        \/ \E pkt : /\ out = <<pkt>>
                    /\ Datagram(from, pkt) \in G[t.mvAddr]
                    /\ Datagram(from, Flipped) \in G[t.mvAddr]
                    /\ \A d \in R[t.mvAddr] : MayFollow(d, Datagram(from, pkt))
    BY <1>10
  <2>2. faults \in Nat /\ \A s \in Sockets : R[s] \subseteq G[s]
    BY <1>9 DEF IInv, TypeOK
  <2>3. QED
    BY <1>4, <1>6, <2>1, <2>2, AnswersInOrder
<1>12. OneChild'
  BY <1>3 DEF OneClientInv, OneChild
<1>13. \A e \in Clients : ClientIsServed(client[e])'
  BY <1>1, <1>3 DEF ClientIsServed
<1>14. ASSUME NEW e \in Clients, NEW p \in Forked'
       PROVE  ChildServes(child[p], client[e])'
  <2>1. p \in Forked /\ p \in Ports /\ child[p] # Unforked
    BY <1>3 DEF Forked
  <2>2. ChildServes(child[p], client[c])
    BY <2>1 DEF OneClientInv
  <2>3. ChildReady(p, child[p])
    BY <2>1, ChildFacts
  <2>4. PICK s : s = child[p]
    OBVIOUS
  <2>5. PICK n \in Nat : n = client[c].mvSequence
    BY <1>2
  <2>6. PICK m \in Nat : m = t.mvSequence
    BY <1>2
  <2>7. FileBelow4GiB /\ Transferring(s) => TrueWindow(s, m)
    <3> SUFFICES ASSUME FileBelow4GiB, Transferring(s)
                 PROVE  TrueWindow(s, m)
      OBVIOUS
    <3>1. TrueWindow(s, n) /\ ChildReady(p, s) /\ n <= m
      BY <2>2, <2>3, <2>4, <2>5, <2>6 DEF ChildServes
    <3>2. QED
      BY <3>1, TrueWindowGrows
  <2>8. s.mvState = "INIT" => HasTaken(s) /\ t.i <= s.mvSequence + 1
    BY <2>1, <2>2, <2>4 DEF ChildServes
  <2>9. ChildServes(s, t)
    BY <2>6, <2>7, <2>8 DEF ChildServes
  <2>10. child'[p] = s /\ client'[e] = t
    BY <1>1, <2>4
  <2>11. QED
    BY <2>9, <2>10 DEF ChildServes
<1>15. QED
  BY <1>11, <1>12, <1>13, <1>14 DEF OneClientInv

\* rcopy's first packet, the CXN: there is no child yet.
LEMMA ConnectsInOrder ==
    ASSUME IInv, IInv', OneClientInv, OneClientInOrder, NEW c \in Clients,
           ClientConnects(c)
    PROVE  OneClientInv'
<1>0. /\ ClientIsSound(c) /\ ClientIsServed(client[c])
      /\ client[c] \in ClientRecord(c) /\ client[c].i = -1
  BY DEF IInv, TypeOK, OneClientInv, ClientConnects
<1>1. PICK t : t = [client[c] EXCEPT !.i = 0]
  OBVIOUS
<1>2. /\ t \in ClientRecord(c) /\ t.i = 0 /\ t.mvState = client[c].mvState
      /\ t.mvSequence = client[c].mvSequence /\ t.mvSocket = client[c].mvSocket
      /\ t.mvAddr = client[c].mvAddr /\ t.mvTo = client[c].mvTo
      /\ t.mvSequence \in Nat
  BY <1>0, <1>1 DEF ClientRecord
<1>3. ~Told(c) /\ Forked = {}
  BY <1>0, UntoldHasNoChild DEF ClientIsSound
<1>4. t.mvAddr = ListenSocket
  BY <1>0, <1>2, <1>3 DEF ClientIsSound
<1>5. PICK pkt : pkt = InitPacket(0, c)
  OBVIOUS
<1>6. /\ client' = [client EXCEPT ![c] = t] /\ UNCHANGED <<listener, child>>
      /\ SendtoErr(inbox, OldSocket(c), t.mvAddr, pkt)
  BY <1>1, <1>4, <1>5 DEF ClientConnects
<1>7. Sends(inbox, OldSocket(c), t.mvAddr, <<pkt>>)
  BY <1>6 DEF Sends
<1>8. Sendable(c, t, pkt) /\ MaySend(t, pkt)
  BY <1>2, <1>5, InitPacketFacts, OfInitFacts DEF Sendable, MaySend
<1>9. ClientIsServed(t)
  BY <1>0, <1>2 DEF ClientIsServed, HasPrefix, KnowsTheEnd
<1>10. PICK R : R = MailMap
  OBVIOUS
<1>11. InQueues(inbox, R) /\ Ordered(inbox)
  BY <1>10, MailWaitsInOrder
<1>12. ASSUME NEW d \in R[t.mvSocket]
       PROVE  ToCome(t, d)
  <2>1. t.mvSocket \in ClientSockets /\ t.mvSocket \in Sockets
    BY <1>2, SocketFacts DEF ClientRecord
  <2>2. ToRead(t.mvSocket, d)
    BY <1>10, <2>1 DEF MailMap, Expected
  <2>3. ToCome(client[c], d)
    BY <1>2, <2>2 DEF ToRead
  <2>4. QED
    BY <1>2, <2>3 DEF ToCome
<1>13. /\ t.mvSequence >= client[c].mvSequence
       /\ client[c].i >= 1 => t.i >= 1
       /\ \A p \in Forked : child[p].mvState = "INIT" => t.i <= child[p].mvSequence + 1
       /\ \A s \in Sockets : R[s] \subseteq MailMap[s]
  BY <1>0, <1>2, <1>3, <1>10
<1>14. PICK out : out = <<pkt>>
  OBVIOUS
<1>15. /\ Sends(inbox, OldSocket(c), t.mvAddr, out)
       /\ \/ out = <<>>
          \/ \E m : out = <<m>> /\ Sendable(c, t, m) /\ MaySend(t, m)
  BY <1>7, <1>8, <1>14
<1>16. QED
  BY <1>6, <1>9, <1>11, <1>12, <1>13, <1>15, ClientMovesInOrder

\* A handler has made reply of the client's state s and left R in the queues.
LEMMA ClientRepliesInOrder ==
    ASSUME IInv, IInv', OneClientInv, OneClientInOrder, NEW c \in Clients,
           NEW s, s.mvSocket = client[c].mvSocket, s.i = client[c].i,
           s.mvSequence = client[c].mvSequence,
           NEW reply, ClientOutcome(c, s, reply), Replies(reply),
           ClientIsServed(reply.client),
           \A p \in Forked : child[p].mvState = "INIT" =>
                                reply.client.i <= child[p].mvSequence + 1,
           NEW R, \A x \in Sockets : R[x] \subseteq MailMap[x],
           \A d \in R[reply.client.mvSocket] : ToCome(reply.client, d),
           NEW queues, InQueues(queues, R), Ordered(queues),
           ClientReplies(c, reply, queues)
    PROVE  OneClientInv'
<1>1. PICK t : t = reply.client
  OBVIOUS
<1>2. PICK from : from = client[c].mvSocket
  OBVIOUS
<1>3. PICK to : to = t.mvSocket
  OBVIOUS
<1>4. PICK q : q = IF from = to THEN queues ELSE [queues EXCEPT ![from] = <<>>]
  OBVIOUS
<1>5. PICK out : out = reply.out
  OBVIOUS
<1>6. /\ client' = [client EXCEPT ![c] = t] /\ UNCHANGED <<listener, child>>
      /\ Sends(q, to, t.mvAddr, out)
  BY <1>1, <1>2, <1>3, <1>4, <1>5 DEF ClientReplies
<1>7. /\ to \in {OldSocket(c), NewSocket(c)}
      /\ from \in Sockets
  <2>1. t \in ClientRecord(c) /\ client[c] \in ClientRecord(c)
    BY <1>1 DEF ClientOutcome, IInv, TypeOK
  <2>2. from \in {OldSocket(c), NewSocket(c)} /\ to \in {OldSocket(c), NewSocket(c)}
    BY <1>2, <1>3, <2>1 DEF ClientRecord
  <2>3. QED
    BY <2>2, SocketFacts
<1>8. InQueues(q, R) /\ Ordered(q)
  <2>1. PICK r : r = [queues EXCEPT ![from] = <<>>]
    OBVIOUS
  <2>2. InQueues(r, R) /\ Ordered(r)
    BY <1>7, <2>1, EmptiedKeeps, EmptiedInOrder
  <2>3. QED
    BY <1>4, <2>1, <2>2
<1>9. /\ t.mvSequence >= client[c].mvSequence
      /\ client[c].i >= 1 => t.i >= 1
  BY <1>1 DEF ClientOutcome
<1>10. \/ out = <<>>
       \/ \E pkt : out = <<pkt>> /\ Sendable(c, t, pkt) /\ MaySend(t, pkt)
  <2> SUFFICES ASSUME out # <<>>
               PROVE  \E pkt : out = <<pkt>> /\ Sendable(c, t, pkt) /\ MaySend(t, pkt)
    OBVIOUS
  <2>1. PICK pkt : out = <<pkt>> /\ Sendable(c, t, pkt)
    BY <1>1, <1>5 DEF ClientOutcome
  <2>2. PICK m : out = <<m>> /\ MaySend(t, m)
    BY <1>1, <1>5 DEF Replies
  <2>3. pkt = m
    BY <2>1, <2>2
  <2>4. QED
    BY <2>1, <2>2, <2>3
<1>11. \A d \in R[t.mvSocket] : ToCome(t, d)
  BY <1>1
<1>12. ClientIsServed(t)
  BY <1>1
<1>13. \A p \in Forked : child[p].mvState = "INIT" => t.i <= child[p].mvSequence + 1
  BY <1>1
<1>14. QED
  BY <1>6, <1>7, <1>8, <1>9, <1>10, <1>11, <1>12, <1>13, ClientMovesInOrder

\* What a round of the client's may do to its file as it goes from state v to
\* state t: nothing, or append the next block and be done with the last one.
CopyGrows(v, t) ==
    \/ t.mvTo = v.mvTo /\ t.mvState # "DONE"
    \/ /\ Len(v.mvTo) <= LastBlock
       /\ t.mvTo = Append(v.mvTo, Len(v.mvTo))
       /\ t.mvRetries > 0
       /\ t.mvState = IF Len(v.mvTo) = LastBlock THEN "DONE" ELSE "RECV_PACKETS"

\* State s of a client that has counted a timeout or read a datagram.
SameCopy(v, s) ==
    /\ s.mvState = v.mvState /\ s.mvSequence = v.mvSequence /\ s.mvTo = v.mvTo
    /\ s.i = v.i /\ s.mvSocket = v.mvSocket

LEMMA TimeoutKeepsCopy ==
    ASSUME NEW c, NEW v \in ClientRecord(c)
    PROVE  SameCopy(v, ClientTimedOut(v)) /\ ClientTimedOut(v).mvAddr = v.mvAddr
<1>1. PICK s : s = ClientTimedOut(v)
  OBVIOUS
<1>2. s = [v EXCEPT !.mvRetries = @ - 1]
  BY <1>1 DEF ClientTimedOut
<1>3. SameCopy(v, s) /\ s.mvAddr = v.mvAddr
  BY <1>2 DEF SameCopy, ClientRecord
<1>4. QED
  BY <1>1, <1>3

LEMMA DatagramKeepsCopy ==
    ASSUME NEW c, NEW v \in ClientRecord(c), NEW d
    PROVE  LET s == ClientReceived(v, d)
           IN  SameCopy(v, s) /\ s.mvAddr = d.from /\ s.mvRetries >= 1
<1>1. PICK s : s = ClientReceived(v, d)
  OBVIOUS
<1>2. PICK n : n = IF Intact(d.pkt) THEN PKT_TRNSMAX ELSE PKT_TRNSMAX - 1
  OBVIOUS
<1>3. n >= 1
  BY <1>2, RetriesAssumption
<1>4. s = [v EXCEPT !.mvAddr = d.from, !.mvRetries = n]
  BY <1>1, <1>2 DEF ClientReceived
<1>5. SameCopy(v, s) /\ s.mvAddr = d.from /\ s.mvRetries = n
  BY <1>4 DEF SameCopy, ClientRecord
<1>6. QED
  BY <1>1, <1>3, <1>5

\* A client that talks to a port from packet 2 on is served as it was.
LEMMA SameCopyIsServed ==
    ASSUME NEW v, NEW s, SameCopy(v, s), ClientIsServed(v),
           v.i >= 2 => s.mvAddr \in Ports
    PROVE  ClientIsServed(s)
  BY DEF SameCopy, ClientIsServed, HasPrefix, KnowsTheEnd

\* After a timeout or a bad checksum the client is where it was.
LEMMA FailureIsServed ==
    ASSUME NEW c \in Clients, NEW s, ClientReady(c, s), ClientIsServed(s)
    PROVE  LET t == ClientFails(c, s).client
           IN  ClientIsServed(t) /\ CopyGrows(s, t)
<1>1. PICK reply : reply = ClientFails(c, s)
  OBVIOUS
<1>2. PICK t : t = reply.client
  OBVIOUS
<1>3. /\ t.mvTo = s.mvTo /\ t.mvSequence = s.mvSequence
      /\ t.i = s.i /\ t.mvAddr = s.mvAddr
      /\ \/ t = s
         \/ /\ s.mvState = "INIT"
            /\ t.mvState \in {"INIT", "RECV_PACKETS", "ERROR"}
  BY <1>1, <1>2, ClientFailsReplies
<1>4. s.mvState \in {"INIT", "RECV_PACKETS"} /\ (s.mvState = "INIT" => s.mvSequence = 0)
  BY DEF ClientReady
<1>5. t.mvState # "DONE"
  BY <1>3, <1>4
<1>6. FileBelow4GiB => HasPrefix(t) /\ KnowsTheEnd(t)
  BY <1>3, <1>4, FileAssumption DEF ClientIsServed, HasPrefix, KnowsTheEnd
<1>7. ClientIsServed(t)
  BY <1>3, <1>6 DEF ClientIsServed
<1>8. CopyGrows(s, t)
  BY <1>3, <1>5 DEF CopyGrows
<1>9. QED
  BY <1>1, <1>2, <1>7, <1>8

\* A packet of the child's while the client receives the file: it is the next
\* block, or an answer of the handshake before the first block, which is ahead
\* of it and not written.
LEMMA BlockIsServed ==
    ASSUME OneClientInv, NEW c \in Clients,
           NEW s, ClientReady(c, s), s.mvState = "RECV_PACKETS", s.mvRetries >= 1,
           ClientIsServed(s),
           NEW x \in ClientSockets, NEW d \in Expected(x), d.pkt \in ToClient,
           d.from \in Ports, s.mvAddr = d.from, Intact(d.pkt), ToCome(s, d),
           d.pkt.type \in {"RR", "REJ"} => d.pkt.sequence >= 1
    PROVE  LET t == RecvPackets(s, d.pkt).client
           IN  /\ ClientIsServed(t)
               /\ FileBelow4GiB => CopyGrows(s, t)
               /\ t.mvSequence >= 1 => s.mvSequence >= 1 \/ d.pkt.type = "DAT"
<1>1. PICK pkt : pkt = d.pkt
  OBVIOUS
<1>2. PICK t : t = RecvPackets(s, pkt).client
  OBVIOUS
<1>3. /\ s \in ClientRecord(c) /\ s.mvSequence \in Nat /\ pkt.sequence \in Nat
      /\ s.mvRetries > 0
  BY <1>1 DEF ClientReady, ClientRecord, ToClient
<1>4. pkt.type \in {"RR", "REJ", "DAT"}
  BY <1>1 DEF ToClient, Intact
<1>5. d.from \in Forked /\ ChildWrote(child[d.from], pkt)
  BY <1>1, SenderIsTheChild
<1>6. CASE pkt.type \in {"RR", "REJ"}
  <2>1. s.mvSequence = 0 /\ pkt.sequence >= 1
    BY <1>1, <1>3, <1>6 DEF ToCome
  <2>2. t = s
    BY <1>1, <1>2, <1>3, <2>1, RecvPacketsReplies
  <2>3. CopyGrows(s, t)
    BY <2>2 DEF CopyGrows
  <2>4. QED
    BY <1>1, <1>2, <2>1, <2>2, <2>3
<1>7. CASE pkt.type = "DAT"
  <2>1. child[d.from].mvState # "INIT"
    BY <1>5, <1>7 DEF ChildWrote
  <2>2. t.i = s.i /\ t.mvAddr = s.mvAddr
    BY <1>2, <1>3, RecvPacketsOnCore
  <2>3. ASSUME FileBelow4GiB
        PROVE  HasPrefix(t) /\ KnowsTheEnd(t) /\ CopyGrows(s, t)
    <3>1. pkt = datpkt(pkt.sequence, pkt.sequence)
      BY <1>5, <1>7, <2>3 DEF ChildWrote
    <3>2. PICK n \in Nat : n = pkt.sequence
      BY <1>3
    <3>3. t = RecvPackets(s, datpkt(n, n)).client
      BY <1>2, <3>1, <3>2
    <3>4. HasPrefix(s) /\ KnowsTheEnd(s)
      BY <2>3 DEF ClientIsServed
    <3>5. HasPrefix(t) /\ KnowsTheEnd(t) /\ Advances(s, t) /\ t.mvRetries > 0
      BY <1>3, <3>3, <3>4, BlockReceived
    <3>6. QED
      BY <3>5 DEF Advances, CopyGrows
  <2>4. ClientIsServed(t)
    BY <1>5, <2>1, <2>2, <2>3 DEF ClientIsServed
  <2>5. QED
    BY <1>1, <1>2, <1>7, <2>3, <2>4
<1>8. QED
  BY <1>4, <1>6, <1>7

\* A child in init waits for a packet numbered 1 or higher.
LEMMA ChildInInitWaits ==
    ASSUME IInv, NEW p \in Forked
    PROVE  /\ p \in Ports /\ child[p] # Unforked
           /\ child[p].mvSequence \in Nat
           /\ child[p].mvState = "INIT" => child[p].mvSequence >= 1
<1>1. p \in Ports /\ child[p] # Unforked
  BY DEF Forked
<1>2. ChildReady(p, child[p])
  BY <1>1, ChildFacts
<1>3. QED
  BY <1>1, <1>2 DEF ChildReady, ChildRecord, WellFormed

\* A packet while the client is in init, from the server's loop or its child: it
\* confirms no packet that the child could not have answered.
LEMMA InitIsServed ==
    ASSUME IInv, OneClientInv, NEW c \in Clients,
           NEW s, ClientReady(c, s), s.mvState = "INIT", s.i = client[c].i,
           ClientIsServed(s), NEW x \in ClientSockets, NEW d \in Expected(x),
           Receivable(s, d.pkt), Intact(d.pkt), s.mvAddr = d.from,
           d.from \in Ports \/ (d.from = ListenSocket /\ d.pkt \in Answers)
    PROVE  LET t == ClientInit(s, d.pkt, NewSocket(c), c).client
           IN  /\ ClientIsServed(t) /\ CopyGrows(s, t) /\ t.mvSequence = 0
               /\ \A p \in Forked : child[p].mvState = "INIT" =>
                                       t.i <= child[p].mvSequence + 1
               /\ t.i >= 2 /\ d.from \notin Ports =>
                     s.i >= 2 \/ t.mvSocket = NewSocket(c)
               /\ t.mvSocket \in {s.mvSocket, NewSocket(c)}
<1>1. PICK pkt : pkt = d.pkt
  OBVIOUS
<1>2. PICK reply : reply = ClientInit(s, pkt, NewSocket(c), c)
  OBVIOUS
<1>3. PICK t : t = reply.client
  OBVIOUS
<1>4. Receivable(s, pkt)
  BY <1>1
<1>5. /\ t.mvTo = s.mvTo /\ t.mvSequence = 0
      /\ t.mvState \in {"INIT", "RECV_PACKETS"}
      /\ \/ t.i <= s.i
         \/ /\ t.i = s.i + 1
            /\ pkt.type = "RR" => pkt.sequence = s.i
            /\ pkt.type = "REJ" => pkt.sequence > s.i
      /\ \/ /\ t.mvSocket = s.mvSocket /\ t.mvAddr = s.mvAddr
            /\ ~(pkt.type = "RR" /\ pkt.sequence = 1 /\ s.i = 1)
         \/ /\ t.mvSocket = NewSocket(c) /\ t.mvAddr \in Ports
            /\ pkt.type = "RR" /\ pkt.sequence = 1 /\ s.i = 1
  BY <1>2, <1>3, <1>4, ClientInitReplies
<1>6. /\ s.mvSequence = 0 /\ s.i \in Nat /\ pkt.sequence \in Nat
      /\ pkt.type \in {"RR", "REJ", "DAT"} /\ t.i \in Int
  <2>1. ClientOutcome(c, s, reply)
    BY <1>2, <1>4, ClientInitIsSound
  <2>2. t.i \in Int
    BY <1>3, <2>1 DEF ClientOutcome, ClientRecord
  <2>3. QED
    BY <1>1, <2>2 DEF ClientReady, ClientRecord, Receivable, ToClient, Intact
<1>7. d.from \in Ports => /\ Forked = {d.from} /\ d.from \in Forked
                          /\ ChildWrote(child[d.from], pkt)
  BY <1>1, SenderIsTheChild
<1>8. d.from \notin Ports => /\ d.from = ListenSocket
                             /\ pkt.type = "RR" /\ pkt.sequence \in {0, 1}
  BY <1>1, AnswerFacts
<1>9. t.i >= 2 => Forked # {} /\ t.mvAddr \in Ports
  <2> SUFFICES ASSUME t.i >= 2
               PROVE  Forked # {} /\ t.mvAddr \in Ports
    OBVIOUS
  <2>1. CASE s.i >= 2
    BY <1>5, <2>1 DEF ClientIsServed
  <2>2. CASE s.i < 2
    <3>1. s.i = 1 /\ t.i = 2
      BY <1>5, <1>6, <2>2
    <3>2. CASE d.from \in Ports
      BY <1>5, <1>7, <3>2
    <3>3. CASE d.from \notin Ports
      <4>1. pkt.type = "RR" /\ pkt.sequence = 1
        BY <1>5, <1>6, <1>8, <3>1, <3>3
      <4>2. ToRead(x, d)
        BY DEF Expected
      <4>3. Forked # {}
        BY <1>1, <1>8, <3>3, <4>1, <4>2 DEF ToRead
      <4>4. QED
        BY <1>5, <3>1, <4>1, <4>3
    <3>4. QED
      BY <3>2, <3>3
  <2>3. QED
    BY <1>6, <2>1, <2>2
<1>10. ClientIsServed(t)
  <2>1. FileBelow4GiB => HasPrefix(t) /\ KnowsTheEnd(t)
    BY <1>5, <1>6, FileAssumption DEF ClientIsServed, HasPrefix, KnowsTheEnd
  <2>2. QED
    BY <1>5, <1>9, <2>1 DEF ClientIsServed
<1>11. CopyGrows(s, t)
  BY <1>5 DEF CopyGrows
<1>12. ASSUME NEW p \in Forked, child[p].mvState = "INIT"
       PROVE  t.i <= child[p].mvSequence + 1
  <2>1. child[p].mvSequence \in Nat /\ child[p].mvSequence >= 1
    BY <1>12, ChildInInitWaits
  <2>2. CASE t.i <= s.i
    <3>1. client[c].i <= child[p].mvSequence + 1
      BY <1>12 DEF OneClientInv, ChildServes
    <3>2. QED
      BY <1>6, <2>1, <2>2, <3>1
  <2>3. CASE /\ t.i = s.i + 1
             /\ pkt.type = "RR" => pkt.sequence = s.i
             /\ pkt.type = "REJ" => pkt.sequence > s.i
    <3>1. CASE d.from \in Ports
      <4>1. p = d.from /\ ChildWrote(child[p], pkt)
        BY <1>7, <3>1
      <4>2. pkt.type \in {"RR", "REJ"} /\ pkt.sequence <= child[p].mvSequence
        BY <1>6, <1>12, <4>1 DEF ChildWrote
      <4>3. QED
        BY <1>6, <2>1, <2>3, <4>2
    <3>2. CASE d.from \notin Ports
      BY <1>6, <1>8, <2>1, <2>3, <3>2
    <3>3. QED
      BY <3>1, <3>2
  <2>4. QED
    BY <1>5, <2>2, <2>3
<1>13. t.i >= 2 /\ d.from \notin Ports => s.i >= 2 \/ t.mvSocket = NewSocket(c)
  <2> SUFFICES ASSUME t.i >= 2, d.from \notin Ports, ~(s.i >= 2)
               PROVE  t.mvSocket = NewSocket(c)
    OBVIOUS
  <2>1. s.i = 1 /\ t.i = 2
    BY <1>5, <1>6
  <2>2. pkt.type = "RR" /\ pkt.sequence = 1
    BY <1>5, <1>6, <1>8, <2>1
  <2>3. QED
    BY <1>5, <2>1, <2>2
<1>14. t.mvSocket \in {s.mvSocket, NewSocket(c)}
  BY <1>5
<1>15. QED
  BY <1>1, <1>2, <1>3, <1>5, <1>10, <1>11, <1>12, <1>13, <1>14

\* rcopy's wait runs out.
LEMMA ClientTimeoutInOrder ==
    ASSUME IInv, IInv', OneClientInv, OneClientInOrder, NEW c \in Clients,
           ClientTimesOut(c)
    PROVE  /\ OneClientInv'
           /\ FileBelow4GiB => CopyGrows(client[c], client'[c])
<1>1. PICK v : v = client[c]
  OBVIOUS
<1>2. PICK s : s = ClientTimedOut(v)
  OBVIOUS
<1>3. PICK reply : reply = ClientFails(c, s)
  OBVIOUS
<1>4. PICK t : t = reply.client
  OBVIOUS
<1>5. ClientRunning(v) /\ v.i >= 0 /\ ClientReplies(c, reply, inbox)
  BY <1>1, <1>2, <1>3 DEF ClientTimesOut
<1>6. ClientReady(c, v) /\ v \in ClientRecord(c) /\ ClientIsServed(v)
  BY <1>1, <1>5, RunningClientIsReady DEF ClientReady, OneClientInv
<1>7. /\ ClientReady(c, s) /\ SameCopy(v, s) /\ s.mvAddr = v.mvAddr
  BY <1>2, <1>5, <1>6, ClientTimeoutKeeps, TimeoutKeepsCopy
<1>8. ClientIsServed(s)
  <2>1. v.i >= 2 => s.mvAddr \in Ports
    BY <1>6, <1>7 DEF ClientIsServed
  <2>2. QED
    BY <1>6, <1>7, <2>1, SameCopyIsServed
<1>9. /\ Replies(reply) /\ t.i = s.i /\ t.mvSocket = s.mvSocket
      /\ t.mvSequence = s.mvSequence
  BY <1>3, <1>4, <1>7, ClientFailsReplies
<1>10. ClientOutcome(c, s, reply)
  <2>1. s.mvState \in {"INIT", "RECV_PACKETS"}
    BY <1>7 DEF ClientReady
  <2>2. QED
    BY <1>3, <1>7, <2>1, ClientInitFailedIsSound, RecvPacketsFailedIsSound
       DEF ClientFails
<1>11. ClientIsServed(t) /\ CopyGrows(s, t)
  BY <1>3, <1>4, <1>7, <1>8, FailureIsServed
<1>12. PICK R : R = MailMap
  OBVIOUS
<1>13. InQueues(inbox, R) /\ Ordered(inbox) /\ \A y \in Sockets : R[y] \subseteq MailMap[y]
  BY <1>12, MailWaitsInOrder
<1>14. t.i = v.i /\ t.mvSocket = v.mvSocket /\ t.mvSequence = v.mvSequence
  BY <1>7, <1>9 DEF SameCopy
<1>15. ASSUME NEW e \in R[t.mvSocket]
       PROVE  ToCome(t, e)
  <2>1. t.mvSocket \in ClientSockets /\ t.mvSocket \in Sockets
    BY <1>6, <1>14, SocketFacts DEF ClientRecord
  <2>2. ToRead(t.mvSocket, e)
    BY <1>12, <2>1 DEF MailMap, Expected
  <2>3. ToCome(v, e)
    BY <1>1, <1>14, <2>2 DEF ToRead
  <2>4. QED
    BY <1>14, <2>3 DEF ToCome
<1>16. \A p \in Forked : child[p].mvState = "INIT" => t.i <= child[p].mvSequence + 1
  BY <1>1, <1>14 DEF OneClientInv, ChildServes
<1>17. /\ s.mvSocket = client[c].mvSocket /\ s.i = client[c].i
       /\ s.mvSequence = client[c].mvSequence
  BY <1>1, <1>7 DEF SameCopy
<1>18. OneClientInv'
  <2>1. /\ ClientIsServed(reply.client)
        /\ \A p \in Forked : child[p].mvState = "INIT" =>
                                reply.client.i <= child[p].mvSequence + 1
        /\ \A e \in R[reply.client.mvSocket] : ToCome(reply.client, e)
    BY <1>4, <1>11, <1>15, <1>16
  <2>2. QED
    BY <1>5, <1>9, <1>10, <1>13, <1>17, <2>1, ClientRepliesInOrder
<1>19. CopyGrows(client[c], client'[c])
  <2>1. client'[c] = t
    BY <1>4, <1>5 DEF ClientReplies, IInv, TypeOK
  <2>2. QED
    BY <1>1, <1>7, <1>11, <2>1 DEF SameCopy, CopyGrows
<1>20. QED
  BY <1>18, <1>19

\* A datagram for rcopy.
LEMMA ClientReceivesInOrder ==
    ASSUME IInv, IInv', OneClientInv, OneClientInOrder, NEW c \in Clients,
           ClientReceives(c)
    PROVE  /\ OneClientInv'
           /\ FileBelow4GiB => CopyGrows(client[c], client'[c])
<1>1. PICK v : v = client[c]
  OBVIOUS
<1>2. PICK x : x = v.mvSocket
  OBVIOUS
<1>3. PICK d : d = Head(inbox[x])
  OBVIOUS
<1>4. PICK s : s = ClientReceived(v, d)
  OBVIOUS
<1>5. PICK reply : reply = IF Intact(d.pkt) THEN ClientTakes(c, s, d.pkt)
                                            ELSE ClientFails(c, s)
  OBVIOUS
<1>6. PICK t : t = reply.client
  OBVIOUS
<1>7. /\ ClientRunning(v) /\ v.i >= 0 /\ Readable(x)
      /\ ClientReplies(c, reply, Received(x))
  BY <1>1, <1>2, <1>3, <1>4, <1>5 DEF ClientReceives
<1>8. /\ ClientReady(c, v) /\ v \in ClientRecord(c) /\ ClientIsServed(v)
      /\ x \in {OldSocket(c), NewSocket(c)} /\ x \in Sockets
      /\ x \in ClientSockets
  BY <1>1, <1>2, <1>7, RunningClientIsReady, SocketFacts DEF ClientReady, OneClientInv
<1>9. PICK F : F = MailMap
  OBVIOUS
<1>10. PICK E : E = {e \in F[x] : MayFollow(d, e)}
  OBVIOUS
<1>11. PICK R : R = [F EXCEPT ![x] = E]
  OBVIOUS
<1>12. InQueues(Received(x), R) /\ Ordered(Received(x)) /\ d \in F[x]
  <2>1. F = [y \in Sockets |-> F[y]] /\ InQueues(inbox, F) /\ Ordered(inbox)
    BY <1>9, MailWaitsInOrder DEF MailMap
  <2>2. inbox[x] # <<>>
    BY <1>7 DEF Readable
  <2>3. QED
    BY <1>3, <1>8, <1>10, <1>11, <2>1, <2>2, ReceivedInOrder
<1>13. \A y \in Sockets : R[y] \subseteq MailMap[y]
  BY <1>9, <1>10, <1>11 DEF MailMap
<1>14. \A e \in R[x] : MayFollow(d, e) /\ e \in F[x]
  BY <1>8, <1>9, <1>10, <1>11 DEF MailMap
<1>15. \A e \in F[x] : e \in Post(x) /\ e \in Expected(x) /\ ToCome(v, e)
  <2>1. \A e \in F[x] : e \in Post(x) /\ e \in Expected(x)
    BY <1>8, <1>9 DEF MailMap
  <2>2. QED
    BY <1>1, <1>2, <1>8, <2>1 DEF Expected, ToRead
<1>16. \A e \in F[x] : e.from = ListenSocket \/ e.from \in Ports
  BY <1>8, <1>15, ClientMail
<1>17. /\ d.pkt \in ToClient
       /\ \/ /\ d.from = ListenSocket /\ x = OldSocket(c)
             /\ d.pkt \in Answers \union {Flipped}
          \/ /\ d.from \in Ports /\ Told(c)
             /\ d.pkt.type \in {"RR", "REJ"} => d.pkt.sequence >= 1
  BY <1>8, <1>12, <1>15, ClientMail
<1>18. ToCome(v, d) /\ d \in Expected(x)
  BY <1>12, <1>15
<1>19. d.from \in {ListenSocket} \union Ports
  BY <1>17
<1>20. /\ ClientReady(c, s) /\ SameCopy(v, s) /\ s.mvAddr = d.from
       /\ s.mvRetries >= 1
  BY <1>4, <1>8, <1>19, ClientTakesDatagram, DatagramKeepsCopy
<1>21. /\ s.mvSocket = x /\ s.i = v.i /\ s.mvSequence = v.mvSequence
       /\ s.mvState = v.mvState
  BY <1>2, <1>20 DEF SameCopy
<1>22. ClientIsServed(s)
  <2>1. v.i >= 2 => s.mvAddr \in Ports
    BY <1>18, <1>20 DEF ToCome
  <2>2. QED
    BY <1>8, <1>20, <2>1, SameCopyIsServed
<1>23. Told(c) <=> s.i >= 1
  BY <1>1, <1>21 DEF IInv, ClientIsSound
<1>24. s.mvState \in {"INIT", "RECV_PACKETS"}
  BY <1>20 DEF ClientReady
<1>25. d.pkt \in Answers => d.pkt.type = "RR"
  BY AnswerFacts
<1>26. \A p \in Forked : child[p].mvState = "INIT" => v.i <= child[p].mvSequence + 1
  BY <1>1 DEF OneClientInv, ChildServes
<1>27. /\ ClientOutcome(c, s, reply) /\ Replies(reply) /\ ClientIsServed(t)
       /\ FileBelow4GiB => CopyGrows(s, t)
       /\ \A p \in Forked : child[p].mvState = "INIT" => t.i <= child[p].mvSequence + 1
       /\ \A e \in R[t.mvSocket] : ToCome(t, e)
  <2>1. CASE ~Intact(d.pkt)
    <3>1. reply = ClientFails(c, s)
      BY <1>5, <2>1
    <3>2. ClientOutcome(c, s, reply)
      BY <1>20, <1>24, <3>1, ClientInitFailedIsSound, RecvPacketsFailedIsSound
         DEF ClientFails
    <3>3. /\ Replies(reply) /\ t.i = s.i /\ t.mvSocket = s.mvSocket
          /\ t.mvSequence = s.mvSequence
      BY <1>6, <1>20, <3>1, ClientFailsReplies
    <3>4. ClientIsServed(t) /\ CopyGrows(s, t)
      BY <1>6, <1>20, <1>22, <3>1, FailureIsServed
    <3>5. t.i = v.i /\ t.mvSequence = v.mvSequence /\ t.mvSocket = x
      BY <1>21, <3>3
    <3>6. \A e \in R[t.mvSocket] : ToCome(t, e)
      BY <1>14, <1>15, <3>5 DEF ToCome
    <3>7. \A p \in Forked : child[p].mvState = "INIT" => t.i <= child[p].mvSequence + 1
      BY <1>26, <3>5
    <3>8. QED
      BY <3>2, <3>3, <3>4, <3>6, <3>7
  <2>2. CASE Intact(d.pkt) /\ s.mvState = "RECV_PACKETS"
    <3>1. reply = RecvPackets(s, d.pkt)
      BY <1>5, <2>2 DEF ClientTakes
    <3>2. ClientOutcome(c, s, reply)
      BY <1>17, <1>20, <2>2, <3>1, RecvPacketsIsSound
    <3>3. Replies(reply) /\ t.i = 5 /\ t.mvSocket = s.mvSocket
      BY <1>6, <1>17, <1>20, <2>2, <3>1, RecvPacketsReplies
    <3>4. s.i = 5
      BY <1>20, <2>2 DEF ClientReady
    <3>5. d.from \in Ports
      BY <1>18, <1>21, <3>4 DEF ToCome
    <3>6. ToCome(s, d)
      BY <1>18, <1>21 DEF ToCome
    <3>7. d.pkt.type \in {"RR", "REJ"} => d.pkt.sequence >= 1
      BY <1>17, <3>5, SocketFacts
    <3>8. /\ ClientIsServed(t)
          /\ FileBelow4GiB => CopyGrows(s, t)
          /\ t.mvSequence >= 1 => s.mvSequence >= 1 \/ d.pkt.type = "DAT"
      BY <1>6, <1>8, <1>17, <1>18, <1>20, <1>22, <2>2, <3>1, <3>5, <3>6, <3>7,
         BlockIsServed
    <3>9. t.i = v.i /\ t.mvSocket = x
      BY <1>21, <3>3, <3>4
    <3>10. \A p \in Forked : child[p].mvState = "INIT" => t.i <= child[p].mvSequence + 1
      BY <1>26, <3>9
    <3>11. ASSUME NEW e \in R[t.mvSocket]
           PROVE  ToCome(t, e)
      <4>1. MayFollow(d, e) /\ ToCome(v, e)
        BY <1>14, <1>15, <3>9, <3>11
      <4>2. t.mvSequence >= 1 => e.pkt.type \in {"DAT", "FLIPPED"}
        BY <1>21, <3>5, <3>8, <4>1 DEF MayFollow, ToCome
      <4>3. QED
        BY <3>9, <4>1, <4>2 DEF ToCome
    <3>12. QED
      BY <3>2, <3>3, <3>8, <3>10, <3>11
  <2>3. CASE Intact(d.pkt) /\ s.mvState = "INIT"
    <3>1. reply = ClientInit(s, d.pkt, NewSocket(c), c)
      BY <1>5, <2>3 DEF ClientTakes
    <3>2. d.from \in Ports \/ (d.from = ListenSocket /\ d.pkt \in Answers)
      BY <1>17, <2>3, FlippedFacts
    <3>3. Receivable(s, d.pkt)
      <4>1. s.i = 0 => d.pkt \in Answers
        BY <1>17, <1>23, <2>3, FlippedFacts
      <4>2. d.pkt.type = "REJ" => d.pkt.sequence >= 1
        BY <1>17, <1>25, <2>3, FlippedFacts
      <4>3. QED
        BY <1>17, <4>1, <4>2 DEF Receivable
    <3>4. ClientOutcome(c, s, reply)
      BY <1>20, <2>3, <3>1, <3>3, ClientInitIsSound
    <3>5. Replies(reply)
      BY <1>20, <2>3, <3>1, <3>3, ClientInitReplies
    <3>6. /\ ClientIsServed(t) /\ CopyGrows(s, t) /\ t.mvSequence = 0
          /\ \A p \in Forked : child[p].mvState = "INIT" =>
                                  t.i <= child[p].mvSequence + 1
          /\ t.i >= 2 /\ d.from \notin Ports => s.i >= 2 \/ t.mvSocket = NewSocket(c)
          /\ t.mvSocket \in {s.mvSocket, NewSocket(c)}
      BY <1>1, <1>6, <1>8, <1>18, <1>20, <1>21, <1>22, <2>3, <3>1, <3>2, <3>3,
         InitIsServed
    <3>7. ASSUME NEW e \in R[t.mvSocket]
          PROVE  ToCome(t, e)
      <4>1. CASE t.mvSocket = NewSocket(c)
        <5>1. NewSocket(c) \in Sockets /\ NewSocket(c) \in {OldSocket(c), NewSocket(c)}
          BY SocketFacts
        <5>2. e \in Post(NewSocket(c))
          BY <1>13, <3>7, <4>1, <5>1 DEF MailMap
        <5>3. e.from \in Ports
          BY <5>1, <5>2, ClientMail, OwnSockets
        <5>4. QED
          BY <3>6, <5>3 DEF ToCome
      <4>2. CASE t.mvSocket # NewSocket(c)
        <5>1. t.mvSocket = x
          BY <1>21, <3>6, <4>2
        <5>2. /\ MayFollow(d, e) /\ ToCome(v, e)
              /\ e.from = ListenSocket \/ e.from \in Ports
          BY <1>14, <1>15, <1>16, <3>7, <5>1
        <5>3. t.i >= 2 => s.i >= 2 \/ d.from \in Ports
          BY <3>6, <4>2
        <5>4. t.i >= 2 => e.from \in Ports
          BY <1>21, <5>2, <5>3 DEF ToCome, MayFollow
        <5>5. QED
          BY <3>6, <5>4 DEF ToCome
      <4>3. QED
        BY <4>1, <4>2
    <3>8. QED
      BY <3>4, <3>5, <3>6, <3>7
  <2>4. QED
    BY <1>24, <2>1, <2>2, <2>3
<1>28. OneClientInv'
  <2>1. /\ ClientIsServed(reply.client)
        /\ \A p \in Forked : child[p].mvState = "INIT" =>
                                reply.client.i <= child[p].mvSequence + 1
        /\ \A e \in R[reply.client.mvSocket] : ToCome(reply.client, e)
    BY <1>6, <1>27
  <2>2. /\ s.mvSocket = client[c].mvSocket /\ s.i = client[c].i
        /\ s.mvSequence = client[c].mvSequence
    BY <1>1, <1>2, <1>21
  <2>3. QED
    BY <1>7, <1>12, <1>13, <1>27, <2>1, <2>2, ClientRepliesInOrder
<1>29. FileBelow4GiB => CopyGrows(client[c], client'[c])
  <2>1. client'[c] = t
    BY <1>6, <1>7 DEF ClientReplies, IInv, TypeOK
  <2>2. QED
    BY <1>1, <1>20, <1>27, <2>1 DEF SameCopy, CopyGrows
<1>30. QED
  BY <1>28, <1>29

-----------------------------------------------------------------------------
(* The child's steps *)

\* What a child sends in a step from state s to state t: in init an answer to
\* the packet it waits for, after init a true block.
ChildWrites(s, t, pkt) ==
    /\ pkt \in ToClient
    /\ \/ /\ pkt.type \in {"RR", "REJ"} /\ s.mvState = "INIT"
          /\ pkt.sequence <= s.mvSequence
       \/ /\ pkt.type = "DAT" /\ s.mvState # "INIT" /\ t.mvState # "INIT"
          /\ FileBelow4GiB => pkt = datpkt(pkt.sequence, pkt.sequence)

\* The steps of child p: it becomes t, and R is left in the queues.
LEMMA ChildMovesInOrder ==
    ASSUME IInv, OneClientInv, NEW p \in Ports, child[p] # Unforked,
           NEW t, ChildReady(p, t), child' = [child EXCEPT ![p] = t],
           UNCHANGED <<client, listener>>,
           t.mvState = "INIT" => /\ child[p].mvState = "INIT" /\ HasTaken(t)
                                 /\ t.mvSequence >= child[p].mvSequence,
           \A c \in Clients : FileBelow4GiB /\ Transferring(t) =>
                                 TrueWindow(t, client[c].mvSequence),
           NEW R, \A s \in Sockets : R[s] \subseteq MailMap[s],
           NEW q, InQueues(q, R), Ordered(q),
           NEW out, Sends(q, p, t.mvAddr, out),
           \/ out = <<>>
           \/ \E pkt : out = <<pkt>> /\ ChildWrites(child[p], t, pkt)
    PROVE  OneClientInv'
<1>1. PICK s : s = child[p]
  OBVIOUS
<1>2. /\ t \in ChildRecord(p) /\ t # Unforked /\ t.mvSequence \in Nat
      /\ t.mvAddr \in ClientSockets /\ t.mvAddr \in Sockets
      /\ s \in ChildRecord(p) /\ s.mvSequence \in Nat /\ s # Unforked
  <2>1. t \in ChildRecord(p) /\ s \in ChildRecord(p)
    BY <1>1, ChildFacts DEF ChildReady
  <2>2. QED
    BY <2>1, ForkedIsNotUnforked, SocketFacts DEF ChildRecord
<1>3. child'[p] = t /\ \A o \in Ports : o # p => child'[o] = child[o]
  BY DEF IInv, TypeOK
<1>4. p \in Forked /\ Forked' = Forked /\ \A o \in Forked : o = p
  BY <1>1, <1>2, <1>3 DEF Forked, OneClientInv, OneChild
<1>5. t.mvState = "INIT" => s.mvState = "INIT" /\ t.mvSequence >= s.mvSequence
  BY <1>1
<1>6. \A pkt : pkt.sequence \in Nat /\ ChildWrote(s, pkt) => ChildWrote(t, pkt)
  BY <1>2, <1>5 DEF ChildWrote
<1>7. \A c \in Clients : client[c].mvSequence >= 1 => s.mvState # "INIT"
  BY <1>1, <1>4 DEF OneClientInv, ClientIsServed
<1>8. PICK G : G = ExpectedMap'
  OBVIOUS
<1>9. \A x \in Sockets : G[x] = Expected(x)'
  BY <1>8 DEF ExpectedMap
<1>10. ASSUME NEW x \in Sockets, NEW d \in R[x]
       PROVE  d \in G[x]
  <2>1. d \in Expected(x) /\ d \in Datagrams(x)
    BY DEF MailMap, Expected
  <2>2. CASE x \in ClientSockets
    <3>1. ToRead(x, d)
      BY <2>1, <2>2 DEF Expected
    <3>2. d.pkt.sequence \in Nat
      BY <2>1, <2>2 DEF Datagrams, ToClient
    <3>3. d.from \in Ports => ChildWrote(child'[d.from], d.pkt)
      <4> SUFFICES ASSUME d.from \in Ports
                   PROVE  ChildWrote(child'[d.from], d.pkt)
        OBVIOUS
      <4>1. d.from = p /\ ChildWrote(s, d.pkt)
        BY <1>1, <1>4, <2>1, <2>2, SenderIsTheChild
      <4>2. QED
        BY <1>3, <1>6, <3>2, <4>1
    <3>4. ToRead(x, d)'
      BY <1>4, <3>1, <3>3 DEF ToRead
    <3>5. QED
      BY <1>9, <2>1, <2>2, <3>4 DEF Expected, Datagrams, ToClient, ToServer
  <2>3. CASE x \notin ClientSockets
    <3>1. ToServe(x, d)
      BY <2>1, <2>3 DEF Expected
    <3>2. ToServe(x, d)'
      BY <1>4, <3>1 DEF ToServe
    <3>3. QED
      BY <1>9, <2>1, <2>3, <3>2 DEF Expected, Datagrams, ToClient, ToServer
  <2>4. QED
    BY <2>2, <2>3
<1>11. ASSUME NEW pkt, ChildWrites(s, t, pkt)
       PROVE  /\ Datagram(p, pkt) \in G[t.mvAddr]
              /\ Datagram(p, Flipped) \in G[t.mvAddr]
              /\ \A d \in R[t.mvAddr] : MayFollow(d, Datagram(p, pkt))
  <2>1. /\ Datagram(p, pkt).from = p /\ Datagram(p, pkt).pkt = pkt
        /\ Datagram(p, Flipped).from = p /\ Datagram(p, Flipped).pkt = Flipped
    BY DEF Datagram
  <2>2. /\ pkt \in ToClient /\ Flipped \in ToClient /\ Flipped.type = "FLIPPED"
        /\ pkt.sequence \in Nat
    BY <1>11, FlippedFacts DEF ChildWrites, ToClient
  <2>3. /\ Datagram(p, pkt) \in Datagrams(t.mvAddr)
        /\ Datagram(p, Flipped) \in Datagrams(t.mvAddr)
    BY <1>2, <2>2, SocketFacts DEF Datagrams, Datagram
  <2>4. ChildWrote(t, pkt) /\ ChildWrote(t, Flipped)
    BY <1>2, <1>5, <1>11, <2>2 DEF ChildWrites, ChildWrote
  <2>5. s.mvState # "INIT" => pkt.type = "DAT"
    BY <1>11 DEF ChildWrites
  <2>6. /\ \A c \in Clients : ToCome(client[c], Datagram(p, pkt))
        /\ \A c \in Clients : ToCome(client[c], Datagram(p, Flipped))
    BY <1>7, <2>1, <2>2, <2>5 DEF ToCome
  <2>7. p # ListenSocket
    BY SocketFacts
  <2>8. ToRead(t.mvAddr, Datagram(p, pkt))' /\ ToRead(t.mvAddr, Datagram(p, Flipped))'
    BY <1>3, <2>1, <2>4, <2>6, <2>7 DEF ToRead
  <2>9. Datagram(p, pkt) \in G[t.mvAddr] /\ Datagram(p, Flipped) \in G[t.mvAddr]
    BY <1>2, <1>9, <2>3, <2>8 DEF Expected, Datagrams, ToClient, ToServer
  <2>10. ASSUME NEW d \in R[t.mvAddr]
         PROVE  MayFollow(d, Datagram(p, pkt))
    <3>1. d \in Expected(t.mvAddr)
      BY <1>2 DEF MailMap
    <3>2. d.from \in Ports /\ d.pkt.type = "DAT" => pkt.type = "DAT"
      <4> SUFFICES ASSUME d.from \in Ports, d.pkt.type = "DAT"
                   PROVE  pkt.type = "DAT"
        OBVIOUS
      <4>1. ChildWrote(s, d.pkt)
        BY <1>1, <1>2, <1>4, <3>1, SenderIsTheChild
      <4>2. QED
        BY <2>5, <4>1 DEF ChildWrote
    <3>3. pkt.type # "CXN"
      BY <2>2 DEF ToClient
    <3>4. QED
      BY <2>1, <2>7, <3>2, <3>3 DEF MayFollow
  <2>11. QED
    BY <2>9, <2>10
<1>12. QueuesAreInOrder'
  <2>1. \/ out = <<>>
        \/ \E pkt : /\ out = <<pkt>>
                    /\ Datagram(p, pkt) \in G[t.mvAddr]
                    /\ Datagram(p, Flipped) \in G[t.mvAddr]
                    /\ \A d \in R[t.mvAddr] : MayFollow(d, Datagram(p, pkt))
    BY <1>1, <1>11
  <2>2. faults \in Nat /\ \A x \in Sockets : R[x] \subseteq G[x]
    BY <1>10 DEF IInv, TypeOK
  <2>3. QED
    BY <1>2, <1>8, <2>1, <2>2, AnswersInOrder
<1>13. OneChild'
  BY <1>4 DEF OneClientInv, OneChild
<1>14. ASSUME NEW c \in Clients
       PROVE  ClientIsServed(client[c])'
  <2>1. ClientIsServed(client[c])
    BY DEF OneClientInv
  <2>2. client[c].mvSequence >= 1 => t.mvState # "INIT"
    BY <1>5, <1>7
  <2>3. QED
    BY <1>3, <1>4, <2>1, <2>2 DEF ClientIsServed
<1>15. ASSUME NEW c \in Clients, NEW o \in Forked'
       PROVE  ChildServes(child[o], client[c])'
  <2>1. o = p /\ ChildServes(s, client[c])
    BY <1>1, <1>4 DEF OneClientInv
  <2>2. client[c].i \in Int
    <3>1. client[c] \in ClientRecord(c)
      BY DEF IInv, TypeOK
    <3>2. QED
      BY <3>1 DEF ClientRecord
  <2>3. t.mvState = "INIT" => HasTaken(t) /\ client[c].i <= t.mvSequence + 1
    BY <1>2, <1>5, <2>1, <2>2 DEF ChildServes
  <2>4. ChildServes(t, client[c])
    BY <2>3 DEF ChildServes
  <2>5. QED
    BY <1>3, <2>1, <2>4 DEF ChildServes
<1>16. QED
  BY <1>12, <1>13, <1>14, <1>15 DEF OneClientInv

\* Reading a datagram and counting a timeout leave what the child holds.
SameHoldings(s, t) ==
    /\ t.mvState = s.mvState /\ t.mvSequence = s.mvSequence /\ t.mvFrom = s.mvFrom
    /\ t.mvWindow = s.mvWindow /\ t.mvOutBuf = s.mvOutBuf /\ t.have = s.have

LEMMA WaitingKeepsHoldings ==
    ASSUME NEW p, NEW s \in ChildRecord(p), NEW d
    PROVE  SameHoldings(s, ChildReceived(s, d)) /\ SameHoldings(s, ChildTimedOut(s))
<1>1. PICK n : n = IF Intact(d.pkt) THEN PKT_TRNSMAX ELSE PKT_TRNSMAX - 1
  OBVIOUS
<1>2. PICK t : t = [s EXCEPT !.mvAddr = d.from, !.mvRetries = n]
  OBVIOUS
<1>3. PICK u : u = [s EXCEPT !.mvRetries = @ - 1]
  OBVIOUS
<1>4. SameHoldings(s, t) /\ SameHoldings(s, u)
  BY <1>2, <1>3 DEF SameHoldings, ChildRecord
<1>5. t = ChildReceived(s, d) /\ u = ChildTimedOut(s)
  BY <1>1, <1>2, <1>3 DEF ChildReceived, ChildTimedOut
<1>6. QED
  BY <1>4, <1>5

\* Of a child in state s that serves client state c a handler makes reply.
ServesOn(s, c, reply) ==
    /\ reply.child.mvState = "INIT" =>
          /\ s.mvState = "INIT" /\ HasTaken(reply.child)
          /\ reply.child.mvSequence >= s.mvSequence
    /\ FileBelow4GiB /\ Transferring(reply.child) =>
          TrueWindow(reply.child, c.mvSequence)
    /\ \/ reply.out = <<>>
       \/ \E pkt : reply.out = <<pkt>> /\ pkt.type \in {"RR", "REJ"}
                   /\ s.mvState = "INIT" /\ pkt.sequence = s.mvSequence

LEMMA InitServesOn ==
    ASSUME NEW s, s.mvState = "INIT", NEW c, c.mvSequence \in Nat,
           NEW reply, InitReplies(s, reply)
    PROVE  ServesOn(s, c, reply)
<1>1. PICK t : t = reply.child
  OBVIOUS
<1>2. /\ \E pkt : /\ reply.out = <<pkt>> /\ pkt.type \in {"RR", "REJ"}
                  /\ pkt.sequence = s.mvSequence
      /\ t.mvState = "INIT" => HasTaken(t) /\ t.mvSequence >= s.mvSequence
      /\ Transferring(t) => TrueWindow(t, c.mvSequence)
  BY <1>1 DEF InitReplies
<1>3. QED
  BY <1>1, <1>2 DEF ServesOn

\* A timeout or a bad checksum: init's REJ, or the window as it was.
LEMMA ChildFailsServesOn ==
    ASSUME NEW p, NEW s, ChildReady(p, s), s.mvState \in {"INIT", "WAIT_RR"},
           NEW c, c.mvSequence \in Nat, s.mvState = "INIT" => HasTaken(s),
           FileBelow4GiB /\ Transferring(s) => TrueWindow(s, c.mvSequence)
    PROVE  ServesOn(s, c, ChildFails(s))
<1>1. CASE s.mvState = "INIT"
  <2>1. InitReplies(s, ChildInitFailed(s, Files))
    BY <1>1, ChildInitFailedReplies
  <2>2. QED
    BY <1>1, <2>1, InitServesOn DEF ChildFails
<1>2. CASE s.mvState = "WAIT_RR"
  <2>1. PICK t : t = [s EXCEPT !.mvState = "FILL_WINDOW"]
    OBVIOUS
  <2>2. PICK reply : reply = [child |-> t, out |-> <<>>]
    OBVIOUS
  <2>3. /\ t.mvState = "FILL_WINDOW" /\ t.mvSequence = s.mvSequence
        /\ t.mvFrom = s.mvFrom /\ t.mvWindow = s.mvWindow /\ t.mvOutBuf = s.mvOutBuf
    BY <2>1 DEF ChildReady, ChildRecord
  <2>4. FileBelow4GiB => TrueWindow(t, c.mvSequence)
    BY <1>2, <2>3, TrueWindowDepends DEF Transferring
  <2>5. ServesOn(s, c, reply)
    BY <2>2, <2>3, <2>4 DEF ServesOn
  <2>6. reply = ChildFails(s)
    BY <1>2, <2>1, <2>2 DEF ChildFails, WaitRRFailed
  <2>7. QED
    BY <2>5, <2>6
<1>3. QED
  BY <1>1, <1>2

\* A packet of the client's: an RR only of a block it has written, a REJ of none
\* beyond the next.
LEMMA ChildTakesServesOn ==
    ASSUME NEW p, NEW s, ChildReady(p, s), s.mvState \in {"INIT", "WAIT_RR"},
           s.mvRetries >= 1, NEW c, c.mvSequence \in Nat, ClientIsServed(c),
           s.mvState = "INIT" => HasTaken(s) /\ c.mvSequence = 0,
           FileBelow4GiB /\ Transferring(s) => TrueWindow(s, c.mvSequence),
           NEW pkt \in ToServer, pkt.type = "FLN" => pkt.data \in Clients,
           pkt.type = "RR" => pkt.sequence < c.mvSequence,
           pkt.type = "REJ" => pkt.sequence <= c.mvSequence,
           pkt.type \notin {"RR", "REJ"} => OfInit(pkt)
    PROVE  ServesOn(s, c, ChildTakes(s, pkt))
<1>1. CASE s.mvState = "INIT"
  <2>1. pkt.sequence = s.mvSequence => OfInit(pkt)
    <3>1. /\ s.mvSequence \in Nat /\ s.mvSequence >= 1
          /\ pkt.sequence \in Nat
      BY <1>1 DEF ChildReady, ChildRecord, WellFormed, ToServer
    <3>2. c.mvSequence = 0
      BY <1>1
    <3>3. QED
      BY <3>1, <3>2
  <2>2. InitReplies(s, ChildInit(s, pkt, Files))
    BY <1>1, <2>1, ChildInitReplies
  <2>3. QED
    BY <1>1, <2>2, InitServesOn DEF ChildTakes
<1>2. CASE s.mvState = "WAIT_RR"
  <2>1. PICK t : t = WaitRR(s, pkt)
    OBVIOUS
  <2>2. PICK reply : reply = [child |-> t, out |-> <<>>]
    OBVIOUS
  <2>3. PICK n \in Nat : n = c.mvSequence
    OBVIOUS
  <2>4. FileBelow4GiB => TrueWindow(t, n)
    <3> SUFFICES ASSUME FileBelow4GiB
                 PROVE  TrueWindow(t, n)
      OBVIOUS
    <3>1. n <= LastBlock + 1
      BY <2>3 DEF ClientIsServed, KnowsTheEnd
    <3>2. TrueWindow(s, n)
      BY <1>2, <2>3 DEF Transferring
    <3>3. pkt.type = "RR" => pkt.sequence < n
      BY <2>3
    <3>4. pkt.type = "REJ" => pkt.sequence <= n
      BY <2>3
    <3>5. QED
      BY <1>2, <2>1, <3>1, <3>2, <3>3, <3>4, WaitRRIsTrue
  <2>5. t.mvState # "INIT"
    <3>1. t.mvState \in {"FILL_WINDOW", "WAIT_RR"}
      BY <1>2, <2>1 DEF WaitRR, ChildReady, ChildRecord
    <3>2. QED
      BY <3>1
  <2>6. ServesOn(s, c, reply)
    BY <2>2, <2>3, <2>4, <2>5 DEF ServesOn
  <2>7. reply = ChildTakes(s, pkt)
    BY <1>2, <2>1, <2>2 DEF ChildTakes
  <2>8. QED
    BY <2>6, <2>7
<1>3. QED
  BY <1>1, <1>2

\* What is known of child p, which is forked.
LEMMA ForkedChildServes ==
    ASSUME IInv, OneClientInv, NEW p \in Ports, child[p] # Unforked, NEW c \in Clients
    PROVE  /\ child[p].mvState = "INIT" =>
                 HasTaken(child[p]) /\ client[c].mvSequence = 0
           /\ FileBelow4GiB /\ Transferring(child[p]) =>
                 TrueWindow(child[p], client[c].mvSequence)
           /\ client[c].mvSequence \in Nat /\ ClientIsServed(client[c])
<1>1. p \in Forked
  BY DEF Forked
<1>2. ChildServes(child[p], client[c]) /\ ClientIsServed(client[c])
  BY <1>1 DEF OneClientInv
<1>3. client[c] \in ClientRecord(c)
  BY DEF IInv, TypeOK
<1>4. client[c].mvSequence \in Nat
  BY <1>3 DEF ClientRecord
<1>5. child[p].mvState = "INIT" => ~(client[c].mvSequence >= 1)
  BY <1>1, <1>2 DEF ClientIsServed, OneClientInv, OneChild
<1>6. QED
  BY <1>2, <1>4, <1>5 DEF ChildServes

\* And of state s, in which it has read a datagram or counted a timeout.
LEMMA SameHoldingsServe ==
    ASSUME IInv, OneClientInv, NEW p \in Ports, child[p] # Unforked, NEW c \in Clients,
           NEW s, SameHoldings(child[p], s)
    PROVE  /\ s.mvState = "INIT" => HasTaken(s) /\ client[c].mvSequence = 0
           /\ FileBelow4GiB /\ Transferring(s) => TrueWindow(s, client[c].mvSequence)
<1>1. PICK v : v = child[p]
  OBVIOUS
<1>2. PICK n : n = client[c].mvSequence
  OBVIOUS
<1>3. /\ v.mvState = "INIT" => HasTaken(v) /\ n = 0
      /\ FileBelow4GiB /\ Transferring(v) => TrueWindow(v, n)
  BY <1>1, <1>2, ForkedChildServes
<1>4. /\ s.mvState = v.mvState /\ s.mvSequence = v.mvSequence
      /\ s.mvFrom = v.mvFrom /\ s.mvWindow = v.mvWindow /\ s.mvOutBuf = v.mvOutBuf
      /\ s.have = v.have
  BY <1>1 DEF SameHoldings
<1>5. FileBelow4GiB /\ Transferring(s) => TrueWindow(s, n)
  BY <1>3, <1>4, TrueWindowDepends DEF Transferring
<1>6. s.mvState = "INIT" => HasTaken(s)
  BY <1>3, <1>4 DEF HasTaken
<1>7. QED
  BY <1>2, <1>3, <1>4, <1>5, <1>6

\* A handler has made reply of the child's state s and left R in the queues.
LEMMA ChildRepliesInOrder ==
    ASSUME IInv, OneClientInv, NEW p \in Ports, child[p] # Unforked,
           NEW s, SameHoldings(child[p], s),
           NEW reply, ChildReady(p, reply.child),
           \A c \in Clients : ServesOn(s, client[c], reply),
           reply.out = <<>> \/ \E pkt : reply.out = <<pkt>> /\ FromInit(pkt),
           NEW R, \A x \in Sockets : R[x] \subseteq MailMap[x],
           NEW queues, InQueues(queues, R), Ordered(queues),
           ChildReplies(p, reply, queues)
    PROVE  OneClientInv'
<1>1. PICK t : t = reply.child
  OBVIOUS
<1>2. PICK out : out = reply.out
  OBVIOUS
<1>3. /\ child' = [child EXCEPT ![p] = t] /\ UNCHANGED <<client, listener>>
      /\ Sends(queues, p, t.mvAddr, out)
  BY <1>1, <1>2 DEF ChildReplies
<1>4. PICK c \in Clients : TRUE
  BY ChildFacts
<1>5. ServesOn(s, client[c], reply)
  BY <1>4
<1>6. /\ s.mvState = child[p].mvState /\ s.mvSequence = child[p].mvSequence
      /\ child[p].mvSequence \in Nat
  <2>1. child[p] \in ChildRecord(p)
    BY ChildFacts DEF ChildReady
  <2>2. QED
    BY <2>1 DEF SameHoldings, ChildRecord
<1>7. t.mvState = "INIT" => /\ child[p].mvState = "INIT" /\ HasTaken(t)
                            /\ t.mvSequence >= child[p].mvSequence
  BY <1>1, <1>5, <1>6 DEF ServesOn
<1>8. \A e \in Clients : FileBelow4GiB /\ Transferring(t) =>
                            TrueWindow(t, client[e].mvSequence)
  BY <1>1 DEF ServesOn
<1>9. \/ out = <<>>
      \/ \E pkt : out = <<pkt>> /\ ChildWrites(child[p], t, pkt)
  <2> SUFFICES ASSUME out # <<>>
               PROVE  \E pkt : out = <<pkt>> /\ ChildWrites(child[p], t, pkt)
    OBVIOUS
  <2>1. PICK pkt : out = <<pkt>> /\ pkt.type \in {"RR", "REJ"}
                   /\ s.mvState = "INIT" /\ pkt.sequence = s.mvSequence
    BY <1>2, <1>5 DEF ServesOn
  <2>2. PICK m : out = <<m>> /\ FromInit(m)
    BY <1>2
  <2>3. pkt = m
    BY <2>1, <2>2
  <2>4. pkt.sequence <= child[p].mvSequence
    BY <1>6, <2>1
  <2>5. ChildWrites(child[p], t, pkt)
    BY <1>6, <2>1, <2>2, <2>3, <2>4 DEF ChildWrites, FromInit
  <2>6. QED
    BY <2>1, <2>5
<1>10. ChildReady(p, t)
  BY <1>1
<1>11. QED
  BY <1>3, <1>7, <1>8, <1>9, <1>10, ChildMovesInOrder

LEMMA ChildTimeoutInOrder ==
    ASSUME IInv, OneClientInv, NEW p \in Ports, ChildTimesOut(p)
    PROVE  OneClientInv'
<1>1. PICK v : v = child[p]
  OBVIOUS
<1>2. PICK s : s = ChildTimedOut(v)
  OBVIOUS
<1>3. PICK reply : reply = ChildFails(s)
  OBVIOUS
<1>4. /\ child[p] # Unforked /\ ChildRunning(v) /\ v.mvState \in {"INIT", "WAIT_RR"}
      /\ ChildReplies(p, reply, inbox)
  BY <1>1, <1>2, <1>3 DEF ChildTimesOut, ChildWaits, ChildAlive
<1>5. ChildReady(p, v) /\ WindowReached(v) /\ v \in ChildRecord(p)
  BY <1>1, <1>4, ChildFacts DEF ChildReady
<1>6. /\ ChildReady(p, s) /\ s.mvState = v.mvState /\ SameHoldings(v, s)
      /\ WindowBase(s) = WindowBase(v)
  BY <1>2, <1>4, <1>5, ChildTimeoutKeeps, WaitingKeepsHoldings
<1>7. SameHoldings(child[p], s) /\ s.mvState \in {"INIT", "WAIT_RR"}
  BY <1>1, <1>4, <1>6
<1>8. ASSUME NEW c \in Clients
      PROVE  ServesOn(s, client[c], reply)
  <2>1. PICK e : e = client[c]
    OBVIOUS
  <2>2. /\ s.mvState = "INIT" => HasTaken(s)
        /\ FileBelow4GiB /\ Transferring(s) => TrueWindow(s, e.mvSequence)
        /\ e.mvSequence \in Nat
    BY <1>4, <1>7, <2>1, SameHoldingsServe, ForkedChildServes
  <2>3. QED
    BY <1>3, <1>6, <1>7, <2>1, <2>2, ChildFailsServesOn
<1>9. /\ ChildReady(p, reply.child)
      /\ reply.out = <<>> \/ \E pkt : reply.out = <<pkt>> /\ FromInit(pkt)
  <2>1. WindowReached(s)
    BY <1>5, <1>6 DEF WindowReached, Transferring
  <2>2. PICK c \in Clients : TRUE
    BY <1>4, ChildFacts
  <2>3. QED
    BY <1>3, <1>6, <1>7, <2>1, <2>2, ChildFailsIsSound
<1>10. PICK R : R = MailMap
  OBVIOUS
<1>11. InQueues(inbox, R) /\ Ordered(inbox) /\ \A x \in Sockets : R[x] \subseteq MailMap[x]
  BY <1>10, MailWaitsInOrder
<1>12. QED
  BY <1>4, <1>7, <1>8, <1>9, <1>11, ChildRepliesInOrder

LEMMA ChildReceivesInOrder ==
    ASSUME IInv, OneClientInv, OneClientInOrder, NEW p \in Ports, ChildReceives(p)
    PROVE  OneClientInv'
<1>1. PICK v : v = child[p]
  OBVIOUS
<1>2. PICK d : d = Head(inbox[p])
  OBVIOUS
<1>3. PICK s : s = ChildReceived(v, d)
  OBVIOUS
<1>4. PICK reply : reply = IF Intact(d.pkt) THEN ChildTakes(s, d.pkt) ELSE ChildFails(s)
  OBVIOUS
<1>5. /\ child[p] # Unforked /\ v.mvState \in {"INIT", "WAIT_RR"} /\ Readable(p)
      /\ ChildReplies(p, reply, Received(p))
  BY <1>1, <1>2, <1>3, <1>4 DEF ChildReceives, ChildWaits, ChildAlive
<1>6. ChildReady(p, v) /\ WindowReached(v) /\ v \in ChildRecord(p)
  BY <1>1, <1>5, ChildFacts DEF ChildReady
<1>7. p \in Sockets /\ p \notin ClientSockets
  BY SocketFacts
<1>8. PICK F : F = MailMap
  OBVIOUS
<1>9. PICK R : R = [F EXCEPT ![p] = {e \in F[p] : MayFollow(d, e)}]
  OBVIOUS
<1>10. InQueues(Received(p), R) /\ Ordered(Received(p)) /\ d \in F[p]
  <2>1. F = [y \in Sockets |-> F[y]] /\ InQueues(inbox, F) /\ Ordered(inbox)
    BY <1>8, MailWaitsInOrder DEF MailMap
  <2>2. inbox[p] # <<>>
    BY <1>5 DEF Readable
  <2>3. QED
    BY <1>2, <1>7, <1>9, <2>1, <2>2, ReceivedInOrder
<1>11. \A y \in Sockets : R[y] \subseteq MailMap[y]
  BY <1>8, <1>9 DEF MailMap
<1>12. d \in Post(p) /\ ToServe(p, d)
  BY <1>7, <1>8, <1>10 DEF MailMap, Expected
<1>13. PICK c \in Clients : SentByClient(c, p, d)
  BY <1>12, ServerMail
<1>14. /\ d.pkt \in ToServer /\ d.from \in {OldSocket(c), NewSocket(c)}
       /\ d.from \in ClientSockets
  BY <1>12, <1>13, ServerMail, SocketFacts DEF SentByClient
<1>15. /\ ChildReady(p, s) /\ s.mvState = v.mvState /\ SameHoldings(v, s)
       /\ s.mvRetries >= 1 /\ WindowBase(s) = WindowBase(v)
  BY <1>3, <1>6, <1>14, ChildTakesDatagram, WaitingKeepsHoldings
<1>16. SameHoldings(child[p], s) /\ s.mvState \in {"INIT", "WAIT_RR"}
  BY <1>1, <1>5, <1>15
<1>17. WindowReached(s)
  BY <1>6, <1>15 DEF WindowReached, Transferring
<1>18. ASSUME NEW e \in Clients
       PROVE  ServesOn(s, client[e], reply)
  <2>1. PICK u : u = client[e]
    OBVIOUS
  <2>2. /\ s.mvState = "INIT" => HasTaken(s)
        /\ FileBelow4GiB /\ Transferring(s) => TrueWindow(s, u.mvSequence)
        /\ u.mvSequence \in Nat /\ ClientIsServed(u)
        /\ s.mvState = "INIT" => u.mvSequence = 0
    BY <1>5, <1>16, <2>1, SameHoldingsServe, ForkedChildServes
  <2>3. CASE ~Intact(d.pkt)
    BY <1>4, <1>15, <1>16, <2>1, <2>2, <2>3, ChildFailsServesOn
  <2>4. CASE Intact(d.pkt)
    <3>1. PICK pkt : pkt = d.pkt
      OBVIOUS
    <3>2. e = c
      BY DEF OneClientInOrder
    <3>3. /\ pkt \in ToServer /\ (pkt.type = "FLN" => pkt.data \in Clients)
          /\ pkt.type = "RR" => pkt.sequence < u.mvSequence
          /\ pkt.type = "REJ" => pkt.sequence <= u.mvSequence
          /\ pkt.type \notin {"RR", "REJ"} => OfInit(pkt)
      BY <1>12, <1>13, <1>14, <2>1, <2>4, <3>1, <3>2
      DEF SentByClient, ToServe, Intact
    <3>4. ServesOn(s, u, ChildTakes(s, pkt))
      BY <1>15, <1>16, <2>2, <3>3, ChildTakesServesOn
    <3>5. QED
      BY <1>4, <2>1, <2>4, <3>1, <3>4
  <2>5. QED
    BY <2>3, <2>4
<1>19. /\ ChildReady(p, reply.child)
       /\ reply.out = <<>> \/ \E pkt : reply.out = <<pkt>> /\ FromInit(pkt)
  <2>1. CASE ~Intact(d.pkt)
    BY <1>4, <1>13, <1>15, <1>16, <1>17, <2>1, ChildFailsIsSound
  <2>2. CASE Intact(d.pkt)
    <3>1. reply = ChildTakes(s, d.pkt)
      BY <1>4, <2>2
    <3>2. CASE s.mvState = "INIT"
      <4>1. reply = ChildInit(s, d.pkt, Files)
        BY <3>1, <3>2 DEF ChildTakes
      <4>2. d.pkt.type = "FLN" => d.pkt.data \in Clients
        BY <1>13 DEF SentByClient
      <4>3. InitOutcome(p, s, reply)
        BY <1>14, <1>15, <3>2, <4>1, <4>2, ChildInitIsSound
      <4>4. QED
        BY <4>3 DEF InitOutcome
    <3>3. CASE s.mvState = "WAIT_RR"
      <4>1. PICK t : t = WaitRR(s, d.pkt)
        OBVIOUS
      <4>2. reply = [child |-> t, out |-> <<>>]
        BY <3>1, <3>3, <4>1 DEF ChildTakes
      <4>3. ChildReady(p, t)
        BY <1>14, <1>15, <3>3, <4>1, WaitRRIsSound
      <4>4. QED
        BY <4>2, <4>3
    <3>4. QED
      BY <1>16, <3>2, <3>3
  <2>3. QED
    BY <2>1, <2>2
<1>20. QED
  BY <1>5, <1>10, <1>11, <1>16, <1>18, <1>19, ChildRepliesInOrder

\* The steps of a child on its own: it has left init and stays out of it, and
\* sends no more than a true block.
LEMMA ChildGoesOnInOrder ==
    ASSUME IInv, OneClientInv, NEW p \in Ports, child[p] # Unforked,
           child[p].mvState # "INIT",
           NEW t, ChildReady(p, t), t.mvState # "INIT",
           \A c \in Clients : FileBelow4GiB => TrueWindow(t, client[c].mvSequence),
           child' = [child EXCEPT ![p] = t], UNCHANGED <<client, listener>>,
           NEW out, Sends(inbox, p, t.mvAddr, out),
           \/ out = <<>>
           \/ \E pkt : /\ out = <<pkt>> /\ pkt \in DataPacket
                       /\ FileBelow4GiB => pkt = datpkt(pkt.sequence, pkt.sequence)
    PROVE  OneClientInv'
<1>1. PICK R : R = MailMap
  OBVIOUS
<1>2. InQueues(inbox, R) /\ Ordered(inbox) /\ \A x \in Sockets : R[x] \subseteq MailMap[x]
  BY <1>1, MailWaitsInOrder
<1>3. \/ out = <<>>
      \/ \E pkt : out = <<pkt>> /\ ChildWrites(child[p], t, pkt)
  <2> SUFFICES ASSUME out # <<>>
               PROVE  \E pkt : out = <<pkt>> /\ ChildWrites(child[p], t, pkt)
    OBVIOUS
  <2>1. PICK pkt : /\ out = <<pkt>> /\ pkt \in DataPacket
                   /\ FileBelow4GiB => pkt = datpkt(pkt.sequence, pkt.sequence)
    OBVIOUS
  <2>2. pkt \in ToClient /\ pkt.type = "DAT"
    BY <2>1, DataPacketsGoToClients
  <2>3. ChildWrites(child[p], t, pkt)
    BY <2>1, <2>2 DEF ChildWrites
  <2>4. QED
    BY <2>1, <2>3
<1>4. QED
  BY <1>2, <1>3, ChildMovesInOrder

LEMMA FillsWindowInOrder ==
    ASSUME IInv, OneClientInv, NEW p \in Ports, ChildFillsWindow(p)
    PROVE  OneClientInv'
<1>1. PICK s : s = child[p]
  OBVIOUS
<1>2. PICK t : t = FillWindow(s)
  OBVIOUS
<1>3. /\ child[p] # Unforked /\ s.mvState = "FILL_WINDOW"
      /\ child' = [child EXCEPT ![p] = t] /\ UNCHANGED <<client, listener>>
      /\ inbox' = inbox /\ faults' = faults
  BY <1>1, <1>2 DEF ChildFillsWindow, ChildAlive
<1>4. ChildReady(p, s)
  BY <1>1, <1>3, ChildFacts
<1>5. ChildReady(p, t)
  BY <1>2, <1>3, <1>4, FillWindowIsSound
<1>6. ASSUME NEW c \in Clients, FileBelow4GiB
      PROVE  TrueWindow(t, client[c].mvSequence)
  <2>1. PICK n : n = client[c].mvSequence
    OBVIOUS
  <2>2. n \in Nat /\ TrueWindow(s, n)
    BY <1>1, <1>3, <1>6, <2>1, ForkedChildServes DEF Transferring
  <2>3. QED
    BY <1>2, <1>3, <1>4, <2>1, <2>2, FillWindowIsTrue
<1>7. t.mvState # "INIT"
  BY <1>2, <1>3, <1>4 DEF FillWindow, ChildReady, ChildRecord
<1>8. Sends(inbox, p, t.mvAddr, <<>>)
  BY <1>3 DEF Sends
<1>9. PICK out : out = <<>>
  OBVIOUS
<1>10. QED
  BY <1>1, <1>3, <1>5, <1>6, <1>7, <1>8, <1>9, ChildGoesOnInOrder

LEMMA HasSentInOrder ==
    ASSUME IInv, OneClientInv, NEW p \in Ports, ChildHasSent(p)
    PROVE  OneClientInv'
<1>1. PICK s : s = child[p]
  OBVIOUS
<1>2. PICK t : t = [s EXCEPT !.mvState = "WAIT_RR"]
  OBVIOUS
<1>3. /\ child[p] # Unforked /\ s.mvState = "SEND_WINDOW"
      /\ child' = [child EXCEPT ![p] = t] /\ UNCHANGED <<client, listener>>
      /\ inbox' = inbox /\ faults' = faults
  BY <1>1, <1>2 DEF ChildHasSent, ChildAlive
<1>4. ChildReady(p, s)
  BY <1>1, <1>3, ChildFacts
<1>5. ChildReady(p, t)
  BY <1>2, <1>3, <1>4, HasSentIsSound
<1>6. /\ t.mvState = "WAIT_RR" /\ t.mvSequence = s.mvSequence
      /\ t.mvFrom = s.mvFrom /\ t.mvWindow = s.mvWindow /\ t.mvOutBuf = s.mvOutBuf
  BY <1>2, <1>4 DEF ChildReady, ChildRecord
<1>7. ASSUME NEW c \in Clients, FileBelow4GiB
      PROVE  TrueWindow(t, client[c].mvSequence)
  <2>1. PICK n : n = client[c].mvSequence
    OBVIOUS
  <2>2. TrueWindow(s, n)
    BY <1>1, <1>3, <1>7, <2>1, ForkedChildServes DEF Transferring
  <2>3. TrueWindow(t, n)
    BY <1>6, <2>2, TrueWindowDepends
  <2>4. QED
    BY <2>1, <2>3
<1>8. t.mvState # "INIT"
  BY <1>6
<1>9. Sends(inbox, p, t.mvAddr, <<>>)
  BY <1>3 DEF Sends
<1>10. PICK out : out = <<>>
  OBVIOUS
<1>11. QED
  BY <1>1, <1>3, <1>5, <1>7, <1>8, <1>9, <1>10, ChildGoesOnInOrder

LEMMA SendsWindowInOrder ==
    ASSUME IInv, OneClientInv, NEW p \in Ports, ChildSends(p)
    PROVE  OneClientInv'
<1>1. PICK s : s = child[p]
  OBVIOUS
<1>2. PICK t : t = PopOutBuf(s)
  OBVIOUS
<1>3. PICK pkt : pkt = Head(s.mvOutBuf)
  OBVIOUS
<1>4. /\ child[p] # Unforked /\ s.mvState = "SEND_WINDOW" /\ s.mvOutBuf # <<>>
      /\ child' = [child EXCEPT ![p] = t] /\ UNCHANGED <<client, listener>>
      /\ SendtoErr(inbox, p, s.mvAddr, pkt)
  BY <1>1, <1>2, <1>3 DEF ChildSends, ChildAlive
<1>5. ChildReady(p, s)
  BY <1>1, <1>4, ChildFacts
<1>6. ChildReady(p, t) /\ t.mvAddr = s.mvAddr /\ pkt \in DataPacket
  BY <1>2, <1>3, <1>4, <1>5, PopOutBufIsSound
<1>7. ASSUME NEW c \in Clients, FileBelow4GiB
      PROVE  /\ TrueWindow(t, client[c].mvSequence)
             /\ pkt = datpkt(pkt.sequence, pkt.sequence)
  <2>1. PICK n : n = client[c].mvSequence
    OBVIOUS
  <2>2. n \in Nat /\ TrueWindow(s, n)
    BY <1>1, <1>4, <1>7, <2>1, ForkedChildServes DEF Transferring
  <2>3. TrueWindow(t, n) /\ pkt = datpkt(pkt.sequence, pkt.sequence)
    BY <1>2, <1>3, <1>4, <1>5, <2>2, PopOutBufIsTrue
  <2>4. QED
    BY <2>1, <2>3
<1>8. t.mvState # "INIT"
  BY <1>2, <1>4, <1>5 DEF PopOutBuf, ChildReady, ChildRecord
<1>9. PICK c \in Clients : TRUE
  BY <1>4, ChildFacts
<1>10. PICK out : out = <<pkt>>
  OBVIOUS
<1>11. Sends(inbox, p, t.mvAddr, out)
  BY <1>4, <1>6, <1>10 DEF Sends
<1>12. \E m : /\ out = <<m>> /\ m \in DataPacket
              /\ FileBelow4GiB => m = datpkt(m.sequence, m.sequence)
  BY <1>6, <1>7, <1>9, <1>10
<1>13. QED
  BY <1>1, <1>4, <1>6, <1>7, <1>8, <1>11, <1>12, ChildGoesOnInOrder

-----------------------------------------------------------------------------
(* The server's steps *)

\* A round of Run's loop.
LEMMA RunStepOnRequests ==
    ASSUME NEW l \in [cxn2: BOOLEAN, sk: Ports \union {Nothing},
                      outpkt: Answers \union {Unwritten}],
           NEW pkt, pkt.type = "CXN" => pkt.sequence = 0,
           pkt.type = "CXN2" => pkt.sequence = 1, NEW port
    PROVE  LET step == RunStep(l, pkt, port)
           IN  /\ pkt.type = "CXN" => ~step.fork /\ step.out = <<portpkt(0, port)>>
               /\ pkt.type = "CXN2" /\ l.cxn2 =>
                     /\ step.fork /\ ~step.server.cxn2
                     /\ step.out = <<rrpkt(1)>>
               /\ pkt.type = "CXN2" /\ ~l.cxn2 =>
                     ~step.fork /\ step.server = l /\ step.out = <<>>
<1>1. PICK step : step = RunStep(l, pkt, port)
  OBVIOUS
<1>2. CASE pkt.type = "CXN"
  <2>1. PICK reply : reply = portpkt(0, port)
    OBVIOUS
  <2>2. step = [server |-> [l EXCEPT !.cxn2 = TRUE, !.sk = port, !.outpkt = reply],
                out |-> <<reply>>, fork |-> FALSE]
    BY <1>1, <1>2, <2>1 DEF RunStep
  <2>3. QED
    BY <1>1, <1>2, <2>1, <2>2
<1>3. CASE pkt.type = "CXN2" /\ l.cxn2
  <2>1. PICK reply : reply = rrpkt(1)
    OBVIOUS
  <2>2. PICK m : m = [l EXCEPT !.cxn2 = FALSE, !.outpkt = reply]
    OBVIOUS
  <2>3. step = [server |-> m, out |-> <<reply>>, fork |-> TRUE]
    BY <1>1, <1>3, <2>1, <2>2 DEF RunStep
  <2>4. ~m.cxn2
    BY <2>2
  <2>5. QED
    BY <1>1, <1>3, <2>1, <2>3, <2>4
<1>4. CASE pkt.type = "CXN2" /\ ~l.cxn2
  <2>1. step = [server |-> l, out |-> <<>>, fork |-> FALSE]
    BY <1>1, <1>4 DEF RunStep
  <2>2. QED
    BY <1>1, <1>4, <2>1
<1>5. CASE pkt.type \notin {"CXN", "CXN2"}
  BY <1>5
<1>6. QED
  BY <1>2, <1>3, <1>4, <1>5

\* While there is no child, the server's loop answers and may fork one.
LEMMA ListenerMovesInOrder ==
    ASSUME IInv, OneClientInv, Forked = {}, UNCHANGED client,
           NEW sk \in Ports, NEW a \in ClientSockets,
           \/ child' = child
           \/ child' = [child EXCEPT ![sk] = ForkedChild(sk, a)] /\ ~listener'.cxn2,
           NEW R, \A x \in Sockets : R[x] \subseteq MailMap[x],
           child' # child => \A e \in R[ListenSocket] : e.pkt.type # "CXN",
           NEW q, InQueues(q, R), Ordered(q),
           NEW to \in ClientSockets, NEW pkt \in Answers,
           child' = child => pkt.sequence # 1,
           NEW out, out = <<pkt>>, Sends(q, ListenSocket, to, out)
    PROVE  OneClientInv'
<1>1. PICK s : s = ForkedChild(sk, a)
  OBVIOUS
<1>2. /\ s # Unforked /\ s.mvState = "INIT" /\ s.mvFrom = 0 /\ s.mvSequence = 1
  <2>1. s # Unforked /\ s.mvState = "INIT"
    BY <1>1, ForkedChildFacts
  <2>2. QED
    BY <1>1, <2>1 DEF ForkedChild
<1>3. ASSUME NEW c \in Clients
      PROVE  ~(client[c].i >= 2) /\ ~(client[c].mvSequence >= 1)
  BY DEF OneClientInv, ClientIsServed
<1>4. \A x \in ClientSockets : \A e \in Expected(x) : e.from \notin Ports
  BY SenderIsTheChild
<1>5. /\ \A p \in Forked' : p = sk /\ child'[p] = s /\ ~listener'.cxn2
      /\ child' # child => Forked' # {}
  <2>1. \A p \in Ports : child[p] = Unforked
    BY DEF Forked
  <2>2. child = [p \in Ports |-> child[p]]
    BY DEF IInv, TypeOK
  <2>3. CASE child' = child
    BY <2>1, <2>3 DEF Forked
  <2>4. CASE child' = [child EXCEPT ![sk] = ForkedChild(sk, a)] /\ ~listener'.cxn2
    <3>1. child'[sk] = s /\ \A p \in Ports : p # sk => child'[p] = Unforked
      BY <1>1, <2>1, <2>2, <2>4
    <3>2. sk \in Forked'
      BY <1>2, <3>1 DEF Forked
    <3>3. \A p \in Forked' : p = sk
      BY <3>1 DEF Forked
    <3>4. QED
      BY <2>4, <3>1, <3>2, <3>3
  <2>5. QED
    BY <2>3, <2>4
<1>6. PICK G : G = ExpectedMap'
  OBVIOUS
<1>7. \A x \in Sockets : G[x] = Expected(x)'
  BY <1>6 DEF ExpectedMap
<1>8. ASSUME NEW x \in Sockets, NEW d \in R[x]
      PROVE  d \in G[x]
  <2>1. d \in Expected(x) /\ d \in Datagrams(x)
    BY DEF MailMap, Expected
  <2>2. CASE x \in ClientSockets
    <3>1. ToRead(x, d) /\ d.from \notin Ports
      BY <1>4, <2>1, <2>2 DEF Expected
    <3>2. ToRead(x, d)'
      BY <1>5, <3>1 DEF ToRead
    <3>3. QED
      BY <1>7, <2>1, <2>2, <3>2 DEF Expected, Datagrams, ToClient, ToServer
  <2>3. CASE x \notin ClientSockets
    <3>1. ToServe(x, d)
      BY <2>1, <2>3 DEF Expected
    <3>2. x = ListenSocket /\ d.pkt.type = "CXN" => Forked' = {}
      <4>1. child' = child => Forked' = {}
        BY DEF Forked
      <4>2. QED
        BY <1>8, <4>1
    <3>3. ToServe(x, d)'
      BY <3>1, <3>2 DEF ToServe
    <3>4. QED
      BY <1>7, <2>1, <2>3, <3>3 DEF Expected, Datagrams, ToClient, ToServer
  <2>4. QED
    BY <2>2, <2>3
<1>9. to \in Sockets /\ ListenSocket \in Sockets /\ ListenSocket \notin Ports
  BY SocketFacts
<1>10. /\ pkt \in ToClient /\ pkt.type = "RR"
       /\ Flipped \in ToClient /\ Flipped.type = "FLIPPED"
  BY AnswerFacts, FlippedFacts
<1>11. /\ Datagram(ListenSocket, pkt).from = ListenSocket
       /\ Datagram(ListenSocket, pkt).pkt = pkt
       /\ Datagram(ListenSocket, Flipped).from = ListenSocket
       /\ Datagram(ListenSocket, Flipped).pkt = Flipped
  BY DEF Datagram
<1>12. Datagram(ListenSocket, pkt) \in G[to] /\ Datagram(ListenSocket, Flipped) \in G[to]
  <2>1. /\ Datagram(ListenSocket, pkt) \in Datagrams(to)
        /\ Datagram(ListenSocket, Flipped) \in Datagrams(to)
    BY <1>9, <1>10 DEF Datagrams, Datagram
  <2>2. pkt.sequence = 1 => Forked' # {}
    BY <1>5
  <2>3. \A c \in Clients : \A d : ToCome(client[c], d)
    BY <1>3 DEF ToCome
  <2>4. /\ ToRead(to, Datagram(ListenSocket, pkt))'
        /\ ToRead(to, Datagram(ListenSocket, Flipped))'
    BY <1>9, <1>10, <1>11, <2>2, <2>3 DEF ToRead
  <2>5. QED
    BY <1>7, <1>9, <2>1, <2>4 DEF Expected, Datagrams, ToClient, ToServer
<1>13. ASSUME NEW d \in R[to]
       PROVE  MayFollow(d, Datagram(ListenSocket, pkt))
  <2>1. d.from \notin Ports
    BY <1>4, <1>9 DEF MailMap
  <2>2. QED
    BY <1>10, <1>11, <2>1 DEF MayFollow
<1>14. QueuesAreInOrder'
  <2>1. \/ out = <<>>
        \/ \E m : /\ out = <<m>>
                  /\ Datagram(ListenSocket, m) \in G[to]
                  /\ Datagram(ListenSocket, Flipped) \in G[to]
                  /\ \A d \in R[to] : MayFollow(d, Datagram(ListenSocket, m))
    BY <1>12, <1>13
  <2>2. faults \in Nat /\ \A x \in Sockets : R[x] \subseteq G[x]
    BY <1>8 DEF IInv, TypeOK
  <2>3. QED
    BY <1>6, <1>9, <2>1, <2>2, AnswersInOrder
<1>15. OneChild'
  BY <1>5 DEF OneChild
<1>16. ASSUME NEW c \in Clients
       PROVE  ClientIsServed(client[c])'
  <2>1. ClientIsServed(client[c])
    BY DEF OneClientInv
  <2>2. QED
    BY <1>3, <2>1 DEF ClientIsServed
<1>17. ASSUME NEW c \in Clients, NEW p \in Forked'
       PROVE  ChildServes(child[p], client[c])'
  <2>1. client[c].i \in Int
    <3>1. client[c] \in ClientRecord(c)
      BY DEF IInv, TypeOK
    <3>2. QED
      BY <3>1 DEF ClientRecord
  <2>2. client[c].i <= s.mvSequence + 1
    BY <1>2, <1>3, <2>1
  <2>3. ~Transferring(s)
    BY <1>2 DEF Transferring
  <2>4. HasTaken(s)
    BY <1>2 DEF HasTaken
  <2>5. ChildServes(s, client[c])
    BY <1>2, <2>2, <2>3, <2>4 DEF ChildServes
  <2>6. child'[p] = s
    BY <1>5
  <2>7. QED
    BY <2>5, <2>6 DEF ChildServes
<1>18. QED
  BY <1>14, <1>15, <1>16, <1>17 DEF OneClientInv

LEMMA ListenerReceivesInOrder ==
    ASSUME IInv, OneClientInv, OneClientInOrder, ListenerReceives
    PROVE  OneClientInv'
<1>1. PICK x : x = ListenSocket
  OBVIOUS
<1>2. PICK d : d = Head(inbox[x])
  OBVIOUS
<1>3. x \in Sockets /\ x \notin ClientSockets /\ Readable(x) /\ client' = client
  BY <1>1, SocketFacts DEF ListenerReceives
<1>4. PICK F : F = MailMap
  OBVIOUS
<1>5. PICK R : R = [F EXCEPT ![x] = {e \in F[x] : MayFollow(d, e)}]
  OBVIOUS
<1>6. InQueues(Received(x), R) /\ Ordered(Received(x)) /\ d \in F[x]
  <2>1. F = [y \in Sockets |-> F[y]] /\ InQueues(inbox, F) /\ Ordered(inbox)
    BY <1>4, MailWaitsInOrder DEF MailMap
  <2>2. inbox[x] # <<>>
    BY <1>3 DEF Readable
  <2>3. QED
    BY <1>2, <1>3, <1>5, <2>1, <2>2, ReceivedInOrder
<1>7. /\ \A y \in Sockets : R[y] \subseteq MailMap[y]
      /\ \A e \in R[x] : MayFollow(d, e)
  BY <1>3, <1>4, <1>5 DEF MailMap
<1>8. d \in Post(x) /\ ToServe(x, d)
  BY <1>3, <1>4, <1>6 DEF MailMap, Expected
<1>9. PICK c \in Clients : SentByClient(c, x, d)
  BY <1>1, <1>8, ServerMail
<1>10. /\ d.from = OldSocket(c) /\ d.from \in ClientSockets
       /\ d.pkt.type \in {"CXN", "CXN2", "FLIPPED"}
       /\ d.pkt.type = "CXN" => Forked = {} /\ d.pkt.sequence = 0
       /\ d.pkt.type = "CXN2" => d.pkt.sequence = 1
  BY <1>1, <1>8, <1>9, SocketFacts DEF SentByClient, ToServe
<1>11. InQueues(Received(x), F)
  <2>1. \A y \in Sockets : R[y] \subseteq F[y]
    BY <1>4, <1>7
  <2>2. QED
    BY <1>6, <2>1, QueuesWiden
<1>12. CASE ~Intact(d.pkt)
  <2>1. inbox' = Received(x) /\ UNCHANGED procVars
    BY <1>1, <1>2, <1>3, <1>12 DEF ListenerReceives, procVars
  <2>2. InQueues(inbox', F) /\ Ordered(inbox')
    BY <1>6, <1>11, <2>1
  <2>3. QED
    BY <1>4, <2>1, <2>2, ProcessesStayInOrder
<1>13. CASE Intact(d.pkt)
  <2>1. PICK port \in GetSocket(d.pkt) :
           LET step == RunStep(listener, d.pkt, port)
           IN  /\ listener' = step.server
               /\ fresh' = fresh \ {port}
               /\ child' = IF step.fork
                           THEN [child EXCEPT ![listener.sk] =
                                    ForkedChild(listener.sk, d.from)]
                           ELSE child
               /\ Sends(Received(x), x, d.from, step.out)
    BY <1>1, <1>2, <1>13 DEF ListenerReceives
  <2>2. PICK pkt : pkt = d.pkt
    OBVIOUS
  <2>3. PICK l : l = listener
    OBVIOUS
  <2>4. PICK step : step = RunStep(l, pkt, port)
    OBVIOUS
  <2>5. /\ listener' = step.server /\ fresh' = fresh \ {port}
        /\ child' = IF step.fork
                    THEN [child EXCEPT ![l.sk] = ForkedChild(l.sk, d.from)]
                    ELSE child
        /\ Sends(Received(x), x, d.from, step.out)
    BY <2>1, <2>2, <2>3, <2>4
  <2>6. l \in [cxn2: BOOLEAN, sk: Ports \union {Nothing},
               outpkt: Answers \union {Unwritten}]
    BY <2>3 DEF IInv, TypeOK
  <2>7. pkt.type \in {"CXN", "CXN2"}
    BY <1>10, <1>13, <2>2 DEF Intact
  <2>8. /\ pkt.type = "CXN" => ~step.fork /\ step.out = <<portpkt(0, port)>>
        /\ pkt.type = "CXN2" /\ l.cxn2 =>
              step.fork /\ ~step.server.cxn2 /\ step.out = <<rrpkt(1)>>
        /\ pkt.type = "CXN2" /\ ~l.cxn2 =>
              ~step.fork /\ step.server = l /\ step.out = <<>>
    <3>1. (pkt.type = "CXN" => pkt.sequence = 0) /\ (pkt.type = "CXN2" => pkt.sequence = 1)
      BY <1>10, <2>2
    <3>2. QED
      BY <2>4, <2>6, <3>1, RunStepOnRequests
  <2>9. /\ InQueues(Received(x), R) /\ Ordered(Received(x))
        /\ \A y \in Sockets : R[y] \subseteq MailMap[y]
    BY <1>6, <1>7
  <2>10. PICK out : out = step.out
    OBVIOUS
  <2>11. Sends(Received(x), ListenSocket, d.from, out)
    BY <1>1, <2>5, <2>10
  <2>12. CASE pkt.type = "CXN"
    <3>1. Forked = {} /\ child' = child /\ out = <<portpkt(0, port)>>
      BY <1>10, <2>2, <2>5, <2>8, <2>10, <2>12
    <3>2. port \in Ports
      BY <2>1, <2>2, <2>12 DEF GetSocket, IInv, TypeOK
    <3>3. PICK m : m = portpkt(0, port)
      OBVIOUS
    <3>4. m \in Answers /\ m.sequence # 1
      <4>1. m.sequence = 0
        BY <3>3 DEF portpkt, rrpkt
      <4>2. QED
        BY <3>2, <3>3, <4>1, AnswerFacts
    <3>5. out = <<m>>
      BY <3>1, <3>3
    <3>6. QED
      BY <1>3, <1>10, <2>9, <2>11, <3>1, <3>2, <3>4, <3>5, ListenerMovesInOrder
  <2>13. CASE pkt.type = "CXN2" /\ l.cxn2
    <3>1. PICK sk : sk = l.sk
      OBVIOUS
    <3>2. Forked = {} /\ sk \in Ports
      BY <2>3, <2>13, <3>1 DEF OneClientInv, OneChild, IInv, ListenerIsSound
    <3>3. PICK m : m = rrpkt(1)
      OBVIOUS
    <3>4. m \in Answers
      BY <3>3, AnswerFacts
    <3>5. /\ child' = [child EXCEPT ![sk] = ForkedChild(sk, d.from)]
          /\ ~listener'.cxn2 /\ out = <<m>>
      BY <2>5, <2>8, <2>10, <2>13, <3>1, <3>3
    <3>6. child' # child
      <4>1. child[sk] = Unforked /\ child = [p \in Ports |-> child[p]]
        BY <3>2 DEF Forked, IInv, TypeOK
      <4>2. ForkedChild(sk, d.from) # Unforked
        BY <1>10, ForkedChildFacts
      <4>3. QED
        BY <3>2, <3>5, <4>1, <4>2
    <3>7. \A e \in R[ListenSocket] : e.pkt.type # "CXN"
      BY <1>1, <1>7, <2>2, <2>13 DEF MayFollow
    <3>8. QED
      BY <1>3, <1>10, <2>9, <2>11, <3>2, <3>4, <3>5, <3>6, <3>7, ListenerMovesInOrder
  <2>14. CASE pkt.type = "CXN2" /\ ~l.cxn2
    <3>1. /\ listener' = listener /\ child' = child /\ out = <<>>
      BY <2>3, <2>5, <2>8, <2>10, <2>14
    <3>2. fresh' = fresh
      <4>1. port = Nothing /\ fresh \subseteq Ports
        BY <2>1, <2>2, <2>14 DEF GetSocket, IInv, TypeOK
      <4>2. QED
        BY <2>5, <4>1, NothingIsNoPort
    <3>3. inbox' = Received(x)
      BY <2>11, <3>1 DEF Sends
    <3>4. UNCHANGED procVars
      BY <1>3, <3>1, <3>2 DEF procVars
    <3>5. InQueues(inbox', F) /\ Ordered(inbox')
      BY <1>6, <1>11, <3>3
    <3>6. QED
      BY <1>4, <3>4, <3>5, ProcessesStayInOrder
  <2>15. QED
    BY <2>7, <2>12, <2>13, <2>14
<1>14. QED
  BY <1>12, <1>13

-----------------------------------------------------------------------------
(* The invariant *)

\* Before anything is sent nothing waits, and there is no child.
LEMMA InitIsInOrder == Init => OneClientInv
<1> SUFFICES ASSUME Init
             PROVE  OneClientInv
  OBVIOUS
<1>1. Forked = {} /\ ~listener.cxn2
  BY DEF Init, Forked, NewListener
<1>2. QueuesAreInOrder
  <2>1. \A s \in Sockets : inbox[s] = <<>>
    BY DEF Init, NetworkInit
  <2>2. QED
    BY <2>1, EmptySeq, EmptyIsInOrder DEF QueuesAreInOrder
<1>3. OneChild
  BY <1>1 DEF OneChild
<1>4. ASSUME NEW c \in Clients
      PROVE  ClientIsServed(client[c])
  <2>1. PICK s : s = client[c]
    OBVIOUS
  <2>2. s = NewClient(c)
    BY <2>1 DEF Init
  <2>3. s.i = -1 /\ s.mvSequence = 0 /\ s.mvTo = <<>> /\ s.mvState = "INIT"
    BY <2>2 DEF NewClient
  <2>4. HasPrefix(s)
    BY <2>3, EmptySeq DEF HasPrefix
  <2>5. KnowsTheEnd(s)
    BY <2>3, FileAssumption DEF KnowsTheEnd
  <2>6. QED
    BY <2>1, <2>3, <2>4, <2>5 DEF ClientIsServed
<1>5. QED
  BY <1>1, <1>2, <1>3, <1>4 DEF OneClientInv

\* Every step keeps it.
LEMMA NextIsInOrder ==
    ASSUME IInv, OneClientInv, OneClientInOrder, [Next]_vars
    PROVE  OneClientInv'
<1>1. IInv'
  BY NextIsSound
<1>2. ASSUME NEW c \in Clients, ClientStep(c)
      PROVE  OneClientInv'
  <2>1. ClientExits(c) => OneClientInv'
    BY ExitsInOrder DEF ClientExits
  <2>2. QED
    BY <1>1, <1>2, <2>1, ConnectsInOrder, ClientReceivesInOrder,
       ClientTimeoutInOrder DEF ClientStep
<1>3. ASSUME NEW p \in Ports, ChildStep(p)
      PROVE  OneClientInv'
  <2>1. ChildExits(p) => OneClientInv'
    BY ExitsInOrder DEF ChildExits
  <2>2. QED
    BY <1>3, <2>1, ChildReceivesInOrder, ChildTimeoutInOrder, FillsWindowInOrder,
       SendsWindowInOrder, HasSentInOrder DEF ChildStep
<1>4. ListenerReceives => OneClientInv'
  BY ListenerReceivesInOrder
<1>5. Tick => OneClientInv'
  BY WaitsInOrder DEF Tick, SecondPasses
<1>6. NetworkActs => OneClientInv'
  BY NetworkKeepsOrder, WaitsInOrder
<1>7. Terminated \/ UNCHANGED vars => OneClientInv'
  BY WaitsInOrder DEF Terminated, vars, procVars
<1>8. QED
  BY <1>2, <1>3, <1>4, <1>5, <1>6, <1>7 DEF Next

-----------------------------------------------------------------------------
(* A client's step as a step of the copy that FileTransfer promises *)

\* Only a running client's file grows.
LEMMA GrowthIsCopyStep ==
    ASSUME NEW c \in Clients, ClientRunning(client[c]),
           client[c] \in ClientRecord(c), CopyGrows(client[c], client'[c])
    PROVE  [Copy(c)!Next]_(Copy(c)!vars)
<1>1. PICK v : v = client[c]
  OBVIOUS
<1>2. PICK t : t = client'[c]
  OBVIOUS
<1>3. Verdict(v) = "none"
  <2>1. ClientRunning(v) /\ v.mvState # "DONE"
    BY <1>1 DEF ClientRunning
  <2>2. QED
    BY <2>1 DEF Verdict
<1>4. CASE t.mvTo = v.mvTo /\ t.mvState # "DONE"
  <2>1. Verdict(t) \in {"none", "failed"}
    BY <1>4 DEF Verdict
  <2>2. QED
    BY <1>1, <1>2, <1>3, <1>4, <2>1 DEF Copy!Next, Copy!GiveUp, Copy!vars
<1>5. CASE /\ Len(v.mvTo) <= LastBlock
           /\ t.mvTo = Append(v.mvTo, Len(v.mvTo))
           /\ t.mvRetries > 0
           /\ t.mvState = IF Len(v.mvTo) = LastBlock THEN "DONE"
                                                     ELSE "RECV_PACKETS"
  <2>1. Verdict(t) = IF Len(v.mvTo) = LastBlock THEN "success" ELSE "none"
    BY <1>5 DEF Verdict, ClientRunning
  <2>2. QED
    BY <1>1, <1>2, <1>3, <1>5, <2>1 DEF Copy!Next, Copy!Write, Copy!vars
<1>6. QED
  BY <1>1, <1>2, <1>4, <1>5 DEF CopyGrows

\* A client whose record does not change shows nothing.
LEMMA SameClientStutters ==
    ASSUME NEW c \in Clients, client'[c] = client[c]
    PROVE  UNCHANGED Copy(c)!vars
  BY DEF Copy!vars

\* Its first packet changes neither file nor verdict.
LEMMA ConnectStutters ==
    ASSUME NEW c \in Clients, client[c] \in ClientRecord(c),
           client' = [client EXCEPT ![c].i = 0],
           client = [d \in Clients |-> client[d]]
    PROVE  UNCHANGED Copy(c)!vars
<1>1. PICK v : v = client[c]
  OBVIOUS
<1>2. PICK t : t = [v EXCEPT !.i = 0]
  OBVIOUS
<1>3. client'[c] = t
  BY <1>1, <1>2
<1>4. t.mvTo = v.mvTo /\ t.mvState = v.mvState /\ t.mvRetries = v.mvRetries
  BY <1>1, <1>2 DEF ClientRecord
<1>5. Verdict(t) = Verdict(v)
  BY <1>4 DEF Verdict, ClientRunning
<1>6. QED
  BY <1>1, <1>3, <1>4, <1>5 DEF Copy!vars

\* Whatever step a session takes, each client's part in it is a step of a copy.
LEMMA StepCopies ==
    ASSUME IInv, OneClientInv, OneClientInOrder, FileBelow4GiB, [Next]_vars,
           NEW c \in Clients
    PROVE  [Copy(c)!Next]_(Copy(c)!vars)
<1>1. IInv'
  BY NextIsSound
<1>2. client[c] \in ClientRecord(c) /\ client = [d \in Clients |-> client[d]]
  BY DEF IInv, TypeOK
<1>3. CASE ClientConnects(c)
  BY <1>2, <1>3, ConnectStutters DEF ClientConnects
<1>4. CASE ClientReceives(c)
  <2>1. ClientRunning(client[c]) /\ CopyGrows(client[c], client'[c])
    BY <1>1, <1>4, ClientReceivesInOrder DEF ClientReceives
  <2>2. QED
    BY <1>2, <2>1, GrowthIsCopyStep
<1>5. CASE ClientTimesOut(c)
  <2>1. ClientRunning(client[c]) /\ CopyGrows(client[c], client'[c])
    BY <1>1, <1>5, ClientTimeoutInOrder DEF ClientTimesOut
  <2>2. QED
    BY <1>2, <2>1, GrowthIsCopyStep
<1>6. ClientStep(c) => ClientConnects(c) \/ ClientReceives(c) \/ ClientTimesOut(c)
                       \/ UNCHANGED client
  BY DEF ClientStep, ClientExits, procVars
<1>7. (\E p \in Ports : ChildStep(p)) => UNCHANGED client
  BY DEF ChildStep, ChildReceives, ChildTimesOut, ChildReplies, ChildFillsWindow,
         ChildSends, ChildHasSent, ChildExits, procVars
<1>8. ListenerReceives \/ Tick \/ NetworkActs \/ Terminated \/ UNCHANGED vars
        => UNCHANGED client
  BY DEF ListenerReceives, Tick, NetworkActs, Terminated, procVars, vars
<1>9. (\E d \in Clients : ClientStep(d)) => ClientStep(c)
  BY DEF OneClientInOrder
<1>10. UNCHANGED client => UNCHANGED Copy(c)!vars
  BY SameClientStutters
<1>11. QED
  BY <1>3, <1>4, <1>5, <1>6, <1>7, <1>8, <1>9, <1>10 DEF Next

-----------------------------------------------------------------------------
(* The theorems *)

\* While one client runs and nothing is doubled or swapped, the session keeps
\* the order that rcopy relies on: it gets the server's answers, the child's and
\* the blocks one after the other, from one child, whatever is dropped, flipped
\* or late (Client.cpp:205-251, 270-286, Server.cpp:118-189, 281-314).
THEOREM OneClientIsServed ==
    ASSUME OneClientInOrder
    PROVE  Spec => []OneClientInv
<1>1. Init => IInv /\ OneClientInv
  BY InitIsSound, InitIsInOrder
<1>2. IInv /\ OneClientInv /\ [Next]_vars => (IInv /\ OneClientInv)'
  BY NextIsSound, NextIsInOrder
<1>3. QED
  BY <1>1, <1>2, PTL DEF Spec

\* Of the packets that rcopy takes for confirmed the child has processed all but
\* the last: one that rcopy has left behind in init lacks the file's name, and no
\* more than that (Client.cpp:208-250, Server.cpp:281-314).
THEOREM HandshakeStaysInStep ==
    ASSUME OneClientInOrder
    PROVE  Spec => []HandshakeIsInStep
<1>1. IInv /\ OneClientInv => HandshakeIsInStep
  <2> SUFFICES ASSUME IInv, OneClientInv, NEW c \in Clients, NEW p \in Ports,
                      child[p] # Unforked, child[p].mvState = "INIT"
               PROVE  /\ client[c].i <= child[p].mvSequence + 1
                      /\ \A n \in 2 .. client[c].i - 2 :
                            InitPacket(n, c).type \in child[p].have
    BY DEF HandshakeIsInStep
  <2>1. HasTaken(child[p]) /\ client[c].i <= child[p].mvSequence + 1
    BY DEF OneClientInv, Forked, ChildServes
  <2>2. client[c].i \in -1 .. 5 /\ child[p].mvSequence \in Nat
    <3>1. client[c] \in ClientRecord(c) /\ ChildReady(p, child[p])
      BY ChildFacts DEF IInv, TypeOK
    <3>2. QED
      BY <3>1 DEF ClientRecord, ChildReady, ChildRecord
  <2>3. ASSUME NEW n \in 2 .. client[c].i - 2
        PROVE  InitPacket(n, c).type \in child[p].have
    <3>1. n \in 2 .. 4 /\ n < child[p].mvSequence
      BY <2>1, <2>2
    <3>2. InitPacket(n, c).type = InitPacket(n, Fill).type
      BY DEF InitPacket
    <3>3. QED
      BY <2>1, <3>1, <3>2 DEF HasTaken
  <2>4. QED
    BY <2>1, <2>3
<1>2. QED
  BY <1>1, SessionIsSound, OneClientIsServed, PTL

\* The local file is a prefix of the remote one although recvPackets writes a
\* packet of any type and answers of init may still be on the way when it starts
\* (Client.cpp:242-251, 270-286).
THEOREM FilesStayPrefixes ==
    ASSUME OneClientInOrder, FileBelow4GiB
    PROVE  Spec => []FilesArePrefixes
<1>1. OneClientInv => FilesArePrefixes
  BY DEF OneClientInv, ClientIsServed, FilesArePrefixes
<1>2. QED
  BY <1>1, OneClientIsServed, PTL

\* The session implements the copy a user is promised, from the start of rcopy
\* to its exit: it writes the next block, or gives up, or shows nothing, and what
\* Run prints at the end is true (Client.cpp:76-103, 189-286).
THEOREM SessionImplementsCopy ==
    ASSUME OneClientInOrder, FileBelow4GiB
    PROVE  Spec => CopiesEveryFile
<1> DEFINE Start == \A c \in Clients : Copy(c)!Init
           Step == \A c \in Clients : [Copy(c)!Next]_(Copy(c)!vars)
<1>1. Init => Start
  <2> SUFFICES ASSUME Init, NEW c \in Clients
               PROVE  Copy(c)!Init
    OBVIOUS
  <2>1. client[c] = NewClient(c)
    BY DEF Init
  <2>2. Verdict(NewClient(c)) = "none" /\ NewClient(c).mvTo = <<>>
    BY RetriesAssumption DEF NewClient, Verdict, ClientRunning
  <2>3. QED
    BY <2>1, <2>2 DEF Copy!Init
<1>2. IInv /\ OneClientInv /\ [Next]_vars => [Step]_vars
  BY StepCopies
<1>3. Spec => [](IInv /\ OneClientInv)
  BY SessionIsSound, OneClientIsServed, PTL
<1>4. QED
  BY <1>1, <1>2, <1>3, PTL DEF Spec, CopiesEveryFile

=============================================================================
