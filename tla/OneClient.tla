----------------------------- MODULE OneClient ------------------------------
(***************************************************************************)
(* What holds of a session besides Session's IInv while one client runs    *)
(* and the network delivers in order and once, as a loopback does: the     *)
(* inductive invariant behind FilesArePrefixes and HandshakeIsInStep.      *)
(***************************************************************************)
EXTENDS Session

\* One client at most, and no fault that doubles or swaps datagrams.
OneClientInOrder ==
    /\ \A c, d \in Clients : c = d
    /\ Faults \intersect {"dup", "reorder"} = {}

Forked == {p \in Ports : child[p] # Unforked}

\* The order in a queue: behind a CXN2 no CXN comes, behind what a child sent
\* nothing the server's loop sent, and behind a data packet only such packets.
MayFollow(d, e) ==
    /\ d.pkt.type = "CXN2" => e.pkt.type # "CXN"
    /\ d.from \in Ports =>
          /\ e.from # ListenSocket
          /\ d.pkt.type = "DAT" => e.pkt.type \in {"DAT", "FLIPPED"}

InOrder(q) == \A i, j \in 1 .. Len(q) : i < j => MayFollow(q[i], q[j])

\* What the child in state s has sent: in init no RR or REJ above the packet it
\* waits for, after init true blocks.
ChildWrote(s, pkt) ==
    /\ s # Unforked
    /\ pkt.type \in {"RR", "REJ"} /\ s.mvState = "INIT" =>
          pkt.sequence <= s.mvSequence
    /\ pkt.type = "DAT" =>
          /\ s.mvState # "INIT"
          /\ FileBelow4GiB => pkt = datpkt(pkt.sequence, pkt.sequence)

\* What the client in state s has still to read: nothing from the server's loop
\* once init confirms packet 2, and nothing of init once a block is written.
ToCome(s, d) ==
    /\ s.i >= 2 => d.from \in Ports
    /\ s.mvSequence >= 1 => d.pkt.type \in {"DAT", "FLIPPED"}

\* What may lie in the queue of a client's socket s: an RR for a CXN2 only
\* after the fork.
ToRead(s, d) ==
    /\ d.from \in Ports => ChildWrote(child[d.from], d.pkt)
    /\ d.from = ListenSocket /\ d.pkt.type = "RR" /\ d.pkt.sequence = 1 =>
          Forked # {}
    /\ \A c \in Clients : client[c].mvSocket = s => ToCome(client[c], d)

\* A packet that init builds, under its own number.
OfInit(pkt) ==
    \E n \in 0 .. 4 : pkt.sequence = n /\ pkt.type = InitPacket(n, Fill).type

\* And in the queue of the server or a child: no CXN once there is a child.
ToServe(s, d) ==
    /\ d.pkt.type \notin {"RR", "REJ", "FLIPPED"} => OfInit(d.pkt)
    /\ s = ListenSocket =>
          /\ d.pkt.type \in {"CXN", "CXN2", "FLIPPED"}
          /\ d.pkt.type = "CXN" => Forked = {}
    /\ d.pkt.type = "REJ" => \A c \in Clients : d.pkt.sequence <= client[c].mvSequence

Expected(s) ==
    {d \in Datagrams(s) :
        IF s \in ClientSockets THEN ToRead(s, d) ELSE ToServe(s, d)}

QueuesAreInOrder ==
    \A s \in Sockets : inbox[s] \in Seq(Expected(s)) /\ InOrder(inbox[s])

\* At most one child is forked, and none while a CXN2 is awaited.
OneChild ==
    /\ \A p, q \in Forked : p = q
    /\ listener.cxn2 => Forked = {}

\* A client that confirms packet 2 talks to a child; its child has left init
\* when it has written a block.
ClientIsServed(s) ==
    /\ s.i >= 2 => Forked # {} /\ s.mvAddr \in Ports
    /\ s.mvSequence >= 1 => \E p \in Forked : child[p].mvState # "INIT"
    /\ FileBelow4GiB => HasPrefix(s) /\ KnowsTheEnd(s)

\* The window and what is still to be sent are the file's blocks around block
\* n, which the client expects.
TrueWindow(s, n) == Contiguous(s) /\ WindowBase(s) <= n /\ SendsWithin(s, n)

\* A child in init has read nothing, and processed what is numbered below the
\* packet it waits for.
HasTaken(s) ==
    /\ s.mvFrom = 0
    /\ \A n \in 2 .. 4 : n < s.mvSequence => InitPacket(n, Fill).type \in s.have

\* Client c is at most a packet ahead of a child s in init; later s's window
\* is true.
ChildServes(s, c) ==
    /\ s.mvState = "INIT" => HasTaken(s) /\ c.i <= s.mvSequence + 1
    /\ FileBelow4GiB /\ Transferring(s) => TrueWindow(s, c.mvSequence)

\* The inductive invariant: the answers to the handshake and the blocks of the
\* file come one after the other, so rcopy, which looks at no packet's type,
\* writes the blocks and nothing else (Client.cpp:205-251, 270-286).
OneClientInv ==
    /\ QueuesAreInOrder
    /\ OneChild
    /\ \A c \in Clients : ClientIsServed(client[c])
    /\ \A c \in Clients : \A p \in Forked : ChildServes(child[p], client[c])

=============================================================================
