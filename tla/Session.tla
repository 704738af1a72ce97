------------------------------- MODULE Session -------------------------------
(***************************************************************************)
(* The whole program: a server process in Server::Run, the children it     *)
(* forks, and rcopy processes that connect to it, over UDP.  Every process *)
(* goes from its first packet to its exit; the handlers are those of       *)
(* modules Handshake, Client and Server.                                   *)
(*                                                                         *)
(* A client has two sockets, the one its constructor made and the one init *)
(* makes for talking to the child.  open holds the sockets a process will  *)
(* still read: the first one is never read again once init has switched to *)
(* the second, and a port no child was forked with is read by nobody (the  *)
(* server keeps it open, so what is sent there is lost without an error).  *)
(***************************************************************************)
EXTENDS Handshake, Network, FiniteSets

CONSTANTS
    Clients,        \* rcopy processes
    ListenSocket,   \* the server's socket
    Ports,          \* the ports the system chooses from for children
    Files           \* names that can be opened; a client asks for its own name

OldSocket(c) == <<c, "old">>
NewSocket(c) == <<c, "new">>
ClientSockets == {OldSocket(c) : c \in Clients} \union {NewSocket(c) : c \in Clients}

ASSUME SessionAssumption ==
    /\ ListenSocket \notin Ports
    /\ Sockets = {ListenSocket} \union Ports \union ClientSockets
    /\ ({ListenSocket} \union Ports) \intersect ClientSockets = {}
    /\ Files \subseteq Clients

VARIABLES
    client,     \* [Clients -> state of rcopy]
    listener,   \* state of the server's loop
    child,      \* [Ports -> state of the child forked with it]
    fresh       \* ports not chosen yet

procVars == <<client, listener, child, fresh>>
vars == <<client, listener, child, fresh, inbox, open, due, faults>>

\* No socket was made yet; no child was forked with this port; outpkt was not
\* written yet.
Nothing == "nothing"
Unforked == [mvState |-> Nothing]
Unwritten == [type |-> Nothing]

ASSUME NothingIsNoPort == Nothing \notin Ports

\* A client whose constructor has run; i is -1 until it has sent anything.
NewClient(c) ==
    [mvState |-> "INIT", mvSequence |-> 0, mvRetries |-> PKT_TRNSMAX,
     mvAddr |-> ListenSocket, mvTo |-> <<>>, mvSocket |-> OldSocket(c),
     i |-> -1, addr |-> Nothing]

NewListener == [cxn2 |-> FALSE, sk |-> Nothing, outpkt |-> Unwritten]

Init ==
    /\ client = [c \in Clients |-> NewClient(c)]
    /\ listener = NewListener
    /\ child = [p \in Ports |-> Unforked]
    /\ fresh = Ports
    /\ NetworkInit({ListenSocket} \union {OldSocket(c) : c \in Clients})

\* Sends the reply, if there is one, over the queues the step left.
Sends(queues, from, to, out) ==
    IF out = <<>> THEN inbox' = queues /\ UNCHANGED faults
                  ELSE SendtoErr(queues, from, to, Head(out))

-----------------------------------------------------------------------------
(* rcopy.  Its first packet goes out when it is started. *)

ClientConnects(c) ==
    /\ client[c].i = -1
    /\ client' = [client EXCEPT ![c].i = 0]
    /\ SendtoErr(inbox, OldSocket(c), ListenSocket, InitPacket(0, c))
    /\ UNCHANGED <<listener, child, fresh, open, due>>

\* recvPacket returned 2, and returned 0 with pkt.
ClientFails(c, s) ==
    IF s.mvState = "INIT" THEN ClientInitFailed(s, c) ELSE RecvPacketsFailed(s)
ClientTakes(c, s, pkt) ==
    IF s.mvState = "INIT" THEN ClientInit(s, pkt, NewSocket(c), c)
                          ELSE RecvPackets(s, pkt)

\* The client moves to another socket, or stays.
Switches(from, to) ==
    /\ open' = (open \ {from}) \union {to}
    /\ due' = due \ {from}

ClientReplies(c, reply, queues) ==
    LET from == client[c].mvSocket
        to == reply.client.mvSocket
    IN  /\ client' = [client EXCEPT ![c] = reply.client]
        /\ Switches(from, to)
        /\ Sends(IF from = to THEN queues ELSE [queues EXCEPT ![from] = <<>>],
                 to, reply.client.mvAddr, reply.out)
        /\ UNCHANGED <<listener, child, fresh>>

ClientReceives(c) ==
    LET s == client[c].mvSocket
        d == Head(inbox[s])
        t == ClientReceived(client[c], d)
    IN  /\ ClientRunning(client[c]) /\ client[c].i >= 0
        /\ Readable(s)
        /\ ClientReplies(c, IF Intact(d.pkt) THEN ClientTakes(c, t, d.pkt)
                                             ELSE ClientFails(c, t),
                         Received(s))

ClientTimesOut(c) ==
    /\ ClientRunning(client[c]) /\ client[c].i >= 0
    /\ client[c].mvSocket \in due
    /\ ClientReplies(c, ClientFails(c, ClientTimedOut(client[c])), inbox)

ClientExits(c) ==
    /\ ~ClientRunning(client[c])
    /\ client[c].mvSocket \in open
    /\ Close({client[c].mvSocket})
    /\ UNCHANGED <<procVars, faults>>

-----------------------------------------------------------------------------
(* The server.  A bad checksum is ignored. *)

\* GetSocket binds a port of the system's choice, on a CXN only.
GetSocket(pkt) == IF pkt.type = "CXN" THEN fresh ELSE {Nothing}

ListenerReceives ==
    /\ Readable(ListenSocket)
    /\ LET d == Head(inbox[ListenSocket])
           queues == Received(ListenSocket)
       IN  IF ~Intact(d.pkt)
           THEN /\ inbox' = queues
                /\ UNCHANGED <<listener, child, fresh, open, faults>>
           ELSE \E port \in GetSocket(d.pkt) :
                   LET step == RunStep(listener, d.pkt, port)
                   IN  /\ listener' = step.server
                       /\ fresh' = fresh \ {port}
                       /\ child' = IF step.fork
                                   THEN [child EXCEPT ![listener.sk] =
                                            ForkedChild(listener.sk, d.from)]
                                   ELSE child
                       /\ open' = IF step.fork THEN open \union {listener.sk}
                                               ELSE open
                       /\ Sends(queues, ListenSocket, d.from, step.out)
    /\ UNCHANGED <<client, due>>

-----------------------------------------------------------------------------
(* The children *)

\* A handler's outcome: the child's state and what it sends.
ChildFails(s) ==
    IF s.mvState = "INIT" THEN ChildInitFailed(s, Files)
                          ELSE [child |-> WaitRRFailed(s), out |-> <<>>]
ChildTakes(s, pkt) ==
    IF s.mvState = "INIT" THEN ChildInit(s, pkt, Files)
                          ELSE [child |-> WaitRR(s, pkt), out |-> <<>>]

ChildReplies(p, reply, queues) ==
    /\ child' = [child EXCEPT ![p] = reply.child]
    /\ due' = due \ {p}
    /\ Sends(queues, p, reply.child.mvAddr, reply.out)
    /\ UNCHANGED <<client, listener, fresh, open>>

ChildAlive(p) == child[p] # Unforked /\ ChildRunning(child[p])
ChildWaits(p) == ChildAlive(p) /\ child[p].mvState \in {"INIT", "WAIT_RR"}

ChildReceives(p) ==
    LET d == Head(inbox[p])
        s == ChildReceived(child[p], d)
    IN  /\ ChildWaits(p)
        /\ Readable(p)
        /\ ChildReplies(p, IF Intact(d.pkt) THEN ChildTakes(s, d.pkt)
                                            ELSE ChildFails(s),
                        Received(p))

ChildTimesOut(p) ==
    /\ ChildWaits(p)
    /\ p \in due
    /\ ChildReplies(p, ChildFails(ChildTimedOut(child[p])), inbox)

ChildFillsWindow(p) ==
    /\ ChildAlive(p) /\ child[p].mvState = "FILL_WINDOW"
    /\ child' = [child EXCEPT ![p] = FillWindow(@)]
    /\ UNCHANGED <<client, listener, fresh, inbox, open, due, faults>>

ChildSends(p) ==
    /\ ChildAlive(p) /\ child[p].mvState = "SEND_WINDOW"
    /\ child[p].mvOutBuf # <<>>
    /\ child' = [child EXCEPT ![p] = PopOutBuf(@)]
    /\ SendtoErr(inbox, p, child[p].mvAddr, Head(child[p].mvOutBuf))
    /\ UNCHANGED <<client, listener, fresh, open, due>>

ChildHasSent(p) ==
    /\ ChildAlive(p) /\ child[p].mvState = "SEND_WINDOW"
    /\ child[p].mvOutBuf = <<>>
    /\ child' = [child EXCEPT ![p].mvState = "WAIT_RR"]
    /\ UNCHANGED <<client, listener, fresh, inbox, open, due, faults>>

ChildExits(p) ==
    /\ child[p] # Unforked /\ ~ChildRunning(child[p])
    /\ p \in open
    /\ Close({p})
    /\ UNCHANGED <<procVars, faults>>

-----------------------------------------------------------------------------

\* The sockets whose owners are in select(); the server waits without one.
Blocked ==
    /\ \A c \in Clients : client[c].mvSocket \in open =>
          ClientRunning(client[c]) /\ client[c].i >= 0
    /\ \A p \in Ports \intersect open : ChildWaits(p)

Tick == Blocked /\ SecondPasses(open \ {ListenSocket}) /\ UNCHANGED procVars

NetworkActs == NetworkStep(Sockets \ {ListenSocket}) /\ UNCHANGED procVars

\* The server never ends; everyone else has.
Terminated ==
    open = {ListenSocket} /\ inbox[ListenSocket] = <<>> /\ UNCHANGED vars

ClientStep(c) ==
    ClientConnects(c) \/ ClientReceives(c) \/ ClientTimesOut(c) \/ ClientExits(c)
ChildStep(p) ==
    \/ ChildReceives(p) \/ ChildTimesOut(p) \/ ChildFillsWindow(p)
    \/ ChildSends(p) \/ ChildHasSent(p) \/ ChildExits(p)

Next ==
    \/ \E c \in Clients : ClientStep(c)
    \/ \E p \in Ports : ChildStep(p)
    \/ ListenerReceives \/ Tick \/ NetworkActs \/ Terminated

Spec == Init /\ [][Next]_vars

\* Every process is scheduled and time passes.
Fairness ==
    /\ \A c \in Clients : WF_vars(ClientStep(c))
    /\ \A p \in Ports : WF_vars(ChildStep(p))
    /\ WF_vars(ListenerReceives)
    /\ WF_vars(Tick)

FairSpec == Spec /\ Fairness

-----------------------------------------------------------------------------
(* Properties *)

\* Packets that clients get, and that the server and its children get.
ToClient == [type: {"RR", "REJ", "DAT", "FLIPPED"}, sequence: Nat,
             size: Ports \union Nat, data: Int]
ToServer == [type: PacketType \union {"FLIPPED"}, sequence: Nat, size: Nat,
             data: Clients \union Int]
Datagrams(s) ==
    [from: Sockets, pkt: IF s \in ClientSockets THEN ToClient ELSE ToServer]

\* What Run ever answers.
Answers == {portpkt(0, p) : p \in Ports} \union {rrpkt(1)}

ClientRecord(c) ==
    [mvState: {"INIT", "RECV_PACKETS", "DONE", "ERROR"}, mvSequence: Nat,
     mvRetries: 0 .. PKT_TRNSMAX, mvAddr: {ListenSocket} \union Ports,
     mvTo: Seq(Int), mvSocket: {OldSocket(c), NewSocket(c)}, i: -1 .. 5,
     addr: Ports \union {Nothing}]
ChildRecord(p) ==
    [mvState: {"INIT", "FILL_WINDOW", "SEND_WINDOW", "WAIT_RR", "ERROR"},
     mvSequence: Nat, mvRetries: 0 .. PKT_TRNSMAX, mvAddr: ClientSockets,
     mvWindow: Seq(DataPacket), mvOutBuf: Seq(DataPacket), mvFrom: Nat,
     mvSocket: {p}, have: SUBSET Wanted, mvFromName: Clients \union {Fill}]

\* Types of the variables: a child talks to clients only, and never ends DONE.
TypeOK ==
    /\ client = [c \in Clients |-> client[c]]
    /\ \A c \in Clients : client[c] \in ClientRecord(c)
    /\ child = [p \in Ports |-> child[p]]
    /\ \A p \in Ports : child[p] = Unforked \/ child[p] \in ChildRecord(p)
    /\ listener \in [cxn2: BOOLEAN, sk: Ports \union {Nothing},
                     outpkt: Answers \union {Unwritten}]
    /\ inbox = [s \in Sockets |-> inbox[s]]
    /\ \A s \in Sockets : inbox[s] \in Seq(Datagrams(s))
    /\ fresh \subseteq Ports /\ open \subseteq Sockets /\ due \subseteq open
    /\ faults \in Nat

\* Every local file is a prefix of the remote one, also when packets of the
\* handshake are still on the way while the transfer runs (Client.cpp:270-286).
FilesArePrefixes == \A c \in Clients : HasPrefix(client[c])

\* Every client's copy, from the start of rcopy to its exit, is the copy a user
\* is promised (FileTransfer): it writes in order, and what Run prints at the
\* end is true (Client.cpp:76-103).
Copy(c) == INSTANCE FileTransfer WITH
               written <- client[c].mvTo, verdict <- Verdict(client[c])

CopiesEveryFile ==
    /\ \A c \in Clients : Copy(c)!Init
    /\ [][\A c \in Clients : [Copy(c)!Next]_(Copy(c)!vars)]_vars

Transferring(s) == s.mvState \in {"FILL_WINDOW", "SEND_WINDOW", "WAIT_RR"}

\* What has left a child's window was written by a client, although child and
\* client reset their sequence numbers at different times and packets of the
\* handshake reach waitRR (Server.cpp:335, 387-431, Client.cpp:247).
WindowReached(s) ==
    Transferring(s) =>
        \E c \in Clients : WindowBase(s) <= client[c].mvSequence

WindowsStayReachable ==
    \A p \in Ports : child[p] # Unforked => WindowReached(child[p])

\* It was written by the client that the child talks to: the RRs that were
\* skipped were that client's (Server.cpp:390-393).  With one client this is
\* WindowsStayReachable; two of them may get to the same child.
WindowsFitTheirClients ==
    \A p \in Ports : \A c \in Clients :
        /\ child[p] # Unforked
        /\ Transferring(child[p])
        /\ child[p].mvAddr \in {OldSocket(c), NewSocket(c)}
        => WindowBase(child[p]) <= client[c].mvSequence

\* Of the packets that rcopy takes for confirmed, the child it sends to has
\* processed all but the last, whatever late answers rcopy read.  In init that
\* one is not lost, since a REJ takes rcopy back; but rcopy may take the RR for a
\* repeated WIN for that of its FLN and leave init, and then nothing brings the
\* FLN back.  So a child that rcopy has left behind in init lacks the file's
\* name, and no more than that (Client.cpp:208-250, Server.cpp:281-314).
HandshakeIsInStep ==
    \A c \in Clients : \A p \in Ports :
        /\ client[c].mvAddr = p
        /\ child[p] # Unforked
        /\ child[p].mvState = "INIT"
        => /\ client[c].i <= child[p].mvSequence + 1
           /\ \A n \in 2 .. client[c].i - 2 : InitPacket(n, c).type \in child[p].have

\* A port never gets a second child: however often a CXN2 arrives, the server's
\* handling of a packet leaves every child there is alone, and no two processes
\* read the same socket (Server.cpp:148-152).
ChildrenShareNoPort ==
    [][\A p \in Ports : child[p] # Unforked /\ child'[p] # child[p]
            => inbox'[ListenSocket] = inbox[ListenSocket]]_vars

\* The socket made for a client's child is the one the child forked for that
\* client reads (Server.cpp:136-148, 164, Client.cpp:218).
ChildHasClientsPort ==
    \A p \in Ports : \A c \in Clients :
        child[p] # Unforked /\ child[p].mvAddr = OldSocket(c)
            => client[c].addr = p

\* rcopy ends: it reports success or gives up (Client.cpp:76-103).
CopyEnds == \A c \in Clients : <>(Verdict(client[c]) # "none")

\* Without faults a client whose CXN and CXN2 no other client's come between
\* gets the whole file, although several are served at once
\* (Client.cpp:76-101, 189-251, Server.cpp:118-189).
Connecting(c) == client[c].mvState = "INIT" /\ client[c].i \in {0, 1}
CopySucceeds ==
    \A c \in Files :
        [](\A d \in Clients \ {c} : ~(Connecting(c) /\ Connecting(d)))
            => <>(Verdict(client[c]) = "success")

\* No child stays behind when the clients have ended (Server.cpp:192-226).
ChildrenExit == \A p \in Ports : <>[](p \notin open)

-----------------------------------------------------------------------------
(* The inductive invariant: who may have sent what to whom. *)

\* An RR has told the client its child's port.
Told(c) == client[c].addr # Nothing

\* What may have been sent to client c's socket s: by the server the answers to
\* a CXN and a CXN2, by children only after the client was told a port, and
\* never an RR or a REJ numbered 0, which would take init back to the CXN.
SentToClient(c, s, d) ==
    /\ s \in {OldSocket(c), NewSocket(c)}
    /\ \/ /\ d.from = ListenSocket /\ s = OldSocket(c)
          /\ d.pkt \in Answers \union {Flipped}
          /\ listener.outpkt # Unwritten
       \/ /\ d.from \in Ports /\ Told(c)
          /\ d.pkt.type \in {"RR", "REJ"} => d.pkt.sequence >= 1

\* What client c may have sent to the server or a child at s: before it was
\* told a port a CXN to the server and nothing else, from its second socket
\* nothing to the server, and an RR only of a block it has written.
SentByClient(c, s, d) ==
    /\ d.from \in {OldSocket(c), NewSocket(c)}
    /\ s = ListenSocket => d.from = OldSocket(c)
    /\ ~Told(c) => s = ListenSocket /\ d.pkt.type \in {"CXN", "FLIPPED"}
    /\ d.pkt.type = "CXN" => d.pkt.sequence = 0
    /\ d.pkt.type = "CXN2" => d.pkt.sequence = 1
    /\ d.pkt.type = "FLN" => d.pkt.data \in Clients
    /\ d.pkt.type = "RR" => d.pkt.sequence < client[c].mvSequence

\* What may wait in the queue of socket s.
Post(s) ==
    {d \in Datagrams(s) : \E c \in Clients :
        IF s \in ClientSockets THEN SentToClient(c, s, d) ELSE SentByClient(c, s, d)}

MailIsSound == \A s \in Sockets : inbox[s] \in Seq(Post(s))

\* Where a client stands in init, whom it sends to, and what it has written.
ClientIsSound(c) ==
    /\ Told(c) <=> client[c].i >= 1
    /\ Told(c) => listener.outpkt # Unwritten
    /\ ~Told(c) => client[c].mvAddr = ListenSocket
    /\ client[c].mvSocket = NewSocket(c) => Told(c) /\ client[c].mvAddr \in Ports
    /\ client[c].mvState = "INIT" => client[c].mvSequence = 0 /\ client[c].i <= 4
    /\ client[c].mvState \in {"RECV_PACKETS", "DONE"} => client[c].i = 5

\* The socket a CXN2 forks with has no child, nor has one not made yet.
ListenerIsSound ==
    /\ listener.cxn2 => /\ listener.sk \in Ports \ fresh
                        /\ child[listener.sk] = Unforked
    /\ \A p \in fresh : child[p] = Unforked

\* The window is a run of consecutive numbers that ends just before mvSequence,
\* and full when a packet may come for waitRR; in init there is none.
Numbered(s) ==
    /\ Len(s.mvWindow) <= WindowSize
    /\ WindowBase(s) >= 0
    /\ \A n \in 1 .. Len(s.mvWindow) :
          s.mvWindow[n].sequence = WindowBase(s) + n - 1
    /\ FullWhenSending(s)

WellFormed(s) ==
    /\ s.mvState = "INIT" =>
          s.mvSequence >= 1 /\ s.mvWindow = <<>> /\ s.mvOutBuf = <<>>
    /\ Transferring(s) => Numbered(s)

ChildIsSound(s) ==
    /\ \E c \in Clients : s.mvAddr \in {OldSocket(c), NewSocket(c)} /\ Told(c)
    /\ WellFormed(s)
    /\ WindowReached(s)

IInv ==
    /\ TypeOK
    /\ MailIsSound
    /\ \A c \in Clients : ClientIsSound(c)
    /\ ListenerIsSound
    /\ \A p \in Ports : child[p] # Unforked => ChildIsSound(child[p])

=============================================================================
