---------------------------- MODULE StopAndWait -----------------------------
(***************************************************************************)
(* The stop-and-wait programs: rcopy processes and the server that serves  *)
(* them, one connection after the other, over TCP.                         *)
(*                                                                         *)
(* A round of either loop sends a packet and then waits for one, so it is  *)
(* two steps; the loop's top, which the second step comes through without  *)
(* a look at its conditions, changes nothing they depend on in between.    *)
(***************************************************************************)
EXTENDS WaitClient, WaitServer, Stream

CONSTANT Files   \* names that open() finds, as the server's copy of them reads

ASSUME FilesAssumption == Files \subseteq Clients

Accepting == "accept"
\* Killed by SIGPIPE, or without its listening socket.
Dead == "dead"

ASSUME NamesAssumption == {Accepting, Dead} \intersect Clients = {}

VARIABLES
    rcopy,     \* [Clients -> state of rcopy, or NotStarted]
    server,    \* "accept", the client it serves, or "dead"
    comm,      \* state of client_comm, for the client it serves
    backlog    \* connections made and not accepted, in order

vars == <<rcopy, server, comm, backlog, stream, link, faults>>

NotStarted == [returned |-> "not started"]

Init ==
    /\ rcopy = [c \in Clients |-> NotStarted]
    /\ server = Accepting
    /\ comm = CommStart
    /\ backlog = <<>>
    /\ StreamInit

ClientEnd(c) == End(c, "client")
ServerEnd(c) == End(c, "server")

-----------------------------------------------------------------------------
(* rcopy *)

\* connect() succeeds before accept(), as long as the server runs.
RcopyConnects(c) ==
    /\ rcopy[c] = NotStarted
    /\ \/ /\ server # Dead
          /\ rcopy' = [rcopy EXCEPT ![c] = RcopyStart(c)]
          /\ backlog' = Append(backlog, c)
          /\ link' = [link EXCEPT ![ClientEnd(c)] = "open", ![ServerEnd(c)] = "open"]
       \/ /\ server = Dead
          /\ rcopy' = [rcopy EXCEPT ![c] = [RcopyStart(c) EXCEPT !.returned = "failure"]]
          /\ UNCHANGED <<backlog, link>>
    /\ UNCHANGED <<server, comm, stream, faults>>

RcopyRuns(c) == rcopy[c] # NotStarted /\ RcopyGoesOn(rcopy[c])

RcopyEnds(c, ended) ==
    /\ rcopy' = [rcopy EXCEPT ![c] = ended]
    /\ Close({ClientEnd(c)}, {})
    /\ UNCHANGED <<server, comm, backlog>>

RcopyTransmits(c) ==
    /\ RcopyRuns(c)
    /\ "TRANSMIT" \in rcopy[c].status
    /\ ~Broken(ClientEnd(c))
    /\ rcopy' = [rcopy EXCEPT ![c] = RcopySent(@)]
    /\ SendErr(ClientEnd(c), rcopy[c].outpkt)
    /\ UNCHANGED <<server, comm, backlog>>

\* The user interrupts rcopy.
RcopyInterrupted(c) ==
    /\ RcopyRuns(c)
    /\ Fault("kill")
    /\ RcopyEnds(c, [rcopy[c] EXCEPT !.returned = "interrupted"])

RcopyReceives(c) ==
    /\ RcopyRuns(c)
    /\ "TRANSMIT" \notin rcopy[c].status
    /\ \/ /\ HasPacket(ClientEnd(c))
          /\ LET pkt == Head(stream[ClientEnd(c)])
             IN  rcopy' = [rcopy EXCEPT ![c] =
                              IF GoodChecksum(pkt) THEN RcopyReceived(@, pkt)
                                                   ELSE RcopyReceivedBad(@)]
          /\ Take(ClientEnd(c))
       \/ /\ AtEnd(ClientEnd(c))
          /\ rcopy' = [rcopy EXCEPT ![c] = RcopyReceivedBad(@)]
          /\ UNCHANGED streamVars
    /\ UNCHANGED <<server, comm, backlog>>

\* recv() returns -1, send() raises SIGPIPE, or the loop ends.
RcopyExits(c) ==
    /\ rcopy[c] # NotStarted /\ rcopy[c].returned = "no"
    /\ \/ /\ RcopyGoesOn(rcopy[c])
          /\ "TRANSMIT" \notin rcopy[c].status /\ Fails(ClientEnd(c))
          /\ RcopyEnds(c, [rcopy[c] EXCEPT !.returned = "failure"])
       \/ /\ RcopyGoesOn(rcopy[c])
          /\ "TRANSMIT" \in rcopy[c].status /\ Broken(ClientEnd(c))
          /\ RcopyEnds(c, [rcopy[c] EXCEPT !.returned = "killed"])
       \/ /\ ~RcopyGoesOn(rcopy[c])
          /\ RcopyEnds(c, RcopyReturns(rcopy[c]))
    /\ UNCHANGED faults

-----------------------------------------------------------------------------
(* The server *)

Accepts ==
    /\ server = Accepting
    /\ backlog # <<>>
    /\ server' = Head(backlog)
    /\ backlog' = Tail(backlog)
    /\ UNCHANGED <<rcopy, comm, streamVars>>

\* Faulty variant: it goes back to accept() without closing the connection.
LeavesItOpen(c) ==
    /\ server' = Accepting
    /\ comm' = CommStart
    /\ UNCHANGED <<rcopy, backlog, stream, link>>

\* client_comm has returned, what it returned is ignored, and the server closes
\* the connection.
ReturnsToAccept(c) ==
    /\ server' = Accepting
    /\ comm' = CommStart
    /\ Close({ServerEnd(c)}, {})
    /\ UNCHANGED <<rcopy, backlog>>

CommTransmits(c) ==
    /\ server = c
    /\ CommGoesOn(comm)
    /\ "TRANSMIT" \in comm.status
    /\ ~Broken(ServerEnd(c))
    /\ comm' = CommSent(comm, Files)
    /\ SendErr(ServerEnd(c), comm.outpkt)
    /\ UNCHANGED <<rcopy, server, backlog>>

CommReceives(c) ==
    /\ server = c
    /\ CommGoesOn(comm)
    /\ "TRANSMIT" \notin comm.status /\ "RECEIVE" \in comm.status
    /\ \/ /\ HasPacket(ServerEnd(c))
          /\ LET pkt == Head(stream[ServerEnd(c)])
             IN  comm' = IF GoodChecksum(pkt) THEN CommReceived(comm, pkt, Files)
                                              ELSE CommReceivedBad(comm)
          /\ Take(ServerEnd(c))
       \/ /\ AtEnd(ServerEnd(c))
          /\ comm' = CommReceivedBad(comm)
          /\ UNCHANGED streamVars
    /\ UNCHANGED <<rcopy, server, backlog>>

\* The server's descriptors are lost, and with them every connection.
ServerDies(c) ==
    /\ server' = Dead
    /\ backlog' = <<>>
    /\ LET waiting == {ServerEnd(backlog[i]) : i \in DOMAIN backlog}
       IN  Close(waiting \union {ServerEnd(c)}, waiting)
    /\ UNCHANGED <<rcopy, comm>>

\* recv() returns -1, the loop ends, or a handler has returned.  fromfd is closed
\* also when nothing was assigned to it: what it then holds is no descriptor,
\* the connection's, or the listening socket's.
CommEnds(c) ==
    /\ server = c
    /\ \/ ~CommGoesOn(comm)
       \/ "TRANSMIT" \notin comm.status /\ Fails(ServerEnd(c))
    /\ \/ ReturnsToAccept(c)
       \/ ~comm.failed /\ FromfdUnset(comm) /\ ServerDies(c)
    /\ UNCHANGED faults

\* SIGPIPE.  There is one process, so every connection goes with it.
ServerKilled(c) ==
    /\ server = c
    /\ CommGoesOn(comm)
    /\ "TRANSMIT" \in comm.status
    /\ Broken(ServerEnd(c))
    /\ ServerDies(c)
    /\ UNCHANGED faults

-----------------------------------------------------------------------------

StreamActs == Cut /\ UNCHANGED <<rcopy, server, comm, backlog>>

Ended(c) == rcopy[c].returned \notin {"no", "not started"}

\* Every rcopy has ended and the server waits for the next one, or is dead.
Terminated ==
    /\ \A c \in Clients : Ended(c)
    /\ server = Dead \/ (server = Accepting /\ backlog = <<>>)
    /\ UNCHANGED vars

RcopyStep(c) ==
    \/ RcopyConnects(c) \/ RcopyTransmits(c) \/ RcopyReceives(c) \/ RcopyExits(c)
CommStep(c) ==
    CommTransmits(c) \/ CommReceives(c) \/ CommEnds(c) \/ ServerKilled(c)

Next ==
    \/ \E c \in Clients : RcopyStep(c) \/ RcopyInterrupted(c) \/ CommStep(c)
    \/ Accepts \/ StreamActs \/ Terminated

Spec == Init /\ [][Next]_vars

\* Every process is scheduled.  There are no timers: select_call is commented
\* out in both loops.
Fairness ==
    /\ \A c \in Clients : WF_vars(RcopyStep(c)) /\ WF_vars(CommStep(c))
    /\ WF_vars(Accepts)

FairSpec == Spec /\ Fairness

-----------------------------------------------------------------------------
(* Properties *)

\* Types of the variables.
TypeOK ==
    /\ rcopy \in [Clients -> {NotStarted} \union RcopyType]
    /\ server \in Clients \union {Accepting, Dead}
    /\ comm \in CommType
    /\ backlog \in Seq(Clients)
    /\ stream \in [Ends -> Seq(StreamPackets)]
    /\ link \in [Ends -> LinkState]
    /\ faults \in Nat

\* The server is never ahead of the client it serves, and at most one block
\* behind: a block counts as acknowledged only when it was written, however many
\* packets were damaged or read out of step (server.c:264-286, rcopy.c:283-297).
InStep ==
    \A c \in Clients : server = c =>
        rcopy[c].sequence - comm.sequence \in {0, 1}

Whole(c) == rcopy[c] # NotStarted /\ "END" \in rcopy[c].status
Returned(c) == rcopy[c].returned

\* The server takes a file for done only when the client has all of it, also
\* after blocks were read again (server.c:278-286, 303-311, 367-375).
DoneMeansWholeFile ==
    \A c \in Clients : server = c /\ "QUIT" \in comm.status => Whole(c)

\* Every local file is a prefix of the remote one (rcopy.c:281-297).
FilesArePrefixes ==
    \A c \in Clients : rcopy[c] # NotStarted =>
        \A i \in DOMAIN rcopy[c].tofd : SameData(rcopy[c].tofd[i], i - 1)

\* A client is in the queue once, until it is served.
ConnectsOnce ==
    /\ \A i, j \in DOMAIN backlog : i # j => backlog[i] # backlog[j]
    /\ \A i \in DOMAIN backlog :
          backlog[i] # server /\ rcopy[backlog[i]] # NotStarted
    /\ server \in Clients => rcopy[server] # NotStarted
    /\ server = Accepting => comm = CommStart

\* A request for a block is behind the ACKs of the blocks before it.
RequestsFollowAcks(q) ==
    \A i, j \in DOMAIN q :
        i < j /\ q[i].type = "ACK" /\ q[j].type = "RET" => q[i].data < q[j].sequence

Waits(c) == \E i \in DOMAIN backlog : backlog[i] = c

\* One client and its connection, which it may not have made yet, which may be
\* waiting to be accepted, be served, or be over.
ClientSound(c) ==
    LET n == rcopy[c].sequence
        toClient == stream[ClientEnd(c)]
        toServer == stream[ServerEnd(c)]
    IN  /\ rcopy[c] = NotStarted => toClient = <<>> /\ toServer = <<>>
        /\ rcopy[c] # NotStarted =>
              /\ RcopySound(rcopy[c])
              /\ \A pkt \in Packets(toClient) : FromServer(pkt, n)
              /\ \A pkt \in Packets(toServer) : FromRcopy(pkt, n)
              /\ RequestsFollowAcks(toServer)
        /\ Waits(c) => n = 0 /\ toClient = <<>>
        /\ server = c =>
              /\ CommSound(comm, n)
              /\ \A pkt \in Packets(toClient) : pkt.type = "DAT" =>
                    ~FromfdUnset(comm) /\ pkt.sequence <= comm.sequence
              /\ \A pkt \in Packets(toServer) :
                    pkt.type = "RET" => comm.sequence <= pkt.sequence

\* The inductive invariant, for files whose blocks differ.
IInv == TypeOK /\ ConnectsOnce /\ \A c \in Clients : ClientSound(c)

\* Each rcopy's copy is the one a user is promised (FileTransfer): blocks are
\* written in order, and nothing after the one that ends the file, which
\* rcopy.c:289-291 finds.  A client without the last block when it ends has
\* failed, whatever its exit status says.
Written(c) == IF rcopy[c] = NotStarted THEN <<>> ELSE rcopy[c].tofd
Verdict(c) ==
    IF Whole(c) THEN "success"
    ELSE IF Returned(c) \in {"no", "not started"} THEN "none" ELSE "failed"
Copy(c) == INSTANCE FileTransfer WITH written <- Written(c), verdict <- Verdict(c)

CopiesEveryFile ==
    /\ \A c \in Clients : Copy(c)!Init
    /\ [][\A c \in Clients : [Copy(c)!Next]_(Copy(c)!vars)]_vars

\* Once accepted, a client that asks for an existing file gets all of it and
\* succeeds, although a packet is damaged on the way: the requests for
\* retransmission make up for that (server.c:236-255, 295-313,
\* rcopy.c:236-253, 274-305).  Nothing is promised when recv() returns a part
\* of a packet, as answers may go on arriving behind what is out of step, nor
\* after a second fault.
ServedInFull ==
    \A c \in Files :
        server = c /\ comm = CommStart
            ~> \/ Returned(c) \in {"success", "interrupted"}
               \/ faults > 1
               \/ \E e \in Ends : OutOfStep(stream[e])

\* With one fault at most no rcopy waits forever: not for a file that cannot be
\* opened, not in the queue of a server that dies, not for a lost answer
\* (server.c:340-343, 386-392, 463-465, rcopy.c:227-231).
RcopyEndsAfterOneFault == \A c \in Clients : <>(Ended(c) \/ faults > 1)

\* Every rcopy ends, however many packets are damaged: both programs give a peer
\* up after PKT_TRNSMAX requests (server.c:185-190, rcopy.c:186-191).
EveryRcopyEnds == \A c \in Clients : <>Ended(c)

\* Without a fault rcopy succeeds (rcopy.c:212-215, 289-291).
CopySucceeds == \A c \in Files : server = c ~> Returned(c) = "success"

=============================================================================
