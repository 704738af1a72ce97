------------------------------ MODULE GoBackN -------------------------------
(***************************************************************************)
(* The transfer itself: rcopy in Client::recvPackets and the server's      *)
(* child in fillWindow / sendWindow / waitRR, over UDP.  A behaviour       *)
(* starts where both have finished their init() and nothing is in flight.  *)
(***************************************************************************)
EXTENDS Client, Server, Network

CONSTANTS ClientSocket, ChildSocket

ASSUME SocketAssumption ==
    /\ ClientSocket # ChildSocket
    /\ Sockets = {ClientSocket, ChildSocket}

VARIABLES
    client,   \* state of rcopy, as in module Client
    child     \* state of the child process, as in module Server

vars == <<client, child, inbox, open, due, faults>>

Init ==
    /\ client = [mvState |-> "RECV_PACKETS", mvSequence |-> 0,
                 mvRetries |-> PKT_TRNSMAX, mvAddr |-> ChildSocket,
                 mvTo |-> <<>>]
    /\ child = [mvState |-> "FILL_WINDOW", mvSequence |-> 0,
                mvRetries |-> PKT_TRNSMAX, mvAddr |-> ClientSocket,
                mvWindow |-> <<>>, mvOutBuf |-> <<>>, mvFrom |-> 0]
    /\ NetworkInit(Sockets)

-----------------------------------------------------------------------------
(* rcopy *)

ClientSends(queues, reply) ==
    IF reply.out = <<>>
    THEN inbox' = queues /\ UNCHANGED faults
    ELSE SendtoErr(queues, ClientSocket, client'.mvAddr, Head(reply.out))

ClientReceives ==
    /\ ClientRunning(client)
    /\ Readable(ClientSocket)
    /\ LET d == Head(inbox[ClientSocket])
           c == ClientReceived(client, d)
           reply == IF Intact(d.pkt) THEN RecvPackets(c, d.pkt)
                                     ELSE RecvPacketsFailed(c)
       IN  /\ client' = reply.client
           /\ ClientSends(Received(ClientSocket), reply)
    /\ due' = due \ {ClientSocket}
    /\ UNCHANGED <<child, open>>

ClientTimesOut ==
    /\ ClientRunning(client)
    /\ ClientSocket \in due
    /\ LET reply == RecvPacketsFailed(ClientTimedOut(client))
       IN  /\ client' = reply.client
           /\ ClientSends(inbox, reply)
    /\ due' = due \ {ClientSocket}
    /\ UNCHANGED <<child, open>>

\* Run returns and the sockets are closed.
ClientExits ==
    /\ ~ClientRunning(client)
    /\ ClientSocket \in open
    /\ Close({ClientSocket})
    /\ UNCHANGED <<client, child, faults>>

\* The user interrupts rcopy.
ClientKilled ==
    /\ Fault("kill")
    /\ ClientRunning(client)
    /\ ClientSocket \in open
    /\ client' = [client EXCEPT !.mvState = "ERROR"]
    /\ Close({ClientSocket})
    /\ UNCHANGED child

-----------------------------------------------------------------------------
(* The child process *)

ChildFillsWindow ==
    /\ ChildRunning(child)
    /\ child.mvState = "FILL_WINDOW"
    /\ child' = FillWindow(child)
    /\ UNCHANGED <<client, inbox, open, due, faults>>

ChildSends ==
    /\ ChildRunning(child)
    /\ child.mvState = "SEND_WINDOW"
    /\ child.mvOutBuf # <<>>
    /\ SendtoErr(inbox, ChildSocket, child.mvAddr, Head(child.mvOutBuf))
    /\ child' = PopOutBuf(child)
    /\ UNCHANGED <<client, open, due>>

ChildHasSent ==
    /\ ChildRunning(child)
    /\ child.mvState = "SEND_WINDOW"
    /\ child.mvOutBuf = <<>>
    /\ child' = [child EXCEPT !.mvState = "WAIT_RR"]
    /\ UNCHANGED <<client, inbox, open, due, faults>>

ChildReceives ==
    /\ ChildRunning(child)
    /\ child.mvState = "WAIT_RR"
    /\ Readable(ChildSocket)
    /\ LET d == Head(inbox[ChildSocket])
           s == ChildReceived(child, d)
       IN  child' = IF Intact(d.pkt) THEN WaitRR(s, d.pkt) ELSE WaitRRFailed(s)
    /\ inbox' = Received(ChildSocket)
    /\ due' = due \ {ChildSocket}
    /\ UNCHANGED <<client, open, faults>>

ChildTimesOut ==
    /\ ChildRunning(child)
    /\ child.mvState = "WAIT_RR"
    /\ ChildSocket \in due
    /\ child' = WaitRRFailed(ChildTimedOut(child))
    /\ due' = due \ {ChildSocket}
    /\ UNCHANGED <<client, inbox, open, faults>>

\* exit() at the end of Child.
ChildExits ==
    /\ ~ChildRunning(child)
    /\ ChildSocket \in open
    /\ Close({ChildSocket})
    /\ UNCHANGED <<client, child, faults>>

-----------------------------------------------------------------------------

Blocked ==
    /\ ClientSocket \in open => ClientRunning(client)
    /\ ChildSocket \in open => ChildRunning(child) /\ child.mvState = "WAIT_RR"

Tick == Blocked /\ SecondPasses(open) /\ UNCHANGED <<client, child>>

NetworkActs == NetworkStep(Sockets) /\ UNCHANGED <<client, child>>

\* Both processes have exited.
Terminated == open = {} /\ UNCHANGED vars

ClientStep == ClientReceives \/ ClientTimesOut \/ ClientExits
ChildStep ==
    \/ ChildFillsWindow \/ ChildSends \/ ChildHasSent
    \/ ChildReceives \/ ChildTimesOut \/ ChildExits

Next ==
    \/ ClientStep \/ ChildStep \/ ClientKilled
    \/ Tick \/ NetworkActs \/ Terminated

Spec == Init /\ [][Next]_vars

\* Both processes are scheduled and time passes.  The network's faults and
\* the fate of a packet are under no obligation.
Fairness == WF_vars(ClientStep) /\ WF_vars(ChildStep) /\ WF_vars(Tick)

FairSpec == Spec /\ Fairness

-----------------------------------------------------------------------------
(* Properties *)

\* Types of the variables.  Each process talks to the other one, neither
\* returns to INIT, and the child never reaches DONE or ERROR.
TypeOK ==
    /\ client \in ClientType({ChildSocket})
    /\ client.mvState # "INIT"
    /\ child \in ServerType({ClientSocket})
    /\ child.mvState \notin {"INIT", "DONE", "ERROR"}
    /\ AreQueues(inbox)
    /\ open \in SUBSET Sockets
    /\ due \in SUBSET Sockets
    /\ faults \in Nat

\* The local file is an exact prefix of the remote one: no block is missing,
\* repeated or out of place, whatever was lost, delayed or delivered twice
\* (Client.cpp:270-286).
FileIsPrefix == HasPrefix(client)

\* rcopy reports success only when it has written the whole file, and a client
\* still receiving has not yet written the short block (Client.cpp:281-285).
DoneMeansWholeFile == KnowsTheEnd(client)

\* The child never slides its window past a block the client lacks, so the
\* block the client waits for can always be sent again (Server.cpp:389-404).
WindowStaysReachable == WindowBase(child) <= client.mvSequence

\* The window stays contiguous and the file positioned behind it, after every
\* shift, refill and rewind (Server.cpp:343-359, 394-398, 421-428).
WindowIsContiguous == Contiguous(child)

\* No data packet is sent that is WindowSize or more beyond what the client
\* expects, whether it is in flight or still in mvOutBuf, and each carries the
\* block its number names (Server.cpp:343-361, 416).
FlowControl ==
    /\ SendsWithin(child, client.mvSequence)
    /\ \A pkt \in PacketsOf(inbox[ClientSocket]) :
          Intact(pkt) =>
              /\ pkt.sequence < client.mvSequence + WindowSize
              /\ pkt = datpkt(pkt.sequence, pkt.sequence)

\* The child is never acknowledged a block the client has not written, nor
\* asked for one beyond the first the client lacks (Client.cpp:264, 272, 292).
AcksAreTrue ==
    \A pkt \in PacketsOf(inbox[ChildSocket]) :
        \/ pkt.type = "RR" /\ pkt.sequence < client.mvSequence
        \/ pkt.type = "REJ" /\ pkt.sequence <= client.mvSequence
        \/ ~Intact(pkt)

\* The inductive invariant.
IInv ==
    /\ TypeOK
    /\ FileIsPrefix
    /\ DoneMeansWholeFile
    /\ WindowStaysReachable
    /\ WindowIsContiguous
    /\ FullWhenSending(child)
    /\ FlowControl
    /\ AcksAreTrue

\* The transfer is the copy a user is promised (FileTransfer): the local file
\* is what recvPackets wrote, the verdict what Run prints (Client.cpp:76-103).
Copy == INSTANCE FileTransfer WITH
            written <- client.mvTo, verdict <- Verdict(client)

CopiesTheFile == Copy!Spec

\* While fewer packets go astray than there are retries, rcopy gets the whole
\* file unless the user interrupts it (Client.cpp:76-101).
TransferCompletes == <>(client.mvState \in {"DONE", "ERROR"})

\* Whatever becomes of the transfer, and also when the user interrupts rcopy,
\* both processes exit in the end (Client.cpp:77, Server.cpp:196).
BothExit == <>(open = {})

=============================================================================
