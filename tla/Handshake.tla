------------------------------ MODULE Handshake ------------------------------
(***************************************************************************)
(* The handlers that set a transfer up: Client::init in rcopy, the loop of *)
(* Server::Run in the server, Server::init in the child it forks.          *)
(*                                                                         *)
(* Besides the members of modules Client and Server the records have       *)
(*   client: mvSocket            the socket it uses                        *)
(*           i                   local of init: the packet to be confirmed *)
(*           addr                local of init: the address of the child   *)
(*   child:  mvSocket            the port it was forked with               *)
(*           have                locals winszSet, bufszSet, fnSet: the     *)
(*                               packets it has taken                      *)
(*           mvFromName          the file it was asked for                 *)
(*   server: cxn2, sk            locals of Run: a CXN2 is awaited, the     *)
(*                               socket the next child gets                *)
(*           outpkt              local of Run: the last packet sent        *)
(***************************************************************************)
EXTENDS Client, Server

\* The packets init builds, pkt[0] to pkt[4]: BUF and WIN carry a size, FLN
\* names the file, and the size field of the others is what memset left there.
InitPacket(i, name) ==
    [type |-> <<"CXN", "CXN2", "BUF", "WIN", "FLN">>[i + 1], sequence |-> i,
     size |-> <<65535, 61166, BufferSize, WindowSize, 13107>>[i + 1],
     data |-> IF i = 4 THEN name ELSE Fill]

\* The RR that answers a CXN has the child's port for its size.
portpkt(n, port) == [rrpkt(n) EXCEPT !.size = port]

-----------------------------------------------------------------------------
(* Client::init.  newSocket is what GetSocket returns, name the file. *)

\* What follows the loop when it ends, or else the packet it sends next.
InitGoesOn(c, name) ==
    CASE c.mvRetries = 0 ->
           [client |-> [c EXCEPT !.mvState = "ERROR"], out |-> <<>>]
      [] c.mvRetries > 0 /\ c.i = 5 ->
           [client |-> [c EXCEPT !.mvState = "RECV_PACKETS", !.mvSequence = 0,
                                 !.mvRetries = PKT_TRNSMAX],
            out |-> <<>>]
      [] OTHER -> [client |-> c, out |-> <<InitPacket(c.i, name)>>]

\* Timeout or bad checksum: the same packet again.
ClientInitFailed(c, name) == InitGoesOn(c, name)

\* Faulty variant: any RR confirms the last packet.
AnyRRConfirms(c, pkt) ==
    IF pkt.type = "REJ" /\ pkt.sequence <= c.i THEN pkt.sequence ELSE c.i + 1

\* The packet sent next: an RR must have the number of the last one, a REJ
\* takes init back but never ahead, and anything else confirms it.
NextPacket(c, pkt) ==
    CASE pkt.type = "RR" /\ pkt.sequence # c.i -> c.i
      [] pkt.type = "REJ" /\ pkt.sequence <= c.i -> pkt.sequence
      [] OTHER -> c.i + 1

\* Faulty variant: the client goes on sending to the server.
KeepsTheAddress(c, pkt, newSocket) ==
    CASE pkt.type = "RR" /\ pkt.sequence = c.i /\ c.i = 0 ->
           [c EXCEPT !.addr = pkt.size]
      [] pkt.type = "RR" /\ pkt.sequence = c.i /\ c.i = 1 ->
           [c EXCEPT !.mvSocket = newSocket]
      [] OTHER -> c

\* An RR for the CXN tells the child's address, one for the CXN2 makes the
\* client use it, from its new socket.
Redirected(c, pkt, newSocket) ==
    CASE pkt.type = "RR" /\ pkt.sequence = c.i /\ c.i = 0 ->
           [c EXCEPT !.addr = pkt.size]
      [] pkt.type = "RR" /\ pkt.sequence = c.i /\ c.i = 1 ->
           [c EXCEPT !.mvSocket = newSocket, !.mvAddr = c.addr]
      [] OTHER -> c

ClientInit(c, pkt, newSocket, name) ==
    InitGoesOn([Redirected(c, pkt, newSocket) EXCEPT
                   !.i = NextPacket(c, pkt), !.mvRetries = PKT_TRNSMAX], name)

-----------------------------------------------------------------------------
(* Server::Run, one round of its loop for an intact packet.  port is what  *)
(* GetSocket returns; fork says whether a child is started, with socket sk.*)

\* Faulty variant: a CXN2 forks whether or not one is awaited.
EveryCXN2Forks(l, pkt, port) ==
    LET reply == IF pkt.type = "CXN" THEN portpkt(pkt.sequence, port)
                                     ELSE rrpkt(pkt.sequence)
    IN  [server |-> [l EXCEPT !.cxn2 = pkt.type = "CXN", !.outpkt = reply,
                              !.sk = IF pkt.type = "CXN" THEN port ELSE @],
         out |-> <<reply>>, fork |-> pkt.type = "CXN2"]

RunStep(l, pkt, port) ==
    CASE pkt.type = "CXN" ->
           LET reply == portpkt(pkt.sequence, port)
           IN  [server |-> [l EXCEPT !.cxn2 = TRUE, !.sk = port, !.outpkt = reply],
                out |-> <<reply>>, fork |-> FALSE]
      [] pkt.type = "CXN2" /\ l.cxn2 ->
           LET reply == rrpkt(pkt.sequence)
           IN  [server |-> [l EXCEPT !.cxn2 = FALSE, !.outpkt = reply],
                out |-> <<reply>>, fork |-> TRUE]
      [] pkt.type = "REJ" ->
           [server |-> l, out |-> <<l.outpkt>>, fork |-> FALSE]
      [] OTHER -> [server |-> l, out |-> <<>>, fork |-> FALSE]

\* The child as Run leaves it before it calls Child.
ForkedChild(port, theirAddr) ==
    [mvState |-> "INIT", mvSequence |-> 1, mvRetries |-> PKT_TRNSMAX,
     mvAddr |-> theirAddr, mvWindow |-> <<>>, mvOutBuf |-> <<>>, mvFrom |-> 0,
     mvSocket |-> port, have |-> {}, mvFromName |-> Fill]

-----------------------------------------------------------------------------
(* Server::init in the child.  exists says which files can be opened. *)

Wanted == {"BUF", "WIN", "FLN"}

\* The child after a round of the loop: it goes on, gives up, or opens the file.
InitEnds(s, exists) ==
    CASE s.mvRetries = 0 \/ (Wanted \subseteq s.have /\ s.mvFromName \notin exists) ->
           [s EXCEPT !.mvState = "ERROR"]
      [] s.mvRetries > 0 /\ Wanted \subseteq s.have /\ s.mvFromName \in exists ->
           [s EXCEPT !.mvState = "FILL_WINDOW", !.mvSequence = 0,
                     !.mvRetries = PKT_TRNSMAX]
      [] OTHER -> s

\* Timeout or bad checksum: REJ.
ChildInitFailed(s, exists) ==
    [child |-> InitEnds(s, exists), out |-> <<rejpkt(s.mvSequence)>>]

\* The packet the child waits for.  The sizes in a BUF and a WIN are always
\* BufferSize and WindowSize, so having them is all there is to record.
Taken(s, pkt) ==
    [s EXCEPT !.mvRetries = PKT_TRNSMAX,
              !.mvSequence = @ + 1,
              !.have = @ \union ({pkt.type} \cap Wanted),
              !.mvFromName = IF pkt.type = "FLN" THEN pkt.data ELSE @]

\* An older packet is answered with an RR of the number expected now, not of
\* its own.
ChildInit(s, pkt, exists) ==
    CASE pkt.sequence = s.mvSequence ->
           [child |-> InitEnds(Taken(s, pkt), exists),
            out |-> <<rrpkt(s.mvSequence)>>]
      [] pkt.sequence < s.mvSequence ->
           [child |-> [s EXCEPT !.mvRetries = PKT_TRNSMAX],
            out |-> <<rrpkt(s.mvSequence)>>]
      [] OTHER ->
           [child |-> InitEnds([s EXCEPT !.mvRetries = @ - 1], exists),
            out |-> <<rejpkt(s.mvSequence)>>]

=============================================================================
