------------------------------- MODULE Stream -------------------------------
(***************************************************************************)
(* The TCP connections of the stop-and-wait programs, and the hook sendErr *)
(* that every send goes through (cpe464.h redefines send).                 *)
(*                                                                         *)
(* A connection is named by its client; End(c, side) is one of its two     *)
(* sockets.  stream[e] is what socket e can still read, in order and       *)
(* without loss.  The programs send whole packets and take what one recv() *)
(* returns for a whole packet, so a stream is a sequence of packets; when  *)
(* recv() returns a part of one, everything up to the next moment at which *)
(* the stream is empty is read out of step (Cut).                          *)
(*                                                                         *)
(* link[e] is what the kernel of e knows of the other side:                *)
(*   "none"    not connected yet        "closed"  e itself was closed      *)
(*   "open"    the other side is there                                     *)
(*   "fin"     it has closed: recv() returns 0 behind the stream           *)
(*   "reset"   it has sent an RST: recv() returns -1 behind the stream, or *)
(*             the next send() does, which the programs ignore             *)
(*   "gone"    an RST was seen: recv() returns 0 behind the stream, and    *)
(*             send() raises SIGPIPE, which none of the programs handles   *)
(* This is what Linux does.  An RST takes effect at once: one that comes   *)
(* later only allows packets in between that are lost like the first.      *)
(*                                                                         *)
(* faults counts the faults that have happened:                            *)
(*   flip    sendErr flips bits (server.c:462 and rcopy.c:143 turn it on;  *)
(*           they turn dropping off)                                       *)
(*   cut     recv() returns a part of a packet                             *)
(*   kill    the user interrupts rcopy                                     *)
(***************************************************************************)
EXTENDS StreamPacket, Sequences

CONSTANTS
    Faults,      \* kinds of fault that may happen
    MaxFaults    \* how many faults may happen in a behaviour

ASSUME StreamAssumption ==
    /\ Faults \subseteq {"flip", "cut", "kill"}
    /\ MaxFaults \in Nat

VARIABLES
    stream,   \* what each socket can read: a sequence of packets
    link,     \* what each socket knows of its peer
    faults    \* number of faults so far

streamVars == <<stream, link, faults>>

End(c, side) == <<c, side>>
Ends == Clients \X {"client", "server"}
PeerOf(e) == <<e[1], IF e[2] = "client" THEN "server" ELSE "client">>

Packets(q) == {q[i] : i \in DOMAIN q}

LinkState == {"none", "open", "fin", "gone", "reset", "closed"}

Fault(kind) ==
    /\ kind \in Faults
    /\ faults < MaxFaults
    /\ faults' = faults + 1

\* What is read out of step, and the last piece of a stream that is.
Garbled == Flipped
Remainder == [Flipped EXCEPT !.type = "REMAINDER"]
OutOfStep(q) == q # <<>> /\ q[Len(q)] = Remainder

\* A packet sent behind the remainder of another one is out of step itself.
Arrive(q, pkt) ==
    IF OutOfStep(q) THEN SubSeq(q, 1, Len(q) - 1) \o <<Garbled, Remainder>>
                    ELSE Append(q, pkt)

\* send() on socket e raises SIGPIPE.
Broken(e) == link[e] = "gone"

\* sendErr on socket e, when it does not.
SendErr(e, pkt) ==
    \/ /\ link[e] = "open"
       /\ stream' = [stream EXCEPT ![PeerOf(e)] = Arrive(@, pkt)]
       /\ UNCHANGED <<link, faults>>
    \/ /\ link[e] = "open"
       /\ Fault("flip")
       /\ stream' = [stream EXCEPT ![PeerOf(e)] = Arrive(@, Flipped)]
       /\ UNCHANGED link
    \/ /\ link[e] \in {"fin", "reset"}
       /\ link' = [link EXCEPT ![e] = "gone"]
       /\ UNCHANGED <<stream, faults>>

\* recv() on socket e: a packet; 0, which leaves the caller's buffer as it
\* was, with the checksum field cleared; or -1.
HasPacket(e) == stream[e] # <<>>
AtEnd(e) == stream[e] = <<>> /\ link[e] \in {"fin", "gone"}
Fails(e) == stream[e] = <<>> /\ link[e] = "reset"

Take(e) ==
    /\ stream' = [stream EXCEPT ![e] = Tail(@)]
    /\ UNCHANGED <<link, faults>>

\* close() of the sockets in closed.  A peer sees the end of the stream, or an
\* RST if packets to the closed socket were left unread; these may also have
\* been behind the end, which is seen first then.  refused: those that were
\* never accepted, whose peers get an RST in any case.
Close(closed, refused) ==
    \E told \in {"reset", "gone"} :
        /\ link' = [e \in Ends |->
                CASE e \in closed -> "closed"
                  [] link[e] = "open" /\ PeerOf(e) \in closed ->
                       IF PeerOf(e) \in refused THEN "reset"
                       ELSE IF stream[PeerOf(e)] = <<>> THEN "fin" ELSE told
                  [] OTHER -> link[e]]
        /\ stream' = [e \in Ends |-> IF e \in closed THEN <<>> ELSE stream[e]]

\* recv() returns a part of the only packet, or of the first of several.
Cut ==
    /\ Fault("cut")
    /\ \E e \in Ends :
          /\ HasPacket(e)
          /\ ~OutOfStep(stream[e])
          /\ stream' = [stream EXCEPT ![e] =
                           [i \in DOMAIN @ |-> Garbled] \o <<Remainder>>]
    /\ UNCHANGED link

StreamInit ==
    /\ stream = [e \in Ends |-> <<>>]
    /\ link = [e \in Ends |-> "none"]
    /\ faults = 0

=============================================================================
