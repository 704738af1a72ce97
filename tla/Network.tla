------------------------------ MODULE Network -------------------------------
(***************************************************************************)
(* UDP between the programs' sockets, and the library hook sendtoErr that  *)
(* every send goes through (cpe464.h redefines sendto).                    *)
(*                                                                         *)
(* inbox[s] is the kernel's receive queue of socket s: datagrams in the    *)
(* order they will be read.  A socket's queue holds Capacity datagrams; a  *)
(* datagram that finds it full, or finds the socket closed, is lost.       *)
(*                                                                         *)
(* Faults names what may go wrong, faults counts how often it has, and     *)
(* MaxFaults bounds that count:                                            *)
(*   drop, flip    sendtoErr discards the packet, or flips bits of it      *)
(*                 (rcopy.cpp:26 and rcserver.cpp:15 turn both on)         *)
(*   dup, reorder  the network delivers a datagram twice, or a later one   *)
(*                 first; UDP allows both, a loopback does neither         *)
(*   late          datagrams for a socket take longer than its select()    *)
(*   kill          the user interrupts rcopy                               *)
(*                                                                         *)
(* Timers.  select_call(s, 1, 0) waits one second.  due is the set of      *)
(* sockets whose current wait is running out.  Time passes (Tick, in the   *)
(* composing modules) only when nothing is in flight and every process is  *)
(* blocked, and then for all of them: each due process either times out or *)
(* is woken by a datagram another one's timeout sent, and no process times *)
(* out a second time before the others have done one of the two.           *)
(***************************************************************************)
EXTENDS Packet, Sequences

CONSTANTS
    Sockets,     \* the UDP sockets
    Faults,      \* kinds of fault that may happen
    MaxFaults,   \* how many faults may happen in a behaviour
    Capacity     \* datagrams a receive queue holds

ASSUME NetworkAssumption ==
    /\ Faults \subseteq {"drop", "flip", "dup", "reorder", "late", "kill"}
    /\ MaxFaults \in Nat
    /\ Capacity \in Nat

VARIABLES
    inbox,    \* receive queue of each socket: a sequence of datagrams
    open,     \* sockets not yet closed
    due,      \* sockets whose select() is about to return 0
    faults    \* number of faults so far

netVars == <<inbox, open, due, faults>>

Datagram(from, pkt) == [from |-> from, pkt |-> pkt]

\* Mail(s) is what may lie in the queue of socket s.
Mail(s) == [from: Sockets \ {s}, pkt: TransferPacket]
AreQueues(queues) ==
    /\ queues = [s \in Sockets |-> queues[s]]
    /\ \A s \in Sockets : queues[s] \in Seq(Mail(s))

PacketsOf(queue) == {queue[i].pkt : i \in DOMAIN queue}

Fault(kind) ==
    /\ kind \in Faults
    /\ faults < MaxFaults
    /\ faults' = faults + 1

Deliver(queues, to, d) ==
    IF to \in open /\ Len(queues[to]) < Capacity
    THEN [queues EXCEPT ![to] = Append(@, d)]
    ELSE queues

\* sendtoErr(from, pkt, to), called with the queues as the step left them.
SendtoErr(queues, from, to, pkt) ==
    \/ /\ inbox' = Deliver(queues, to, Datagram(from, pkt))
       /\ UNCHANGED faults
    \/ Fault("drop") /\ inbox' = queues
    \/ Fault("flip") /\ inbox' = Deliver(queues, to, Datagram(from, Flipped))

\* recvfrom(s) takes the oldest datagram of the queue.
Readable(s) == s \in open /\ inbox[s] # <<>>
Received(s) == [inbox EXCEPT ![s] = Tail(@)]

\* close(s): what is still queued is thrown away.
Close(closed) ==
    /\ open' = open \ closed
    /\ inbox' = [s \in Sockets |-> IF s \in closed THEN <<>> ELSE inbox[s]]
    /\ due' = due \ closed

-----------------------------------------------------------------------------
(* The network's own steps. *)

Duplicate ==
    /\ Fault("dup")
    /\ \E s \in Sockets : \E i \in DOMAIN inbox[s] :
          /\ Len(inbox[s]) < Capacity
          /\ inbox' = [inbox EXCEPT ![s] = Append(@, inbox[s][i])]
    /\ UNCHANGED <<open, due>>

\* Two neighbours change places.
Reorder ==
    /\ Fault("reorder")
    /\ \E s \in Sockets : \E i, j \in DOMAIN inbox[s] :
          /\ j = i + 1
          /\ inbox' = [inbox EXCEPT ![s] =
                          [@ EXCEPT ![i] = inbox[s][j], ![j] = inbox[s][i]]]
    /\ UNCHANGED <<open, due>>

\* timed: the sockets read with a select() before.
Late(timed) ==
    /\ Fault("late")
    /\ \E s \in (open \intersect timed) \ due : due' = due \union {s}
    /\ UNCHANGED <<inbox, open>>

\* One second passes with nothing in flight: the waits of all sleepers, the
\* sockets in a select(), run out.
SecondPasses(sleepers) ==
    /\ due = {}
    /\ sleepers # {}
    /\ \A s \in open : inbox[s] = <<>>
    /\ due' = sleepers
    /\ UNCHANGED <<inbox, open, faults>>

NetworkStep(timed) == Duplicate \/ Reorder \/ Late(timed)

NetworkInit(sockets) ==
    /\ inbox = [s \in Sockets |-> <<>>]
    /\ open = sockets
    /\ due = {}
    /\ faults = 0

=============================================================================
