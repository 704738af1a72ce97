# TLA+ model of cpe464-fileserver

The repository holds two file transfer programs of the same assignment:
`Go Back N (UDP)`, which builds and runs, and `Stop and Wait (TCP)`, which was
left in the middle of two refactorings and does not compile. Both are modelled:
the go-back-n `rcopy` (client) and `rcserver` (server and the child it forks for
each client), from the first packet to the exit of every process, and the
stop-and-wait `rcopy` and `server`, from `connect` to the exits.

Source references are to `src/Go Back N (UDP)/` unless the file is `server.c`,
`rcopy.c` or `testRandError.sh`, which are in `src/Stop and Wait (TCP)/`.

## The go-back-n system

| part | state it keeps | operations |
|---|---|---|
| `rcopy`, class `Client` | `mvState`, `mvSequence` (next packet, then next block), `mvRetries`, `mvAddr` (sender of the last datagram), `mvSocket`/`mvOldSocket`, the local file; in `init` the position `i` and the child's address `addr` | `init` (five packets, each repeated until confirmed), `recvPackets` (one datagram: write, RR, REJ or end), `recvPacket` (wait, receive, checksum), `Run` |
| server, `Server::Run` | `cxn2` (a CXN2 is awaited), `sk` (socket of the next child), `outpkt` (last packet sent), one of each for all clients | answer a CXN with the port of a new socket; answer a CXN2 and fork; repeat `outpkt` on a REJ; ignore the rest |
| child, `Server::Child` | `mvState`, `mvSequence`, `mvRetries`, `mvAddr`, `mvWindow`, `mvOutBuf`, the file and its read position; in `init` which packets it has | `init`, `fillWindow`, `sendWindow`, `waitRR`, `recvPacket` |
| network | receive queues, one-second `select` waits | `sendtoErr` (drops a packet or flips bits, on purpose), delivery |

The processes share nothing but datagrams. Each waits at most a second for one
(`select_call`), except the server, which waits without a limit. A client's CXN
goes to the server, which makes a socket, tells its port, and forks on the CXN2;
from then on client and child talk alone: BUF, WIN and FLN, each confirmed by an
RR, then DAT packets within a window, RRs and REJs.

What is hard here: the packets of three processes interleave freely; `sendtoErr`
loses and damages packets in both directions; answers to repeated packets are
still on the way when the next packet is sent; both ends reset their numbering
to 0 between handshake and transfer, at different times; a timeout in `waitRR`
sends nothing, so recovery rests on the client; the server keeps one `sk` for
all clients; the last block is not acknowledged. `PROJECT.json` lists each of
these at its line, with the properties that watch it.

What makes each part correct:

- `rcopy`: the local file is at all times an exact prefix of the remote one;
  success is reported for a whole file only; it ends.
- child: the window is a run of consecutive blocks, never slides past a block the
  client lacks, and never exceeds its size on the network; the file position
  follows it; the child ends.
- server: a port is read by one child; a client gets the child whose port it was told.
- the two together: with fewer faults than retries the file arrives.

## The stop-and-wait system

| part | state it keeps | operations |
|---|---|---|
| `rcopy`, `main` | `status` (a set of flags), `sequence`, `retries`, `outpkt`, `tpkt`, the local file | connect; a round of the loop: send `outpkt` if `TRANSMIT`, wait in `recv`, evaluate |
| `server`, `main` | the connection served, the queue of `listen` | `accept`, `client_comm`, `close`, one client after the other in one process |
| `client_comm` | `status`, `sequence`, `retries`, `outpkt`, `tpkt`, the file, its read position, `offset` | a round: send, receive if `RECEIVE`, evaluate, "handle files" |
| connections | two streams each, what each socket knows of its peer | `send` (through `sendErr`, which flips bits), `recv`, `close` |

What is hard here: a bad packet is answered by a request (RET) that takes the
place of `outpkt`, which is put back from `tpkt` later; the answer to a request
may itself be bad, and then each end asks the other; the acceptance of an ACK, the
counting of retries, the read position and the flags live across rounds; there
are no timeouts; `recv` may return part of a packet; sending to a client that has
gone is a signal that kills the only server process.

What makes the parts correct: a file is copied block by block, in order, whatever
is damaged; the server is never ahead of its client; it stops only when the
client has everything or is given up; a client is never left waiting.

## Modules

| module | models | |
|---|---|---|
| `Packet` | `packet.h`, `packet.c`, the packets of `fillWindow` | pure operators |
| `Network` | UDP, `select_call`, the faults | `inbox`, `open`, `due`, `faults` |
| `Client` | `Client::recvPacket`, `recvPackets`, `Run` | handlers: state and datagram to state and reply |
| `Server` | `Server::recvPacket`, `fillWindow`, `sendWindow`, `waitRR` | handlers |
| `Handshake` | `Client::init`, `Server::Run`, `Server::init` | handlers |
| `FileTransfer` | what a copy promises its user | abstract specification |
| `GoBackN` | the transfer: one `rcopy`, one child | composes `Client`, `Server`, `Network` |
| `Session` | the whole program: any number of `rcopy`, the server, its children | composes `Handshake` (and with it `Client`, `Server`), `Network` |
| `HandlerProofs`, `GoBackNProofs` | theorems about the handlers and about `GoBackN` | |
| `HandshakeProofs`, `SessionProofs` | theorems about the handlers, as clients of any child call them, and about `Session` | |
| `OneClient` | no code: the inductive invariant of a `Session` with one client and packets in order | extends `Session` |
| `OneClientHandlers`, `OneClientProofs` | theorems about the handlers under that invariant, and that `Session` keeps it | |
| `StreamPacket` | `packet.c`, `packet.h` of stop-and-wait, `file_to_packet`, and what both loops do with a bad packet and an ACK | extends `Packet` |
| `Stream` | the TCP connections, `sendErr`, the faults | `stream`, `link`, `faults` |
| `WaitServer` | `client_comm` of `server.c` | handlers |
| `WaitClient` | the loop of `rcopy.c` | handlers |
| `StopAndWait` | the programs: any number of `rcopy`, the server | composes `WaitClient`, `WaitServer`, `Stream` |
| `WaitProofs`, `StopAndWaitProofs` | theorems about the handlers and about `StopAndWait` | |
| `MCGoBackN`, `MCSession`, `MCStopAndWait` | instances for TLC | |

A handler is an operator on a record whose fields are the C++ members; it is
used unchanged by `GoBackN` and by `Session`. An action of the composing modules is one pass of `Run`'s or
`Child`'s loop: a datagram (or a timeout) taken, the handler run to its return,
and its reply sent. Three passes are cut finer, because other processes can act
between their sends: `sendWindow` sends one packet per step (`ChildSends`), and
the client's first CXN is a step of its own (`ClientConnects`). The RR to a CXN2
and the `fork` before it are one step: the child cannot tell them apart, having
first to read a packet the client sends after that RR, or to time out.

Correspondences that are not by name:

- *Data.* The file is `LastBlock` full blocks and a shorter one, possibly empty.
  A block's contents are its number, so a wrong block in the local file is seen.
  `EndOfFile` is what `read` returns beyond the end. A control packet's `data` is
  `Fill`, which is no block.
- *Checksum.* A packet with flipped bits is `Flipped` and rejected. That
  `in_cksum` detects every flip is assumed, as the course's library intends.
- *Sizes.* BUF and WIN carry the buffer and the window size. Since a damaged one
  is rejected, the child's copies equal the client's and are constants. They are
  assumed to fit 16 bits, and the window not to be 0: `waitRR` takes `front()` of
  the window.
- *Sockets.* `open` holds the sockets somebody will still read. A client's first
  socket leaves it when `init` switches to the second. A port enters it when a
  child is forked with it; the server never closes its own copy, so what arrives
  at a port with no child is lost without an error.
- *Time.* `due` holds the sockets whose `select` is running out. `Tick` happens
  only when nothing is in flight and all processes wait, and then for all of
  them; each then times out or is woken by what another one's timeout sent, in
  any order. A wait that runs out although an answer is on its way is a fault of
  kind `late`.
- *4 GiB.* `lseek(mvFrom, mvBufferSize * mvSequence)` computes a 32-bit product;
  `SeekSpan` is 2^32 in blocks, and `SeekTo` wraps at it.
- *Interrupt.* `kill` is the user ending `rcopy`.

For stop-and-wait:

- *Which program.* `packet.h` has RR and REJ where `server.c` and `rcopy.c` still
  have ACK and RET; the latter are taken. `rcopy.c` has begun to replace its flags
  by `enum state_t`; the flags are taken, with `TRANSMIT` set at the start, since
  the request is in `outpkt` before the loop. The unfinished statement at
  `packet.c:28` is left out.
- *Rounds.* A round of a loop is two actions, sending and receiving. What follows
  a send in the same round without a `recv` ("handle files" after an ACK) is part
  of the send.
- *Streams.* The programs take what one `recv` returns for a packet, so a stream is
  a sequence of packets. A partial read (`cut`) puts everything up to the next
  moment of an empty stream out of step: it is read as bad packets, and one more
  for the rest. `recv` returning 0 is a bad packet, too, since the checksum field
  of the last one was cleared.
- *Closing.* `link` distinguishes the end of a stream from an RST, and what a
  `send` does then on Linux: the first one after an RST fails, which both programs
  ignore, the next one raises SIGPIPE.
- *Undefined.* Giving up before a file was opened closes `fromfd` uninitialised;
  the outcomes are no effect, the connection, or the listening socket
  (`CommEnds`). The file name is copied without its terminator; `Files` are the
  names that `open` finds all the same. A new packet is `Zeroes`, whose checksum
  is wrong.
- *Twins.* `memcmp` of two blocks is equality unless they are in `Twins`, blocks
  with the same contents. The short block is never one of them.

`Faults` names the faults an instance allows (`drop`, `flip`, `dup`, `reorder`,
`late`, `kill`) and `MaxFaults` how many happen. The programs switch on `drop` and
`flip` themselves (`rcopy.cpp:26`, `rcserver.cpp:15`); `late` is what a loaded
machine does; `dup` and `reorder` are what UDP allows between machines.

Definitions called a *faulty variant* in the modules are used by nothing: each is
a plausible mistake in the definition below it, and shows, put in its place, that
a property notices.

## What TLC checks

Passing runs:

| run | instance | shows |
|---|---|---|
| `transfer` | 4 full blocks and a short one, window 2, 4 retries, three faults of any kind, queues of 6 | the parts of the inductive invariant `IInv`, `IInv`, `CopiesTheFile`: `GoBackN` implements `FileTransfer`; under fairness `TransferCompletes` and `BothExit` |
| `session_safety` | one client, 5 full blocks and an empty one that ends the file, window 2, three of `drop`, `flip`, `late` | the file is safe from the CXN on (`FilesArePrefixes`, `CopiesEveryFile`), the window never passes the client (`WindowsFitTheirClients`), of the handshake's packets that `rcopy` takes for confirmed its child lacks the last at most (`HandshakeIsInStep`), a port has one child, and the inductive invariant `OneClientInv` |
| `session_reordered` | two clients, 2 full blocks, window 2, 2 retries, one of `drop`, `dup`, `reorder`, `late` | whatever child each client reaches: the inductive invariant `IInv`, no window passes what some client has written (`WindowsStayReachable`), a port has one child (with duplicates the file is not safe: `rr_written`) |
| `session_ends` | two clients, one asking for a missing file, 5 full blocks, no fault | everyone ends: the clients (`CopyEnds`), the children (`ChildrenExit`); a copy whose handshake no other client's crosses succeeds (`CopySucceeds`) |
| `stopwait` | two clients, one asking for a missing file, 3 full blocks and a short one, 3 retries, two of `flip`, `cut`, `kill` | client and server stay in step (`InStep`), the inductive invariant `IInv` and the `FilesArePrefixes` it implies, the server stops only after a whole file (`DoneMeansWholeFile`), every copy implements `FileTransfer` (`CopiesEveryFile`), one damaged packet costs no file (`ServedInFull`), and after one fault of any kind no `rcopy` waits forever (`RcopyEndsAfterOneFault`) |

`WindowsStayReachable` speaks of *some* client because a child has no client of
its own: `recvPacket` overwrites `mvAddr` with every sender, and two clients can
get to one child (the root is that of `port_overwritten`). Then the RRs of one slide
the window past what the other has: with `Clients = {c1, c2}`, three ports,
`LastBlock = 1`, `WindowSize = 1`, `PKT_TRNSMAX = 2`, `Faults = {"drop", "late"}` and
`MaxFaults = 3` TLC finds `WindowsFitTheirClients` violated after some two million
states, a run too long to keep here. A client whose CXN was answered twice is told
the port of the child that was forked for the other one, and a REJ leads that one
there, too. With one client `WindowsFitTheirClients` is the same as
`WindowsStayReachable`; `session_safety` checks it.

`HandshakeIsInStep` says how far the answers of `init` can be trusted: the child
may answer a repeated packet with the number of the next one, which `rcopy` then
takes for confirmed although the child has not got it. It is never two packets
ahead: what it has left behind the child has processed, but for the last packet.

Of BUF and WIN nothing is lost by that, since `rcopy` is in `init` still and a REJ
takes it back. The FLN may be lost for good. The child takes the WIN, so its
`mvSequence` is 4, and sends RR(3); `rcopy`, whose wait runs out late, repeats the
WIN, then reads RR(3) and sends the FLN, which is lost. The child answers the
repeated WIN with RR(4) (`Server.cpp:284-286`), `rcopy` takes it for the FLN's and
leaves `init` (`Client.cpp:247-250`). From then on REJ(4) or RR(4) of the child is
above what `recvPackets` expects and gets REJ(0) (`Client.cpp:287-292`), REJ(0) is
below what the child expects and gets RR(4), and every datagram resets the retry
counters. With `LastBlock = 1`, `Faults = {"drop", "late"}`, `MaxFaults = 2` and
otherwise the constants of `session_safety`, TLC finds under `FairSpec` that `rcopy`
stays in `RECV_PACKETS` and its child in `INIT` forever. The line at the root is that
of `init_livelock`, and the property that fails is the same, `CopyEnds`: there
`rcopy` stays in `init`, here it has left it. `HandshakeIsInStep` holds in that state:
the child has BUF and WIN, and lacks the FLN alone.

Runs in which TLC finds a stated behaviour violated (the findings quote the lines):

| run | what happens |
|---|---|
| `init_livelock` | one lost RR in the handshake, and client and child repeat the same packet and the same RR forever |
| `port_overwritten` | two clients connect at once: the child forked for one reads the port the other was told |
| `rr_written` | a duplicated RR of the handshake is written into the file |
| `rewind_wraps` | rewinding beyond 4 GiB sends wrong blocks, and they are written |
| `stopwait_deadlock` | a damaged block and a damaged request for it: client and server wait in `recv` for each other, and the server is lost to everyone |
| `stopwait_twins` | two equal blocks: an old ACK acknowledges the next block, and a block is written in place of another |
| `stopwait_full_blocks` | the empty block that would end the file is never sent: `rcopy` has everything and is killed by SIGPIPE |

Bounds. Sequence numbers are bounded by the file, faults by `MaxFaults`, queues
by `Capacity`; nothing else grows. The file is longer than the window, so that
the window slides, is rewound and runs past the end; in `session_safety` it has
a block 4 followed by others, so that a stray RR(4) of the handshake could be
written. `Ports` has as many ports as CXNs can be sent. Two or three retries are
few enough to be exhausted, by a peer that has gone or whose port nobody reads.
The child of an instance with two clients is one of two or three, which is every
way of mixing them up. Permuting ports is a symmetry: they are only compared.
The action properties checked under it mention all ports alike.

A queue that is hardly larger than a window is not enough for progress: every
packet behind a gap is rejected, every REJ sends the window again, and TLC finds a
schedule in which the repeated packets crowd out the missing one forever (file of
3, window 2, `Capacity` 3; none with 5). `transfer` has 6.

In `stopwait` two faults reach every branch of the two loops: it takes one to be
asked again, and a second one, on the answer, for both ends to be asking. One cut
may exhaust any number of retries, because answers go on arriving behind what is
out of step; hence `ServedInFull` promises nothing then. Deadlock is not checked
in `stopwait` and `stopwait_twins`: after two faults the programs do stop (`stopwait_deadlock`). `Twins` is empty
in `stopwait`; with twins `InStep` is lost after a single fault.

Fairness. Every process is scheduled (weak fairness of its steps) and time passes
(of `Tick`). The fate of a packet and the network's steps are under no
obligation. This is what an operating system gives a process that is runnable or
has a timer (stop-and-wait has no timers), and nothing of the programs' own is assumed fair. Liveness needs
`MaxFaults` to be finite: the programs retry a bounded number of times.

## What is proved

TLAPS checks the proofs for every value of the constants that the named
assumptions of the modules allow, and any number and mixture of faults.

### The go-back-n transfer: `HandlerProofs`, `GoBackNProofs`

For every file, window, retry count of at least two and queue capacity, under the
one hypothesis `FileBelow4GiB` (see `rewind_wraps`):

| theorem | says |
|---|---|
| `InvariantHolds` | `Spec => []IInv` |
| `TypesAreCorrect` | `TypeOK`: type correctness; the child never reaches `DONE` |
| `FileIsCopied` | `FileIsPrefix` |
| `DoneFileIsWhole` | `DoneMeansWholeFile` |
| `WindowIsSound` | `WindowStaysReachable` |
| `WindowIsARun` | `WindowIsContiguous` |
| `FlowIsControlled` | `FlowControl` |
| `AcknowledgementsAreTrue` | `AcksAreTrue` |
| `TransferImplementsCopy` | `Spec => CopiesTheFile`: the transfer refines `FileTransfer` |

The argument. That the file is a prefix is not inductive: a client writes what has
the number it expects, so every data packet in flight must carry the block its
number names, hence so must the child's window and `mvOutBuf`, hence the file
position must agree with `mvSequence` after every shift and rewind. The child
shifts its window by the numbers in RRs and REJs, so these must be true of the
client, however old (`AcksAreTrue`: the client only moves forward, so they stay
true); it follows that the window never passes the client
(`WindowStaysReachable`), and that a rewind never goes beyond it. The window is
full while the child waits (`FullWhenSending`), which is why `front()` exists.
`IInv` is the conjunction. Duplication and reordering preserve it because it only
speaks of the set of packets in a queue. `HandlerProofs` has one lemma per
handler, on states and packets alone; `GoBackNProofs` has one per action.

### Stop-and-wait: `WaitProofs`, `StopAndWaitProofs`

For any number of clients and files, every file length and retry count, under the
hypothesis `BlocksDiffer`, that no two blocks have the same contents. Run
`stopwait_twins` shows that it is needed: acknowledgements are told apart by their
data alone.

| theorem | says |
|---|---|
| `ConnectionsAreSound` | `Spec => []IInv` |
| `TypesAreKept` | `TypeOK` |
| `ServerIsInStep` | `InStep` |
| `FilesAreCopied` | `FilesArePrefixes` |
| `DoneFilesAreWhole` | `DoneMeansWholeFile`, if the last block is not empty (`TailSize # 0`) |
| `RcopiesImplementFileTransfer` | `Spec => CopiesEveryFile`: every copy refines `FileTransfer` |

`DoneFilesAreWhole` needs its second hypothesis because the server never sends an
empty block (`stopwait_full_blocks`): it is done with such a file when the client
still waits for the end. The others hold with an empty last block, too.

The argument. `InStep` is about two counters that only an ACK moves together, so
the invariant says for each connection what either side may have sent it, given
the client's `sequence` n (`FromServer`, `FromRcopy`), and what the packet is that
each side would send again. The server advances only by the ACK of its current
block, and a client acknowledges only what it has written; since blocks differ, an
old ACK cannot pass for a new one. Old ACKs do come again: a data packet that is
not the awaited one puts a request in the place of `outpkt`, and the next good
packet puts `tpkt` back, which may be an older ACK. A request for another block
than the current one is for the next, and the server then sends that one under the
current number; the client, which has the current block, refuses it. That the
server cannot be asked for a block it has passed rests on the order of the
stream: a request follows the ACKs of the blocks before it
(`RequestsFollowAcks`). Damage and partial reads only
take packets away from a stream, and what is sent arrives at its end, so a
property of all packets, and of the order of any two, survives both. `WaitProofs`
has one lemma per handler; `StopAndWaitProofs` splits every action into what it
does to one client's connection and to the others, which it leaves alone.

### The whole go-back-n program: `HandshakeProofs`, `SessionProofs`

For any number of clients and ports, any set of files, every file length, window,
retry count and queue capacity, with drops, flips, duplicates, reordering and
delays, and files of any size (`SeekTo` may wrap):

| theorem | says |
|---|---|
| `SessionIsSound` | `Spec => []IInv` |
| `SessionTypesAreKept` | `TypeOK`: a child talks to clients only, and no child ends `DONE` |
| `WindowsAreReached` | `WindowsStayReachable` |
| `OneClientsWindowFits` | `WindowsFitTheirClients`, if there is one client |
| `PortsAreNotShared` | `ChildrenShareNoPort` |

The argument. Here the queues may hold anything the handshake left behind, and a
child may hear of several clients; what holds is who may have sent what to whom
(`MailIsSound`). To a client's first socket the server sends answers to a CXN or a
CXN2, and children send only when the client was told a port: somebody has to
have sent the child its CXN2 or a later packet. So no child's RR or REJ is
numbered 0 while the client is in `init`, and `init` never falls back to the CXN.
An RR in the queue of a child names a block its sender has written: the client
sends none in `init`, and moves only forward. With these facts an RR that slides a
window is justified by its sender, and a REJ only rewinds; whatever else
arrives, packets of the handshake included, leaves the window alone. A port that
was told is not `fresh`, and the one a CXN2 will fork with has no child yet
(`ListenerIsSound`), so a repeated CXN2 finds `cxn2` down and a new CXN a new port.
`HandshakeProofs` has one lemma per handler; `SessionProofs` shows that what may be
in a queue (`Post`) only grows, that sending, dropping, duplicating and reordering
stay within it, and then that every action keeps the invariant.

### One client, packets in order: `OneClientHandlers`, `OneClientProofs`

For one client and a network that neither duplicates nor reorders
(`OneClientInOrder`), such as a loopback; for any number of ports, any set of
files, every file length, window, retry count and queue capacity, with any number
of drops, flips and delays:

| theorem | says |
|---|---|
| `OneClientIsServed` | `Spec => []OneClientInv` |
| `HandshakeStaysInStep` | `HandshakeIsInStep` |
| `FilesStayPrefixes` | `FilesArePrefixes`, if `FileBelow4GiB` |
| `SessionImplementsCopy` | `Spec => CopiesEveryFile`, if `FileBelow4GiB`: the program, handshake included, refines `FileTransfer` |

With a duplicated packet a file is not a prefix (`rr_written`), and with files of 4
GiB it is not one either (`rewind_wraps`), so these hypotheses are needed. That there is
one client is what the argument rests on: two of them may share a child (see
`WindowsStayReachable` above). Whether the theorems need it is open. With two clients,
four ports, `LastBlock = 1`, `WindowSize = 1`, `PKT_TRNSMAX = 2`, and two of `drop`
and `late`, TLC finds `FilesArePrefixes` and `HandshakeIsInStep` true in all 643,742
states; with three, in the first four million, where the search was stopped.

The argument. `rcopy` writes any intact packet that has the number it expects,
an RR of the handshake as well as a block. That it only ever writes blocks rests
on the order of its queue, so the invariant speaks of pairs of packets
(`MayFollow`): behind what a child sent nothing of the server comes, and behind a
data packet only data. It also says when the handshake's packets are gone
(`ToCome`): once `init` has confirmed packet 2, everything still to be read is the
child's, and once a block is written it is data. No child's RR or REJ that a client
has still to read is numbered 0 (`SentToClient`), so the first thing `rcopy` writes
is a data packet, and everything behind that one is data too. What is left of the
handshake in a child's queue does no harm, because `waitRR` looks at the type.

`HandshakeIsInStep` follows from what a child in `init` has sent and been sent. It
sends no RR or REJ numbered above the packet it waits for (`ChildWrote`). An RR that
`rcopy` takes for a confirmation of packet i carries the number i, so the child
waits for i or a later one. The CXN2 is the exception, since its RR comes from the
server; then the child has been forked and has `mvSequence` 1 at least. That a child
has processed everything below the number it waits for (`HasTaken`) is not for want
of a check in `init`, which counts any packet of the right number: what is not an RR
or a REJ is one of `init`'s own packets under its own number (`OfInit`), and no RR or
REJ can pass for one, because while the child is in `init` its client has written
nothing and sends none above 0. There is one child at most (`OneChild`): the
only client sends its CXN until it is answered and its CXN2s after the last CXN,
and since a queue keeps order, no CXN is left when one forks.

The window (`TrueWindow`) is as in the transfer, with the client's `mvSequence` for
the block expected: true numbers, no further than the client, true blocks;
together with the queue this gives the prefix. `OneClientHandlers` has a lemma per
handler, `OneClientProofs` one per action; `CopyGrows` says of an action that it
appends the next block or nothing, which is the step of `FileTransfer`.

### Only model-checked

- Liveness (`TransferCompletes`, `BothExit`, `CopySucceeds`, `CopyEnds`,
  `ChildrenExit`, `ServedInFull`, `RcopyEndsAfterOneFault`), which TLAPS does not
  reach, like `ENABLED` and induction over data.
- Nothing else: every safety invariant and action property of the passing runs is
  stated by a theorem, those of `session_safety` under the hypotheses above.

## What is not modelled

`client.cpp` and `client.h` of stop-and-wait are the beginning of a rewrite: no
handler has a body, and members it uses are not declared. In stop-and-wait, a
`write` that fails, a descriptor that `close(fromfd)` takes from elsewhere than
the connection or the listening socket, and an answer that leaves `recv` with
parts of more than two packets are left out.

Errors of the system calls (each ends the process), sequence numbers beyond 2^32,
a window or buffer size that does not fit its 16-bit field, checksum collisions,
the wording of messages, and the components `PROJECT.json` lists as such. The
server answers a REJ with `outpkt`. In the runs nobody sends it one; with two clients,
and four losses and delays, TLC finds a client that talks to a child from its first
socket, gets a late RR of the server and takes the server's address for its
child's, so that its REJ would go there. `outpkt` is then written: that is part of
`IInv` (`ClientIsSound`).

`GoBackN` starts with empty queues and both ends ready. `Session` shows what else
is possible there: packets of the handshake in the queues, and a client ahead of
its child.

## Plan

Written: `Packet`, `Network`, `Client`, `Server`, `GoBackN` and its proofs first,
since the transfer is what the program is for; then `Handshake` and `Session`;
then the stop-and-wait programs, `StreamPacket` to `StopAndWait`.

Proofs: `GoBackN` first, then `StopAndWait` (type correctness, `InStep`, the
files, the refinement), then the invariant of `Session`, its windows and
ports, and last the files and the handshake of one client.

Open:

1. An abstract specification of the handshake (a client and a child agree on a
   port and a file), and which part of it `Session` implements.
2. Liveness of the go-back-n transfer after a handshake that went well, with
   faults in the transfer only.
3. The files of several clients, in particular of two that share a child: whether
   `FilesArePrefixes` and `HandshakeIsInStep` hold of every instance, and an
   invariant for them in place of `OneClientInv`.
