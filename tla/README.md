# A verification project for networking_learning

The repository holds five small network programs, `mp0` to `mp4`. They share no
code and do not talk to each other; what interacts is inside each one: a sender
with a receiver, a client with a server, a server with its children, the nodes
of a routing table with their neighbours. This directory models them in TLA+,
checks the models with TLC, and proves the central properties with TLAPS.

## 1. Inventory

| Part | State | Operations | What is hard |
|---|---|---|---|
| mp2 congestion window (`adt.c`, `CongestionWindow`) | window, ssthresh, credit, dupAck, lastAck, state | `ackCwnd`, `confirmThreeDups`, `timeoutCwnd`, `allowSend` | acks out of order, the state machine against the duplicate count, the window at its smallest |
| mp2 sender (`sender_main.c`, `SenderStat`, `Timer`) | sendBase, pending base, lastSent, retrans, timer flag and timerfd, writability | `sendpkts`, `recvAll`, `ackAll`, `merge`, timeout, last packets | one epoll loop with three sources of events; EAGAIN in the middle of a retransmission; a timer that must never be forgotten |
| mp2 receiver (`receiver_main.c`) | file, ring of `WINDOW` slots, ackNum, fin | expected, early and old packets, cumulative ack, flush, 45 final acks | reuse of slots, duplicates and late packets, ack before write, a counting loop without a bound |
| mp2 transfer | both, and UDP | both, loss, duplication, reordering | the end of the transfer (two generals), what an ack promises |
| mp3 linkstate (`linkstate.cpp`) | graph; distances, predecessors and forwarding table per node | read topology, Dijkstra per node, read a change | tie-breaks, tables that live on across changes, unreachable nodes |
| mp3 distvec (`distvec.cpp`) | graph; distances, forwarding table, inbox, change flag per node | rounds of `send_update` and `update_...`, read a change | old vectors read late, end of the rounds, tables that live on while distances are forgotten |
| mp1 exchange (`http_client.c`, child of `http_server.c`) | request and response buffers, content length, output file | `recv_header`, parsing, `respond`, `sendfile` loop, content loop | a stream cut anywhere, a file that changes after its size was promised, `recv` returning 0 |
| mp1 / mp0 server parent | listening queue, descriptors, children, pending signal | accept, fork, close, `sigchld_handler` | signals that merge, children that end at any point, inherited descriptors |
| mp4 simulator (`csma.py`) | a heap of nodes with count, range, statistics; sums of time | `simulate`, `_reinitialize` | the event cut off at the end, several nodes colliding, reuse of a model |
| mp0 file transfer (`server.c`, `client.c`) | an 8-bit size, the file | send size and file; receive both | size cut to 8 bits, loops on end of stream |
| talker, listener (mp0, mp1) | none | one datagram | nothing |
| csma-report, Makefiles, scripts | none of their own | | nothing |

The correctness of each part, in a sentence: the mp2 file is always a prefix of
the source and complete when both ends return; mp3 prints the costs of best
paths, and the hops packets take, whatever the order of lines and changes; the mp1
client's output is the file, and the mp0 client's the part of it that was
announced; no ended child is forgotten and no connection stays open; mp4's times
and counts add up.

## 2. Modules

    Rdt  Cwnd ---------- Sender ---\
      \------------------ Receiver -- Transfer  ==implements==>  ReliableFile
    Topology -- LinkState  ==implements==>  Routing
            \-- DistVec    ==implements==>  Routing
    Forking -- FileServer  ==implements==>  Forking
    Http        Csma
    RdtProofs  TransferProofs  HttpProofs  ForkingProofs
    LinkStateProofs  DistVecProofs  CsmaProofs      Least

`MC*.tla` and `MC*.cfg` instantiate them for TLC. Definitions keep the names of
the C, C++ or Python code where they can.

**Rdt, Cwnd** (mp2). What both ends share; the congestion window as a record and
one operator per function of `adt.c`. `dupAck`/`ack` function pointers are a
function of the state and are not kept. `SeqSpace` is 2^32: only `lastSent`
starts outside the range of chunks, at (uint32_t) -1, which is `NoSeq`.

**Sender** (mp2). The epoll loop is cut at the points where something else can
happen: `SendPkt` (one packet of `sendpkts`), `SendBlocked` (EAGAIN),
`SendStop`, `WakeAck`/`WakeIdle` (epoll_wait returns), `ReadAck` (one ack,
`ackAll`), `TimerEvent`, `Merge`, `Close`. The timer is two variables: the
program's flag `running` and the timerfd `fd`, whose expiry `TimerExpires` is
the kernel's. `MayBlock` says whether a socket buffer may be full.

**Receiver** (mp2). One action per kind of packet (`RcvExpected`, `RcvAhead`,
`RcvOld`, and the ones that are refused), one per chunk written from the ring
(`WriteSlot`), the final acks, and `Spin`, the counting loop with every slot full.

**Transfer, ReliableFile** (mp2). Both ends over a network: with `Duplicating`,
any packet ever sent may arrive at any time, any number of times, or never;
without, each arrives once or is lost, at most `MaxLoss` times. `ReliableFile`
is the promise: chunks are taken over in order, the file lags behind what was
taken, the sender knows of no chunk not taken, and finishes only when all are.
The refinement mapping is taken <- ackNum, written <- file,
confirmed <- sendBase, finished <- pc = "done".

**Topology, LinkState, DistVec, Routing** (mp3). `Topology` reads lines into the
graph. `LinkState` visits one node of Dijkstra's algorithm per step; `DistVec`
handles one message per step, the vectors being copied when sent. `Routing` is the
promise, and knows neither algorithm: read lines, and whenever results are printed,
print for each node rows of best costs and first hops (a table that satisfies the
Bellman equations, any of the best hops), and for each pair of nodes the hops
that a message takes when every node on its way forwards it by its own table, or
that it is unreachable. The refinement maps `rows` and `ways` to what
`print_results` and `print_messages` read at that moment: for linkstate the walk
back along the source's own predecessors, for distvec the forwarding tables.

**Http** (mp1). One connection. Headers are sequences of pieces the last of which
is the empty line; every read takes any number of what has arrived. The world may
cut, extend or remove the file, kill the client or reset the connection.
`ClientSpins` and `ServerSpins`, and a `SendFile` that sends nothing, are loops
on a call that returns 0: steps that change nothing.

**Forking** (mp1's and mp0's server). The parent's loop, the SIGCHLD handler that
interrupts it anywhere, the kernel's pending bit, and which process holds which
connection. The handler's last `waitpid` (`NoneToReap`) and its return are two
steps, since a child may end between them.

**FileServer** (mp0). `Forking` composed with what its children and clients do with
the connections: a child sends one byte with the size of the file, cut to a
`uint8_t`, then the file (`SendSize`, `OpenFile`, `SendFile`, `ChildEnds`); a
client reads the size, then as many bytes (`RecvSize`, `RecvData`). A client meets
the end of its stream when no process holds the other end, which is where the
descriptors of `Forking` matter. `fork` may fail; the world may cut, extend or
replace the file, remove its name or bring it back, change a file that a child has
open, or reset a connection. Results of `recv` are unsigned in the client, so that
an error passes for a size; `RecvSize` says what follows. When `stat` fails at the
start, `file_size` is not initialized: any value, also when the file is there by
the time a child opens it. The client's buffer (`MaxData`, 100 in the code) is
shorter than what may be announced (up to 255), and nothing is assumed of the
sizes: a client that writes past its buffer is in the place `overrun`, after which
it may do anything its connection allows (`Undefined`).

**Csma** (mp4). An iteration of `simulate` is two steps, and the loop over the
colliding nodes is one step per node. The heap is not reduced to its minimum:
after each call it is any arrangement that heapq's invariant allows, because the
program looks at the places 1 and 2 of the list. randint is any value of its
range. A model starts without nodes, as in `csma-report.py`; `CSMA(config)` with
nodes is the same as adding them with the first `simulate(N)`.

**Least** holds the lemmas that stand in for induction in the proofs about mp3 and
mp4: a set of natural numbers that is not empty has a least element; so has a set
under a function into them; costs that no link can lower are the least.

## 3. Runs

| Run | Question | Bounds |
|---|---|---|
| `sender` | Do timer, window and sequence numbers stay consistent for any acks and timeouts, with full socket buffers? | 5 chunks, window up to 6, 3 duplicate acks: slow start, congestion avoidance, fast recovery and timeout all occur, several times |
| `receiver_ahead` | What is left when the sender is one packet further ahead? File and acks are right; the receiver may spin | 8 chunks, ring of 4, so that each slot is used twice; lead 5 |
| `transfer` | Are both right together, and is it `ReliableFile`? Do file and ring agree, each slot used twice? | 6 chunks, ring and window 3, any loss, duplication and reordering, full buffers |
| `transfer_live` | Does every transfer end, and is the sender never asleep without its timer? | 2 chunks, 3 final acks, 2 losses: fewer than the final acks |
| `overrun` (violated) | Is the packet in the slot the one that is written? | window up to twice the ring |
| `stranded` (violated) | Is a chunk without an ack always timed? | as `sender` |
| `linkstate` | Dijkstra's order and ties, and `Routing`: are tables and hops right? | 4 nodes, costs 1 and 2, every 5 lines: paths of 3 links, ties, links added, changed and removed, nodes cut off |
| `distvec` | Loops, forgotten improvements, ties, convergence, `Routing` | the same with 4 lines; `INT_MAX` is 7, above every cost of a path (at most 6) |
| `http` | Is the output the file, however the stream is cut and whatever the world does, and who may wait for ever? | files up to 3 bytes, 3 faults; reads of 1 to 4 pieces, so header and content meet in one read |
| `fileserver` | Do clients get the file's bytes, and which sizes stay inside the buffer? Are all children waited for, all connections released, all clients served? | 2 clients that come back for ever: one child ends while the handler waits for the other; a size that is cut (6 modulo 4) and fits the buffer of 3; without a file any size, one of which leaves no room for the final 0, and a file that appears later; one fault, fork failing at will |
| `lost_size` (violated) | Is a failed `recv` of the size fatal, as the client's error branch says? | as `fileserver` |
| `csma` | Does the time add up, does one node transmit at a time, does each collision and each packet count once, does every step lead to the end, is it reached? | 3 or 4 nodes (4 make the heap's arrangement matter), ranges 1 and 2, 4 units of time, packets of 2, two simulations in a row |

Bounds named in the modules: `MaxWindow`, `MaxLoss`, `MaxLines`, `MaxFaults`,
`MaxRuns`, `TolTime`, `MaxSize`, `SizeSpace` (2^8 in the code), `MaxData` (100 in the
code). `MaxLines` only ends
the input, `MaxFaults` only stops the world. `MaxWindow` is a real restriction, see below.

### What the properties say

The properties stand at the end of each module with a comment each. The ones that
carry most:

- *sender*: the timer flag always matches the timerfd (`RunningIffArmed`), the
  timer is off while a retransmission is due (`RetransTimerOff`), the number of
  duplicate acks matches the state (`DupCountMatchesState`), `lastAck` is the
  pending base although two functions filter acks in different ways
  (`LastAckIsBase`), a step only sends inside the window (`SendsInWindow`).
- *transfer*: `RingHolds`, `NoSpin`: a slot holds only the chunk that belongs there
  next; `BaseBehindReceiver`, `InFlightBounded`, `DoneMeansReceived`: the empty last
  packets have number 0, like the first chunk, and are harmless only because the
  receiver has left its loop by then (`LastPktUnread`, a theorem). That the file is a
  prefix of the source is part of `ReliableFile`; `FilePrefix` and `AcksHeld` are
  checked of the receiver run too far ahead: even there an ack is never ahead of what
  is held.
- *mp3*: `ImplementsRouting`, which includes that packets forwarded from table to
  table arrive although each node breaks ties for itself, and that tables which
  live on from change to change forget what is out of reach; the tables of distvec
  are free of loops in every round (`LoopFree`), no better path is lost
  (`NothingForgotten`), and a step of the rounds that makes no table better leads to
  their end (`Progress`).
- *mp1*: a client that returns 0 has the file, and one that fails lost its
  connection or asked for what is not there (`OutputIsFile`); a child that exits
  with 0 left enough for its client (`ServedInFull`); each end finishes, but for
  the waits that are named: a child for the rest of a request whose client is dead
  or for bytes its file has lost, a client for such a child or one that failed
  (`Answered`).
- *mp0*: `PrintedIsFile`: however the stream is cut and whatever happens to the
  file, a client holds the file from its start, and returns 0 only with what was
  announced (or nothing, after a reset: finding 3); it leaves its buffer only
  when the announced bytes and the final 0 do not fit. `Delivered`: every client is served, whatever other children do. `NoLostZombie`,
  `OwnConnection`, `Reaped` of the parent.
- *mp4*: `TimeAccounted`, `OneSender`; `CollisionsCounted` and `PacketsCounted`, which
  relate what the nodes count to the time that was spent; `Progress` and `Ends`.

### Fairness

`Completes` assumes that both programs run when they can (weak fairness of their
steps), that an armed timer expires, that a socket buffer does not stay full
(strong fairness of `SendPkt`), and that a packet that is not lost is read when
its reader returns to the socket again and again (strong fairness per packet).
That is what a kernel and a network that is not cut off give. Without a bound on
losses below the number of final acks, the transfer need not end: the receiver
sends its 45 final acks and leaves, and a sender that got none retransmits for
ever. `Converges` and `Ends` assume that distvec and the simulator, sequential
programs, run on; nothing is assumed of `randint`: a node that draws 0 again and
again still ends the simulation. `Answered` assumes that both processes run.
`Reaped` and `Delivered` assume that the parent runs and the kernel delivers
signals, and that children and clients run on; the faults need not happen nor stop.

## 4. Disagreements found

1. `overrun`. Nothing keeps `cwnd.window` at or below the receiver's `WINDOW`
   (4096). A packet a turn of the ring ahead lands in a slot that is used; the
   flush loop, which is to "write that packet to the file", then writes another
   chunk in its place, or the packet is taken for one that is there already.
2. `stranded`. `merge` overwrites `retrans` with `threeDups`. If a retransmission
   was stopped by EAGAIN, with the timer stopped for it, the next plain duplicate
   ack makes the sender forget it: it sleeps with chunks unacknowledged and the
   timer off. With `MayBlock = FALSE` this cannot happen (`Guarded`, proved).
3. `lost_size`. The mp0 client keeps the result of `recv` in a `size_t`, and tests
   it with `bytes_received > 0` before it compares it with -1. So an error passes
   for a size, and the branch that says "Error receiving file size." and exits is
   dead: the client goes on with the size 0 and reports a transfer of 0 bytes.

Seen while reading, and not runs, as no text of the repository says otherwise:
the client loops for ever on `recv` returning 0 when a server fails after its
header, as it does for a directory (`http_client.c:208`); a server child does so
when a client dies early (`http_server.c:103`) and when a file is cut while it is
sent (`http_server.c:351`); a failed `fork` closes the connection unanswered;
`csma.py` raises IndexError if all nodes collide and all draw 0, and with two
nodes; `csma-report.py:66` passes `fn(n)` where it needs `fn`; mp0 cuts sizes to
8 bits, and its client receives up to 255 announced bytes, and a 0 behind them,
into a buffer of 100 (`client.c:94`): `PrintedIsFile` says for which sizes this
happens, and that it happens for no others.

## 5. Proofs

All theorems hold for every value of the constants that satisfies the modules'
assumptions, except as said.

**RdtProofs, the sender.** `SInv` strengthens the type invariant with the relations that
the actions need from each other: what `pc` says of the timer, of pending acks and
of `retrans`, and `CwndOK`, the shape of the window record (no state without
`window >= 1` and `ssthresh >= 1`, the credit below the window). `SentInv` ties the
packets sent to `lastSent` and the window. They give `SenderTypeCorrect`,
`TimerCorrect`, `RetransTimerCorrect`, `LastAckCorrect`, `WindowCorrect`,
`SentWithoutGap`, `SendsInWindowHolds` and `BaseMonotoneHolds`. `GuardedHolds` needs one more, `GuardInv`, and assumes
`MayBlock = FALSE`: `stranded` shows that it must.

**RdtProofs, the receiver.** `RInv` says which chunk a slot may hold: one of the turn of the
ring that starts at what is written. `SlotUnique` (two numbers less than a turn
apart do not share a slot) is the arithmetic behind it. It gives
`RingCorrect` (no chunk in the slot of another, no spin) for `Lead <= Window`.
`AheadInv` lets the sender run one packet further, a whole turn of the ring, which
is what `receiver_ahead` checks: the slot of the expected chunk may then hold the
one a turn later, but the expected chunk is written without going through the ring.
It gives `FilePrefixHolds` and `AcksHeldHolds` (and leaves complete), for
`Lead <= Window + 1`; there the receiver may spin. `overrun` shows what happens
beyond: not even the file is right.

**TransferProofs.** `TInv` joins both invariants with `NetInv`: acks in flight and
the sender's bases do not exceed `ackNum`, data in flight is below
`ackNum + Window`. So the premises of the two components (a receiver that
acknowledges prefixes, a sender at most a ring ahead) are discharged by each
other. It gives `TypeCorrect`, `FileCorrect`, `RingStaysRight`, `CountingEnds`,
`AcksCorrect`, `BaseCorrect`, `FlightCorrect`, `EndCorrect`, `LastPacketLeft` and
`Refinement`: the transfer implements
`ReliableFile`. All assume `MaxWindow <= Window`, which the code does not ensure:
finding 1.

**LinkStateProofs.** `LInv` is inductive; its core is `Tree`, what Dijkstra's loop
keeps of one root: visited nodes are the nearest, their links are relaxed, and a
predecessor is the smallest among the equally good visited ones (`VisitTree` is the
step). When all nodes are visited the tree determines the table (`Table`). The
tables of all roots together give what no single run of the algorithm shows:
distances of different roots obey the triangle inequality (`Triangle`), two roots on
one best path see the same last node (`SamePred`), a first hop lies on a best path
(`FirstHopIsBest`), so the hops collected from the source's own predecessors are
those that the tables of the nodes on the way take (`WaysAreRight`). It gives
`VisitedStaySettled`, `SmallestPredTaken` and `Implements`: linkstate implements
`Routing` for every set of ids, all costs, and any number of lines.
`CostsAreDetermined`, of both programs, is about what `Routing` asks for: the
equations of best paths have one solution (`LeastCosts`: the least counterexample
would have a link to a lower one), so the lines read determine the costs that are
printed, and both programs print the same ones.

**DistVecProofs.** `DInv` says where vectors and unreported changes may be in each
phase, that a node's distances have only become smaller since a vector was sent,
that every pair of neighbours is settled or has an improvement on its way
(`SettledInv`), and that the tables are free of loops (`LoopFree`: a hop is strictly
nearer, by its own vector of the moment). It gives `NoLoops`, `NothingIsForgotten`,
`SmallestIdTaken` and `Implements`: when the rounds end nothing is on its way, so
all pairs are settled, and a settled table is a best one. `EachStepProgresses` is the
part of convergence that is not about fairness: each step lowers, of four natural
numbers, one and none before it. The first counts the entries (a cost and a hop)
that are better than those in the tables; a change makes them fewer
(`TakenIsBetter`), and is the only thing that adds a round.

**CsmaProofs.** `HeapInv` says that the heap holds each member once, in heap order;
`SecondOrThird` that in such a heap the nodes at places 1 and 2 count least after
the first, which makes two looks enough to find a collision (`OneSenderHolds`).
`TimeInv` adds what each place of the loop still has to count, and gives
`TimeIsAccounted`. `IdleInv` (what is counted down is the least count) keeps the
counts natural (`CountsStayNatural`). `CountInv` says that in a collision each node
still to back off has not counted it yet (`BacksOffReady`: one that draws 0 is set
aside), and that those who have and those who will are two per collision;
`PacketInv` that the packets counted make up the sending time. They give
`CollisionsAreCounted` and `PacketsAreCounted`; the sums over all nodes are
cardinalities of sets of pairs, of a node and a number up to its count.
`EachStepProgresses` shows that a natural number, of the time left and of the nodes
that have to back off, falls with every step, so no draws keep a simulation from its
end. All hold for any number of nodes and any configuration.

**HttpProofs.** `HInv` says of each place of the client and of the child what the
stream holds: the pieces read and those on their way are one sequence (`FoundAt`, or
`NotFoundAt` for an answer without a file) that reaches exactly as far as the child
has sent, unless the connection broke or the child failed (`FoundInv`). It is needed
because a read may end anywhere, in the header or in the content, and `OutputIsFile`
is about the output alone. It gives `OutputIsFileHolds` and `ServedInFullHolds`, for
files of any size and any faults.

**ForkingProofs.** `FInv` adds that a queued connection has no child yet and is
queued once, and that `newFd` is the connection between accept and close. It gives
`NoLostZombieHolds` and `OwnConnectionHolds` for any set of clients.
`ServiceIsForking` shows that the server of mp0, composed with its children and
clients, implements `Forking`, so both hold of it. On top of `FInv`, `EInv` says of
each exchange that what is on its way continues what the client has read, and
reaches as far as the child has sent, and that a client waits for just what was
announced, which is why it leaves its buffer only for a size that does not fit. It
gives `PrintedIsFileHolds`, for files of any size, whatever they become, and any
buffer.

The theorems on mp3 and mp4 need inductions over distances, hops and heap places.
They are done by least counterexample (`LeastNatural`, `LeastValue`, from the
library's well-foundedness of inclusion), and recursive functions (`FirstHop`, hops)
are shown to exist before they are used.

Every invariant and every action property that a run checks is a theorem. Only
model-checked: liveness (`Completes`, `Converges`, `Ends`, `Answered`, `Reaped`,
`Delivered`), which is about fairness and beyond the prover.

## 6. Not modelled

The text of any output or header; arguments, addresses and listening sockets;
failed system calls that end the process (other than those of the exchanges); byte
offsets and sizes past 2 or 4 GiB; a second mp2 transfer to the same port, and
packets from a second sender; the loss of part of a header in `respond` after a
short send (headers are short, and its sockets block); mp3 messages that name nodes
which do not exist; growing a CSMA model after nodes were dropped from it (their
ids would not be unique); talker, listener, the plots and the build.

The overflow of path costs in mp3: they are sums of natural numbers in the model and
of `int` in the code (`linkstate.cpp:109`, `distvec.cpp:107`), so the models say
nothing of networks with paths that cost more than `INT_MAX`.

The retransmission timer is 80 ms in the code (`constants.h`); time has no measure
in the model, a timer may expire at any moment.

## 7. What is left

1. Composing `Http` with `Forking` as `FileServer` is.
2. A second mp2 transfer to a receiver restarted on the same port, where a late
   last packet of the first has the number of the second's first chunk.
3. A receiver that dies of a failed write after its ack.
