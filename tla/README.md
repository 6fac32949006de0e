# VT_Mechanisms: models, checks and proofs

The repository compares ways of advancing virtual time for programs on a mininet
topology: a router, a client and a server whose rounds are paced by the TimeKeeper
kernel module. This directory models those programs in TLA+.

## The system

| Part | State | Operations | Talks to |
|---|---|---|---|
| main thread of router, client, server (`router_app_vt.c`, `client_n_vt.c`, `server_n_vt.c`) | `per_round_advance`, `ret`, `time_elapsed` | ack and take a command, grant, skip, account, stop, join | TimeKeeper by ioctl; the worker by two pipes, `is_blocked`, `stop` |
| `update_stub` and the blocking code of the workers (`utils.c`) | `exp_curr_round_time_us` | first command, charge, end of round, block, resume | main |
| router worker, `process_thread` (`utils.c`) | poll set, packet buffer, sockets | poll, scan, receive, look up, send, block | kernel sockets, `update_stub` |
| plain router (`router_n.c`) | the same without virtual time | the same | kernel sockets |
| routing table (`utils.c`, `linkedlist.c`) | list of entries | read the routes file, look up | routers |
| hash map (`hashmap.c`) | buckets of keyed elements | put, get, remove, destroy | `update_stub` (costs by hash of name) |
| command parser (`router_app_vt.c`) | position in the command text | tuples, STOP, advance | main |
| client and server loops (`test/`) | request number, statistics | request, wait for the reply | each other, UDP |
| orchestrator (`mininet/experiment.py`) | host and switch processes | start, synchronize, progress, stop | TimeKeeper, all programs |
| topology and route files (`mininet/apptopo.py`, `routes/`) | links, interfaces, addresses | wire the nodes, name the interfaces | routers, raw client |
| raw UDP client and server (`test/udp_*_n.c`) | the packet, the file of MAC addresses | build, send, receive | routers |

What is hard here: two threads that share two flags and two pipes without a lock;
pipes that carry undelimited text; calls whose results are used after any number of
rounds have gone by; names and numbers that are kept in five files and must agree; packets that come, or never come, at any moment; exits that tell
nobody; a stop that must reach a thread wherever it is.

`PROJECT.json` lists every component with its status, every hazard with its line and
the properties that cover it, and, for every definition that models code, the lines.

## Modules

| Module | Models | Correspondence |
|---|---|---|
| `Pipe` | `pipe_send`, `pipe_read` | a pipe is the sequence of integers not yet read; a read takes all and returns what `atoi` makes of their text |
| `RoundClock` | abstract | the clock TimeKeeper sees: a round adds the advance asked for and an overshoot of at most one call, which is reported |
| `VTProtocol` | main's loop; `update_stub` and the blocking code of any worker | `mpc`, `wpc` are program points; a step touches at most one pipe or flag; other variables have the names of the code |
| `RouteLookup`, `RouteTable` | `get_dst_sock_idx` | entries in file order, the last match decides, an unknown interface becomes the first; `RouteTable` is one router's table |
| `Topology` | `AppTopo`, the naming of interfaces, `populate_routing_list`, `populate_arp_list` | the manifest's links are wired in the order of the calls of `addLink`; a line of a file is a sequence of words and blanks, and an entry is made of it as the loops over its characters do |
| `Channel` | abstract | the packets of each flow, from one host to another: they may be lost, and arrive in order, each once |
| `Network` | raw client, routers, receiver | a router is the head of an interface's queue sent on by its table, as in `Forwarder`, which `RouterVT` implements; a packet's headers are the words the checksums are taken over |
| `Forwarder` | abstract | per interface the packets leave in order, each by its route, or are dropped or lost; a packet is queued for its interface only, one that comes before a socket is bound for one more at most |
| `RouterVT` | `process_thread` of the router, `rawSocket`, `send_packet` | extends `VTProtocol`: `rpc` names the next call made at `wpc = "run"`; each call is an action of `VTProtocol` joined with its effect on the packets |
| `RouterN` | the loop of `router_n.c` | one action per call of the loop; packets are destinations and arrive without end |
| `RequestReply` | the loops of `client_n.c` and `server_n.c` over UDP | one action per call of `sendto` and `recvfrom`; the network keeps the order, may lose a datagram and may double one |
| `ClientVT` | `process_thread` of `client_n_vt.c` | extends `VTProtocol` as `RouterVT` does; the server and the network are those of `RequestReply` |
| `ServerVT` | `process_thread` of `server_n_vt.c` | the same with the sides exchanged |
| `CommandParser` | `ack_and_get_next_command`, `get_next_command_tuple`, `get_next_value`, `str_to_i`, and main acting on the result | extends `VTProtocol`: a step of the parser is one pass of the loop, while the worker goes on; the text is a sequence of characters, an int is less than `IntLimit` |
| `ItemList`, `KeyMap` | abstract | what a list and a hash map promise: a sequence of items, a function on names |
| `StringHash` | `str_hash`, `abs` | an int of 32 bits is two halves; a name is the sequence of its codes |
| `LinkedList` | `linkedlist.c` | cells with `next`, `prev`, `item` on one heap; an operation maps a heap and a list to their new values, in the order of the code's assignments |
| `Containers` | every call of `linkedlist.c` and `hashmap.c` | one action per call, for a list and a hash map whose buckets are lists of the same heap; an element is kept under the hash of its name; an allocation may fail |
| `Experiment` | `main` of `experiment.py` | `epc` is the place in main; `prog` is what each program has done, `exp` what TimeKeeper has been told |
| `VTProtocolProofs`, `RouterVTProofs`, `ClientVTProofs`, `ServerVTProofs`, `RequestReplyProofs`, `CommandParserProofs`, `ContainersProofs` | | the theorems below, about the module each is named after |
| `PlainProofs` | | the theorems about `RouterN`, `Network` and `Experiment` |
| `MCVTProtocol`, `MCRouterVT`, `MCRouterN`, `MCClientVT`, `MCServerVT`, `MCContainers`, `MCCommandParser`, `MCExperiment`, `MCNetwork` | | values for TLC |

How they fit together: `CommandParser` decides what `VTProtocol`'s main is told;
`RouterVT`, `ClientVT` and `ServerVT` are workers of `VTProtocol`; `RouterVT` is a
`Forwarder` with the table of `RouteTable`, and `Network` joins such forwarders, with the
tables `Topology` reads from the files, into what `Channel` states of each flow; `RequestReply`, which
the client and the server implement, assumes of the network no more than that, and that a
datagram may be doubled, as a router does while it opens its sockets.

Definitions marked "Faulty" are variants of the definition after them with one
plausible mistake each. No specification uses them; each shows that some property
notices the mistake.

Modelling decisions:

- `update_stub` falls off its end without a return value when the round goes on
  (`utils.c:583`). The Makefile sets no optimisation, and in the committed `router_app_vt`
  the register that holds the result then holds `*curr_round_time_left`, which is
  positive; the callers' test `< 0` is false. The model returns "go on".
- `is_blocked` and `stop` are plain ints. Every access is next to a system call, so each
  is one atomic step of its own; a write that becomes visible late is an interleaving
  in which it happens late.
- TimeKeeper is outside the repository. It may answer an ack with any member of
  `Advances`, with a failing ioctl (`DefaultAdvance`, 100 in the code) or with the stop.
  `n_insns / 1000` may be 0, so `Advances` may contain 0.
- `MayFail` lets `rawSocket`, `poll`, `recvfrom` and `sendto` fail.
- Write and read errors of pipes and failed allocations end the process and are left out.
  Two allocations are not such: that of a list's cell, whose failure is modelled, and the
  element that `hmap_put_abs` takes, unchecked, before it looks for the key (`hashmap.c:148`),
  which is taken never to fail. Elements are not counted: `HeapExact` is about the cells of
  the lists, and the element lost at `hashmap.c:164` when the list has no memory for its cell
  is outside it.
- In `Experiment` TimeKeeper counts the programs that have registered and live. Were it to
  count those gone as well, it would take fewer for enough. The calls of Mininet and
  TimeKeeper succeed, or wait, but for `initializeExp`; the interrupt key is left out.
- `used` (time charged), `idle` (time blocked) and `rounds` are history variables. The
  counters of the code are unbounded integers in the model; an `int` of microseconds
  overflows after 35 minutes.
- In `RouterVT` a packet is its number, the interface it came in on, its destination, and whether it
  came while a socket was created and not yet bound. In `Network` it is its flow and its
  number: the headers, which no router changes, are `Packet[f]`.
- In `Network` the routers have bound their sockets and their tables do not change, so
  what each sends where is computed once (`output`). The links have no delay; frames wait
  in the queue of the interface they came in on. The kernel of a receiver is taken to drop
  what is not for it or has a wrong checksum.
- `populate_routing_list` compares with the size of `getline`'s buffer, which is never 1:
  each line becomes an entry, also a blank one.

## What is checked

| Run | Bounds | Shows |
|---|---|---|
| `protocol_safety` | commands of up to 2 tuples, 4 numerals, 2 pids, 3 endings, ints of 6 bits, 10 instructions a microsecond; advances {0, 2, 5}, costs {2, 3}, 4 rounds, failures | `TuplesInOrder`, `Understood`, `TypeOK`, `TurnInv`, `OneMessage`, `GrantFindsReader`, `ClockAccounted`, `NoCallAfterStop`, and that the threads implement `RoundClock` |
| `zero_round` | advances {0, 3}, no failures | violation of `ExitOnlyOnStop`: a grant of 0 ends the worker, and main waits for ever |
| `stop_quiet` | no packet need come | violation of `StopEndsProgram`: a worker asleep in `poll(-1)` never learns of the stop |
| `router_safety` | 2 interfaces, 2 packets, 4 rounds of 5, costs 2 and 3, failures | `RecvNeverBlocks`, `SentOnce`, `ForwardingPaid`, `Forwarder` and `VTProtocol` implemented; `RoundAnswered`: each round is answered unless a socket fails while the worker is awake |
| `router_liveness` | the same with rounds of 2 and 5, no failures | `StopEndsWithTraffic`, `ExitOnlyOnStop` under plain scheduling of the threads |
| `client_vt` | 6 rounds of 3, costs 1 and 2, loss, 2 datagrams doubled or receptions failed | `BacklogBounded`, `ReplyAnswersRequest`, `RoundAnswered`; the client is a worker of `VTProtocol` and is the plain client (`PlainClient`) |
| `server_vt` | the same | `BacklogBounded`, `RoundAnswered`; the server is a worker of `VTProtocol` and is the plain server (`PlainServer`) |
| `client_send` | no loss, no doubling | violation of `RequestPaid`: sending a request takes no virtual time |
| `router_n` | 3 interfaces, 2 packets a socket, endless arrivals, failures; packets without a route on interface 2 | `RecvNeverBlocks`; `ServedUpToNoise`: interfaces 1 and 2 are served whatever arrives |
| `containers` | 4 cells, 3 entries, 2 values, 4 names ("", poll, recvfrom, send_packet) in 2 buckets, allocations that fail | `WellLinked`, `HeapExact`; the lists implement `ItemList` (`ListKept`) and the hash map `KeyMap` (`MapKept`) |
| `network` | the manifest's 4 hosts and 3 routers, 4 sets of routes files, 3 flows of 2 packets, with and without loss | `RoutesLead`, `OnPath`, `Delivered`; each flow, also one with a bad line, is a `Channel` (`InOrder`) |
| `experiment` | 2 hosts, 2 switches, 5 modes, programs that register or exit at any moment, exceptions, processes in state D | `ProgressComplete`, `Ends`, no deadlock |

The advances and costs are small multiples of an abstract unit chosen so that a round
can end exactly at a charge, be exceeded by one or two units, hold one call or several,
and last no time. Four rounds give every order of a normal end, a block, a skipped round
and a stop. In `RouterVT` they suffice to read both packets on either interface, to send
one twice after the start-up race, to drop one in the middle of a scan, and to block with
a packet pending. Two packets of one interface show order; one on each interface shows a
scan across interfaces. Six rounds of three hold several requests of the client and put
the end of a round at every point of both loops; two extras double a request and its reply, or make both sides'
`recvfrom` fail. `protocol_safety`, `router_safety`,
`stop_quiet`, `router_n`, `client_vt` and `server_vt` do not check deadlock because the
program may stop there, as it does in the code; in `network` everything may have been sent
and received. In `router_n` the noise is on
the middle interface, so that there is one before it, one that has it and one behind it.
`router_liveness` has the short round because a single call can exceed it.

Four cells fill a list of three with one left over for the other lists, so that first,
middle, last and only cells, a full heap and a cell used again all occur. The empty name, poll
and recvfrom share a bucket, and the key of the empty name, 0, is the one the code gives to
a removed element. Cells, entries and
values are interchangeable and only safety is checked there, so symmetry is sound. Six
bits give every case of an int: 27 and 4 are positive (4 is less than a microsecond), 60
is negative and less than one, 50 is negative and makes an advance of -1, the number that
means STOP. Two tuples are a first, a last, and an only one. The
advances they make, 0, 2 and 5, are a round of no length, one shorter than a call and one
that holds two. In `experiment` two programs
of each kind show some registered and some not.

In `network` two flows cross each other on all three routers and a third joins one of them
in a queue, two packets show the order, and the edited files are a blank line, a missing
line, and a blank after a name, in the first router (packets go to the wrong host) and in
the second (they go round between the two for ever).

Fairness. `VTFairSpec` schedules both threads (weak fairness) and assumes that a worker
does not make uncharged calls for ever (strong fairness of a charge or a block): each loop
of the workers contains `poll` or `flush_buffer`. `RouterFairSpec` does not assume it:
weak fairness of the two threads is enough there, which is what `router_safety` and
`router_liveness` add. A worker whose `poll` has failed goes on to its exit; no call need
fail.
`ClientFairSpec` and `ServerFairSpec` are the same for the client and the server: each
schedules its own two threads; the other side and the network need do nothing.
TimeKeeper is assumed to answer each ack and to stop after `MaxRounds` rounds, as the
experiments do. Packets are not assumed to come, except in `StopEndsWithTraffic`. In
`RouterN` the process is scheduled (weak fairness of the loop), and the reads of a socket do
not fail for ever (strong fairness, per interface); no packet need arrive. In `Network` each
interface of a router is served, which is what `ServedUpToNoise` says of an interface
without noise before it: in these instances packets without a route come in on the last
interface only. In `Experiment`
the orchestrator runs, and a program that lives registers (each `main` calls `addToExp_sp`
before its loop). It is not assumed that a process in state D leaves it while main looks:
`Ends` excepts a run in which main finds one so again and again.

## What is proved

`VTProtocolProofs` proves, for every set of advances (naturals), every set of positive
costs, any number of rounds and with or without failures:

| Theorem | States |
|---|---|
| `TurnsAlternate` | `TurnInv`, the inductive invariant |
| `TypeCorrect`, `Framing`, `GrantsFindReaders`, `ClockExact`, `StopIsFinal` | `TypeOK`, `OneMessage`, `GrantFindsReader`, `ClockAccounted`, `NoCallAfterStop` |
| `ImplementsClock` | `VTSpec` implements `RoundClock` |
| `ExitsOnlyOnStop` | if 0 is no advance, `ExitOnlyOnStop` |

None of the safety properties is inductive by itself: that a pipe is empty when it is
written follows from whose turn it is, and the clock is exact between rounds because
within one it lacks `adv - curr`. `TurnInv` therefore splits the states into four
(`BetweenRounds`, `Granted`, `UnderWay`, `Answered`) and says for each what the pipes hold,
where the worker can be and what the clock lacks; `Flags` ties `is_blocked`, `stop` and
`adv` to the program points. Each action moves between two of the four or stays in one,
and `MainTurnInv` and `WorkerTurnInv` have one step per action. `ExitsOnlyOnStop` needs its
assumption: `zero_round` shows the theorem false without it.

`RouterVTProofs` proves, for every routing table, every set of interfaces, any number of
packets that come at any moment, and with or without failing calls:

| Theorem | States |
|---|---|
| `ImplementsProtocol` | the router is a worker of `VTProtocol` (`ProtocolRefined`) |
| `RouterKeepsTime` | hence `TypeOK`, `OneMessage`, `GrantFindsReader`, `ClockAccounted`, `NoCallAfterStop` hold of it |
| `LoopInvariant` | `RouterInv`, the inductive invariant |
| `RouterTypeCorrect`, `ReadsNeverBlock` | `RouterTypeOK`, `RecvNeverBlocks` |
| `ImplementsForwarder` | the packets of each interface leave in order, each by its route (`ForwarderRefined`) |
| `OneCopyInvariant`, `NoneSentTwice` | `OneCopy` and `AllArrived`, and hence `SentOnce` |
| `PaidInvariant`, `ForwardsWhatIsPaid` | `PaidInv`, and hence `ForwardingPaid` |
| `RouteIsInterface`, `LastEntryDecides` | what `get_dst_sock_idx` returns, for every table and any names |

`ImplementsProtocol` needs no invariant: each action of the router contains one of
`VTProtocol`, or leaves its variables alone. `RouterInv` is needed for the others: a socket
reported by `poll` and not yet read in this scan is not empty, because only the worker
removes packets and it removes from the socket it stands at; and a packet is in hand
exactly between `recvfrom` and the end of its treatment. In `ImplementsForwarder` the
packet in hand stands at the head of its interface's queue in `Forwarder` until it is sent
or dropped, and each action of the router is one step of `Forwarder` or none.

`SentOnce` speaks of the sending queues only; a packet is sent once because it is in one
place before that too. `OneCopy` says so of all pairs of places (two receive queues, two
sending queues, one of each, and the packet in hand with both), excepting only packets of
the start-up race, and `AllArrived` that no place holds a number not yet given out.
`ForwardingPaid` compares the time charged with the packets sent; within the treatment of a
packet it must also count what has been charged for the one in hand (`ChargedInHand`), and
that the set of packets sent is finite, without which its cardinality means nothing;
`PaidInv` says both.

The workers of the client and the server, and the plain programs:

| Module | Theorem | States |
|---|---|---|
| `RequestReplyProofs` | `ExchangeInvariant` | `RRInv`, the inductive invariant |
| | `Bounded`, `Answers` | `BacklogBounded`, `ReplyAnswersRequest` of the plain client and server |
| `ClientVTProofs` | `ImplementsProtocol`, `ClientKeepsTime` | the client is a worker of `VTProtocol`, with its five safety properties |
| | `ImplementsPlain` | the client under virtual time is the plain client (`PlainClient`) |
| | `ClientBacklog`, `ClientAnswers` | hence `BacklogBounded`, `ReplyAnswersRequest` |
| `ServerVTProofs` | `ImplementsProtocol`, `ServerKeepsTime`, `ImplementsPlain`, `ServerBacklog` | the same of the server (`PlainServer`) |
| `PlainProofs` | `LoopInvariant`, `TypeCorrect`, `ReadsNeverBlock` | `LoopInv`, and hence `TypeOK` and `RecvNeverBlocks` of the plain router |
| | `PathInvariant`, `StaysOnPath` | `PathInv`, and hence `OnPath`, of a network in which `RoutesLead` |
| | `OrderInvariant`, `KeepsOrder` | `OrderInv`, and hence that each flow of any network is a `Channel` (`InOrder`) |
| | `ChecksumMatches` | what `udp_csum` returns satisfies a receiver, for any words with a sum below 2^32 |
| | `FilesDecide` | `RoutesLead`, if the files satisfy `FilesLead` |
| | `StageInvariant` | `StageInv`, the inductive invariant of `Experiment` |
| | `ProgressesComplete` | `ProgressComplete` |

The bound on what is under way between client and server cannot be kept by looking at the
client or the server alone. `RRInv` adds that, as long as there are no extras, the one
exchange under way is in one place: a request in its queue, the request in the server's
hands, or a reply, and it carries the number the client waits for. The two programs under
virtual time are then not proved again: they implement `RequestReply`, whose theorems are
brought in by an INSTANCE of its proof module, and `SamePlain` identifies their properties
with those of the instance. `LoopInv` is the part of `RouterInv` that the loop of
`router_n.c` needs: while it scans, every socket that `poll` reported and the scan has not
yet passed holds a packet. `StageInv` says for each place in the orchestrator's main what
has been started, what TimeKeeper was told and what was taken down; each action moves one
place on, back to the start of its loop, or out. `ProgressComplete` is what it says of the
step to the rounds: from the freeze on nobody but main changes anything.

`StaysOnPath` takes from the routes files only that they lead the packets of a flow one link
nearer to its receiver at every router (`RoutesLead`), and from the manifest that its links connect the nodes, with one
link for each host; there may be loops, and any number of other flows that go anywhere. Two
arguments meet. One is about the numbering: `Position` and `Nth` count the members of a set
of numbers, as Mininet counts the interfaces of a node and AppTopo its calls of `addLink`;
`FarEndIs` shows from it that the other end of a link is an interface that leads back. The
other is about distances: there is no way shorter than the distance (`NoShortcut`, by the
least counterexample), so a frame that comes one link nearer to its receiver goes one
farther from its sender (`NextLink`), and is on the path again.

`KeepsOrder` is a refinement: what `Channel` calls the packets in transit are the numbers
under way in any queue of the network, in ascending order (`InTransit`). A delivery must
then take the smallest of them, and leave no second copy behind. Sending must add one larger
than all, and forwarding change nothing or lose one. It has no hypothesis on the routes
files: a flow may go to the wrong host or round between two routers for ever, and what
arrives of it is still in order, each once. That the numbers ascend in each queue and that
those farther on are smaller is not enough for an induction, for frames in different queues
could come into one in either order. What orders them is that all frames of a flow go the
same way: where one goes on from an interface is a matter of the tables alone (`NextPort`).
`Route` is the least set of interfaces that holds the first and with each the next, and
`After` the same from an interface on. Of two interfaces of the route one is after the other
(`Comparable`). It is ahead for good (`AheadOf`) if the other is not after it in turn;
otherwise the route ends in a ring that both are on. `OrderInv` says that the frames of a
flow are on its route, that one ahead for good has the smaller number, and that the numbers
ascend in each queue that is not on a ring. On a ring nothing is said of the order, and
nothing need be: the ring is the end of the route and holds no host, for after a host comes
nothing, so that what goes round is never delivered, and the next delivery is that of the
smallest number. The least sets are defined by a quantifier over sets, not by a recursion
over the path, which the provers could not unfold. What a step does to the queues is stated
once for all actions (`TakenInOrder`, `AppendInOrder`), and what it does to the ascending
sequence comes from the lemmas on `Nth` (`NthWithout`, `Ascending`).

`ChecksumMatches` is about any words. Those of this network go beyond 16 bits, so that the
first fold of `udp_csum` adds what does (`Delivered` fails without it), but what it makes of
them does not. Below 2^32 it may go beyond by one, which the second fold adds; neither
changes the sum modulo 65535, which is what the receiver looks at.

The hypothesis `RoutesLead` of `StaysOnPath` speaks of the tables the routers compute. `FilesDecide` brings
it down to the words in the files through `populate_routing_list` and the lookup: if of the
lines about the receiver the last has the name of an interface of the router, and it leads
nearer (`FilesLead`), no other line matters. For the repository's own files the run
`network` checks `RoutesLead`.

`CommandParserProofs` proves, for commands of any number of tuples, with any numbers and
any of the endings, and ints of any size:

| Theorem | States |
|---|---|
| `ParserInvariant` | `ParserInv`, the inductive invariant |
| `TuplesRead`, `CommandsUnderstood` | `TuplesInOrder`, `Understood` |
| `ImplementsProtocol`, `CommandsKeepTime` | the protocol with the text of its commands is `VTSpec`, with its invariants and `ClockRefined` |

`TuplesInOrder` is not inductive: it does not say where the loop stands. `ParserInv` adds
that it stands at the bar of the first tuple not yet read, or, after the last one, at a
digit of its pid, and that the advance is that of the last tuple read. Where a tuple stands
is a matter of the text alone. `FirstTuples` is a function on the number of tuples, which
`Recursion` shows to exist; `RestOfText` says what follows a tuple in the text, and
`TupleInText` which character is where. From there on the helpers are followed as the code
calls them: a number ends where no digit follows (`NumberAt`), and `ReadsTuple` puts the
three together. `ImplementsProtocol` needs `ParserInv` too: that the call returns an advance
`VTProtocol` allows or -1, and -1 on STOP only. It has two hypotheses on what TimeKeeper
sends: no number but a pid is empty and no pid is 0 (`ParserAssumption` and `Tuples`; a pid
that is 0 or empty, as in `|,5`, ends the loop, and the tuples from there on are not read), and
`Advances` contains what the numbers make (`CommandAssumption`).

`ContainersProofs` proves, for any heap, any number of buckets, and any names, values and
entries:

| Theorem | States |
|---|---|
| `LinkInvariant` | `LinkInv`: the fields of the lists and cells hold one sequence of cells for each list, and no cell has two places in them |
| `ListsWellLinked` | `WellLinked` |
| `NothingLeaks` | `HeapExact` |
| `KeepsList` | `ListKept`: the calls of `linkedlist.c` implement `ItemList` |
| `KeepsMap` | if the keys of the names differ, `MapKept`: the calls of `hashmap.c` implement `KeyMap` |

None of them is inductive, and none mentions the order of the cells, which every
call depends on. The invariant therefore says that there is a function from the lists to
sequences of cells that the fields hold (`Represents`), and each lemma `...Represents` says
which function that is after the call; `Unlinked` sums up the three ways of taking a cell out
(head, tail, between) so that they are proved once. `ChainsAreThose` shows that the function
is what a loop over `next` comes to, so that the existence needs no history variable and
TLC can evaluate `LinkInv`. That each name has its bucket needs a key to be a number: the
hash is a fold over the name whose steps are sums over bits, and `FoldExists` and
`FoldTyped` carry a type through such a fold.

For `KeepsList` the lemmas on the calls (`AppendAdds`, `RemoveAtTakes`, `PopTakes`,
`RequeueTurns`, `DestroyEmpties`) also say which sequence of cells each list has after a
call, and `ItemsAreThose` that `llist_get` reads the items off that of the routing list; a
lemma `...Kept` for each call is then about sequences alone. A call on the map writes cells
of the buckets only, and no cell is in two lists. `KeepsMap` needs an invariant of its own,
`MapOK`: the buckets hold elements, and no two in a bucket share a key other than 0
(`Keyed`). Elements removed stay there under the key 0, any number of them, so that nothing can be
said of what a lookup of 0 finds. `LookupFinds` shows that a lookup of another key finds
exactly what its bucket holds, `OverwriteElement` and `AppendElement` that a call changes
this for one key. The hypothesis is that no two names have the same key, and none but the empty
one the key 0 (`KeysApart`); it is false of some sets of names, and TLC evaluates it
(`RegisteredApart`) for the names under which the programs register costs, except
`intf_name_to_sock_idx`, whose hash is out of the reach of its stack.

Induction over numbers and sets is done by hand where it is needed (`LeastNumber`: a set of
numbers has a least one, from the well-foundedness of finite sets under inclusion): the
least counterexample is refuted. So `WalkFollows` computes the loop over `next`, and
`FoldExists` the folds, and `UpTo` and `Recursion` what the parser's proofs need of the
text of a command and of `Value`.

The assumptions are those named in the modules: advances are naturals, costs are positive,
the interfaces are `1..n`, every registered function has a cost, a link joins two nodes, one
of them a router, a host has one, and the links connect the nodes, the
routes files hold lines of words, a flow has two ends, the heap, the hosts and the switches are finite, the lists are the routing list and the buckets, names are
sequences of characters, `NULL` is no value of the map, and the two on TimeKeeper's
commands.

Model-checked only: liveness and deadlock, out of the proof system's reach
(`RoundAnswered`, `StopEndsWithTraffic`, `ServedUpToNoise`, `Delivered`, `Ends`). Every
other property of a passing run is stated by a theorem.

## Findings

- A grant of 0 (`utils.c:577`, `utils.c:822`) is taken for the stop command, except as the
  first command (`utils.c:556`). The worker exits, main waits for ever (`zero_round`).
- The stop does not reach a worker asleep in `poll` (`utils.c:796`); without a further
  packet `pthread_join` (`router_app_vt.c:461`) never returns (`stop_quiet`).
- Between `socket` and `bind` (`utils.c:97`, `utils.c:119`) a packet of any interface is
  queued, and later forwarded, twice. `SentOnce` excepts exactly these packets;
  `ForwarderRefined` allows them one copy too many and no more, and none to a packet that
  comes after all sockets are bound.
- A failing `poll` or `rawSocket` ends the worker without a word; main then waits for ever
  unless the worker was asleep. `RoundAnswered` excepts exactly this (`FailedAwake`).
- A blank after the interface in a routes file leaves the name empty, and a name that is no
  interface of the router means its first (`utils.c:435`). In the second router this sends
  packets for h3 back to the first, which sends them on again: nothing counts hops, and the
  packets go round for ever. Other flows are still delivered (`Delivered`), and none, this
  one included, is doubled or out of order (`InOrder`).
- A packet without a route is dropped by the routers; one that reaches the wrong host is
  dropped by its kernel, so neither leaves a trace at the sender.
- The client charges `"send_to"` (`client_n_vt.c:306`), for which no cost is registered:
  sending takes no virtual time (`client_send`). The server's `"sendto"` is charged.
- Replies carry no number and the client does not look at them. A datagram doubled, or a
  failed `recvfrom` on either side, leaves a reply too many on the client's socket for ever
  (`BacklogBounded` counts them), and every later transit time is that of another packet.
- Neither client reads `n_pkts` after the command line: `-n` bounds nothing.
- A packet without a route restarts the scan at the first interface (`goto repeat`,
  `router_n.c:200`, `utils.c:767`). If such packets keep coming, later interfaces are never
  read; `ServedUpToNoise` states exactly what is left, and fails if its condition is dropped.
- `hmap_remove_abs` leaves the element in its bucket under the key 0, so elements removed
  are never freed before `hmap_destroy`, and a lookup of key 0 may return one. No program
  removes a key; `KeyMap` promises nothing about key 0.
- The waiting loops of `experiment.py` (lines 107 and 328) have no end if a program exits
  before it was seen or before it registered, and the first none if its process is found in
  state D each time (line 121). `Ends` excepts exactly these.
- `experiment.py` has no `try` around its steps. An output file that cannot be opened (227),
  a program gone between `ps` and the reading of its status (98), the undefined name (275) or
  the statistics (364 to 388) end it with the network up. After the rounds the programs are
  then left waiting for one nobody gives, as `stopExp` (392) is not reached. `Ends` excepts
  exactly these too (`CutShort`).
- `hmap_put_abs` does not look at the result of `llist_append` (`hashmap.c:164`): without memory the
  name is missing, and what it names is charged nothing. `KeyMap` allows it, as nothing in
  the repository promises more.
- Mode VT stops at `my_tdf` (`experiment.py:275`), which nothing in the repository defines,
  after the network was started and the processes were added to the experiment. (The
  module `timekeeper_functions`, imported from TimeKeeper, would have to define it.)
- `VTSwitch.stop` (`VT_mininet.py:142`) runs `kill %pid`, which names a job and not a process.
- A tuple whose pid is empty or 0, as `|,5`, ends the loop of `ack_and_get_next_command`
  (`router_app_vt.c:222`): it and the tuples after it are not read. TimeKeeper sends a pid in
  each tuple.

## Plan

The plan is done: what is left without a theorem is liveness.

## Not modelled

- TimeKeeper, a kernel module outside the repository: `VTProtocol` and `CommandParser` take
  from it what an ioctl may return. `old_tk_functions.py` writes one command each to its
  /proc file and keeps no state; mode VT, its only user, stops before most of them.
- `pkt_info.c` prints packets; its calls in the programs are commented out.
- `simpletun.c` is a third-party demo that no program of the repository uses.
- The scripts call `ip` and `brctl` once each.
- Functions without a caller: `get_time_to_advance`, `write_results`, `setPromisc`,
  `tun_alloc`, `cread`, `cwrite`, `read_n`, `intf_name_to_sock_idx`, `int_hash`.
- Delays and bandwidths of the links: an order of events that a delay produces is one of
  those the model allows.
