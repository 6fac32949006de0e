----------------------------------- MODULE Network -----------------------------------
(***************************************************************************)
(* The whole network: hosts that send datagrams with the raw client        *)
(* (udp_client_n.c), the routers between them, each as the Forwarder that  *)
(* RouterVT implements, and the hosts that receive them.  It asks whether  *)
(* what is kept in five places agrees: the manifest, the wiring, the names *)
(* of the interfaces, the routes files and the addresses in a packet.      *)
(*                                                                         *)
(* The routers have bound their sockets.  Each forwards frames unchanged:  *)
(* nothing in them counts hops.                                            *)
(***************************************************************************)
EXTENDS Topology

CONSTANTS
  Flows,        \* pairs of hosts, a sender and a receiver
  MaxPackets    \* of each flow

ASSUME FlowsAssumption ==
  /\ Flows \subseteq Hosts \X Hosts /\ \A f \in Flows : f[1] # f[2]
  /\ MaxPackets \in Nat

VARIABLES
  files,        \* the routes files the routers were started with
  output,       \* for each router and host, the interface it sends by
  lossy,        \* links lose frames and send_packet may fail
  queues,       \* for each interface of each node, the frames not yet read
  sent,         \* for each flow, the packets sent
  received      \* for each flow, the numbers of the packets received, a history

netVars == <<files, output, lossy, queues, sent, received>>

NetInit ==
  /\ files \in DOMAIN RoutesFiles
  /\ output = Output[files]
  /\ lossy \in BOOLEAN
  /\ queues = [x \in Ports |-> <<>>]
  /\ sent = [f \in Flows |-> 0]
  /\ received = [f \in Flows |-> <<>>]

---------------------------------------------------------------------------------
(* construct_packet: the headers as words of 16 bits. *)

Address(h) == <<10 * 256, h[2]>>

IpHeader(f) == <<17664, 38, 54321, 0, 64 * 256 + 17>> \o Address(f[1]) \o Address(f[2])

\* The pseudo header, the UDP header without its checksum, and "HelloWorld".
UdpWords(f) ==
  Address(f[1]) \o Address(f[2]) \o <<17, 18>> \o <<3423, 12000, 18>>
    \o <<18533, 27756, 28503, 28530, 27748>>

Total(words) == FoldLeft(+, 0, words)

\* Faulty: the carries are not added.
SumWithoutCarry(words) == 65535 - (Total(words) % 65536)

\* What goes beyond 16 bits is added to them, twice.
udp_csum(words) ==
  LET folded == Total(words) \div 65536 + (Total(words) % 65536)
  IN  65535 - ((folded + folded \div 65536) % 65536)

\* An unknown host gets a MAC address that no host has.
construct_packet(f) ==
  LET macs == get_arp_entry(Ip(f[2]))
  IN [flow |-> f,
      mac |-> IF macs = {} THEN "00:11:22:33:44:55" ELSE CHOOSE m \in macs : TRUE,
      checks |-> <<udp_csum(IpHeader(f)), udp_csum(UdpWords(f))>>]

\* A receiver adds up words and checksum with all carries, which leaves 0 (written as
\* all ones) if they match.
Checks(words, check) == (Total(words) + check) % 65535 = 0

\* What the kernel of a host lets through to the socket of the receiver.
Accepts(h, frame) ==
  /\ frame.mac = Mac(h)
  /\ frame.flow[2] = h
  /\ \A k \in 1..2 :
       Checks(<<IpHeader(frame.flow), UdpWords(frame.flow)>>[k], frame.checks[k])

Packet == [f \in Flows |-> construct_packet(f)]
Accepted == [h \in Hosts |-> {f \in Flows : Accepts(h, Packet[f])}]

---------------------------------------------------------------------------------

\* q is queues without the frame a node has in hand, which leaves it by interface i.
Transmit(q, n, i, frame) ==
  \/ queues' = [q EXCEPT ![FarEnd[n, i]] = Append(@, frame)]
  \/ lossy /\ queues' = q

\* send_next_packet.  A frame is its flow and its number; its headers are Packet[f].
SendPacket(f) ==
  /\ sent[f] < MaxPackets
  /\ sent' = [sent EXCEPT ![f] = @ + 1]
  /\ Transmit(queues, f[1], 1, <<f, sent'[f]>>)
  /\ UNCHANGED <<files, output, lossy, received>>

Taken(x) == [queues EXCEPT ![x] = Tail(@)]

\* Faulty: the frame is put back behind the others when a round ends with it in hand.
RequeueFrame(s, i) ==
  LET frame == Head(queues[<<s, i>>])
      out == output[s][frame[1][2]]
  IN  /\ queues[<<s, i>>] # <<>>
      /\ \/ out \in DOMAIN Neighbours[s] /\ Transmit(Taken(<<s, i>>), s, out, frame)
         \/ queues' = [Taken(<<s, i>>) EXCEPT ![<<s, i>>] = Append(@, frame)]
      /\ UNCHANGED <<files, output, lossy, sent, received>>

\* A router forwards the oldest frame of an interface; see Forwarder.  One that no
\* line of the file is about is dropped.
ForwardFrame(s, i) ==
  LET frame == Head(queues[<<s, i>>])
      out == output[s][frame[1][2]]
  IN  /\ queues[<<s, i>>] # <<>>
      /\ IF out \in DOMAIN Neighbours[s]
         THEN Transmit(Taken(<<s, i>>), s, out, frame)
         ELSE queues' = Taken(<<s, i>>)
      /\ UNCHANGED <<files, output, lossy, sent, received>>

\* A host takes in a frame: a datagram for the receiver, or one its kernel drops.
Receive(h) ==
  LET f == Head(queues[<<h, 1>>])[1] IN
  /\ queues[<<h, 1>>] # <<>>
  /\ queues' = Taken(<<h, 1>>)
  /\ received' = IF f \in Accepted[h]
                 THEN [received EXCEPT ![f] = Append(@, Head(queues[<<h, 1>>])[2])]
                 ELSE received
  /\ UNCHANGED <<files, output, lossy, sent>>

NetNext ==
  \/ \E f \in Flows : SendPacket(f)
  \/ \E x \in Ports : x[1] \in Switches /\ ForwardFrame(x[1], x[2])
  \/ \E h \in Hosts : Receive(h)

(***************************************************************************)
(* A host takes in what it gets, and a router serves each of its           *)
(* interfaces: RouterN's ServedUpToNoise, as a frame without a route keeps *)
(* only later interfaces waiting, and the instances have it on the last.   *)
(* No packet need be sent.                                                 *)
(***************************************************************************)
NetSpec ==
  /\ NetInit /\ [][NetNext]_netVars
  /\ \A h \in Hosts : WF_netVars(Receive(h))
  /\ \A x \in Ports : WF_netVars(x[1] \in Switches /\ ForwardFrame(x[1], x[2]))

---------------------------------------------------------------------------------

\* A node other than h is one link farther from h than some neighbour, and at most one
\* farther than any.
IsDistance(d, h) ==
  /\ d[h] = 0
  /\ \A n \in Nodes \ {h} :
       /\ \E m \in ToSet(Neighbours[n]) : d[n] = d[m] + 1
       /\ \A m \in ToSet(Neighbours[n]) : d[n] <= d[m] + 1

\* Between two nodes there are routers only.
Distances == [Nodes -> 0..Cardinality(Switches) + 1]

\* The links of the manifest connect the nodes.
ASSUME ConnectedAssumption == \A h \in Hosts : \E d \in Distances : IsDistance(d, h)

\* How many links there are from a host to a node.
Distance == [h \in Hosts |-> CHOOSE d \in Distances : IsDistance(d, h)]

\* The routes files have a line about the receiver everywhere, and no such line ends
\* in a blank, for which a router falls back to its first interface.
SoundFlows ==
  [name \in DOMAIN RoutesFiles |->
     {f \in Flows : \A s \in Switches : \E k \in DOMAIN RoutesFiles[name][s] :
        LET line == SelectSeq(RoutesFiles[name][s][k], LAMBDA w : w # "\n")
        IN line # <<>> /\ line[1] = Ip(f[2]) /\ Last(line) \notin Blanks}]

Sound(f) == f \in SoundFlows[files]

\* Wherever a packet of such a flow may come, the routes file names the interface
\* that leads towards its receiver (the names given at router_app_vt.c:339 and
\* router_n.c:112), by one link at a time.
RoutesLead ==
  \A f \in Flows : Sound(f) =>
    \A s \in Switches :
      /\ output[s][f[2]] \in DOMAIN Neighbours[s]
      /\ Distance[f[2]][Neighbours[s][output[s][f[2]]]] < Distance[f[2]][s]

\* What the files must say for this: of the lines about the receiver the last has the
\* name of an interface of the router, and one with that name leads nearer.
FilesLead ==
  \A name \in DOMAIN RoutesFiles : \A f \in SoundFlows[name] : \A s \in Switches :
    LET lines == RoutesFiles[name][s]
        about == {k \in DOMAIN lines : WordAt(lines[k], 1) = Ip(f[2])}
    IN  \E k \in about :
          LET named == {p \in DOMAIN Neighbours[s] :
                RouterIntfNames[s][p] = WordAt(lines[k], AfterBlanks(lines[k]))}
          IN  /\ \A j \in about : j <= k
              /\ named # {}
              /\ \A p \in named : Distance[f[2]][Neighbours[s][p]] < Distance[f[2]][s]

\* Interface x is on the path of flow f and faces its sender.
Along(f, x) ==
  /\ Distance[f[1]][x[1]] + Distance[f[2]][x[1]] = Distance[f[1]][f[2]]
  /\ Distance[f[1]][Neighbours[x[1]][x[2]]] < Distance[f[1]][x[1]]

\* Every frame is on the path from its sender to its receiver, and came to where it is
\* from the side of the sender: each interface a routes file names is the one the
\* wiring has there (the names given at router_app_vt.c:339 and router_n.c:112).
OnPath ==
  \A x \in Ports : \A k \in DOMAIN queues[x] :
    Sound(queues[x][k][1]) => Along(queues[x][k][1], x)

\* The numbers of the packets of a flow under way.
UnderWay(f) ==
  {n \in 1..MaxPackets : \E x \in Ports : \E k \in DOMAIN queues[x] : queues[x][k] = <<f, n>>}

\* The packets of a flow under way, the oldest first, wherever they are: only if the
\* network keeps their order can the receiver take them in this one, and only if it
\* doubles none is each gone from here once it is received.
InTransit(f) == [k \in 1..Cardinality(UnderWay(f)) |-> Nth(UnderWay(f), k)]

Chan == INSTANCE Channel WITH transit <- [f \in Flows |-> InTransit(f)]

\* Between two hosts the network is a Channel: it keeps the order and doubles nothing
\* over several routers, each with a queue per interface that other flows share (the
\* loop of process_thread).  A flow with a bad line is no exception: what it does not
\* lose to a loop or a wrong host arrives in order, once, and those it meets on its way
\* keep theirs.
InOrder ==
  [][\A f \in Flows : Chan!Quiet(f) \/ Chan!ChanStep(f)]_netVars

\* Unless the network loses frames, what is sent is received, even while frames of
\* flows with a bad line go round between two routers for ever (get_dst_sock_idx,
\* utils.c:435: a name that is no interface means the first).
Delivered ==
  \A f \in Flows : \A n \in 1..MaxPackets :
    sent[f] >= n /\ ~lossy /\ Sound(f) ~> Len(received[f]) >= n

---------------------------------------------------------------------------------
(***************************************************************************)
(* Why frames stay on their path: the distances from the sender and to the *)
(* receiver add up to no less anywhere, and each router brings a frame one *)
(* link nearer to the receiver.                                            *)
(***************************************************************************)
NetTypeOK ==
  /\ files \in DOMAIN RoutesFiles /\ output = Output[files] /\ lossy \in BOOLEAN
  /\ queues \in [Ports -> Seq(Flows \X (1..MaxPackets))]
  /\ sent \in [Flows -> 0..MaxPackets]
  /\ received \in [Flows -> Seq(1..MaxPackets)]

\* The invariant that every step preserves.
PathInv == NetTypeOK /\ RoutesLead /\ OnPath

(***************************************************************************)
(* Why the frames of a flow keep their order, whatever the routes files    *)
(* say: they come through the same interfaces one after another, so that   *)
(* of two under way one is ahead of the other, in the same queue or in a   *)
(* later one, unless both go round and never come to a host.               *)
(***************************************************************************)
FirstPort(f) == FarEnd[f[1], 1]
NextPort(f, x) == FarEnd[x[1], output[x[1]][f[2]]]

\* A frame of flow f that waits at x is sent on.
Leads(f, x) == x[1] \in Switches /\ output[x[1]][f[2]] \in DOMAIN Neighbours[x[1]]

\* The sets of interfaces that no frame of flow f leaves.
Closed(f) == {R \in SUBSET Ports : \A x \in R : Leads(f, x) => NextPort(f, x) \in R}

\* The interfaces a frame of flow f may come to from p on, and after x, and at all.
Reach(f, p) == {x \in Ports : \A R \in Closed(f) : p \in R => x \in R}
After(f, x) == IF Leads(f, x) THEN Reach(f, NextPort(f, x)) ELSE {}
Route(f) == Reach(f, FirstPort(f))

\* What waits at x is ahead of what waits at y for good.
AheadOf(f, x, y) == x \in After(f, y) /\ y \notin After(f, x)

Waits(q, x, f, n) == \E k \in DOMAIN q[x] : q[x][k] = <<f, n>>

\* In queues q the frames of flow f are in their order, but for those that go round.
InOrderIn(q, f) ==
  /\ \A x \in Ports, n \in 1..MaxPackets : Waits(q, x, f, n) => x \in Route(f)
  /\ \A x, y \in Ports, m, n \in 1..MaxPackets :
       Waits(q, x, f, m) /\ Waits(q, y, f, n) /\ AheadOf(f, x, y) => m < n
  /\ \A x \in Ports : x \notin After(f, x) =>
       \A j, k \in DOMAIN q[x] :
         j < k /\ q[x][j][1] = f /\ q[x][k][1] = f => q[x][j][2] < q[x][k][2]

\* None is under way that has not been sent.
OrderInv ==
  /\ NetTypeOK
  /\ \A f \in Flows : InOrderIn(queues, f) /\ \A n \in UnderWay(f) : n <= sent[f]

=================================================================================
