--------------------------------- MODULE RouterVT ---------------------------------
(***************************************************************************)
(* The router under virtual time: process_thread of utils.c as the worker  *)
(* of VTProtocol.  The worker polls its sockets, reads one packet from     *)
(* each socket found readable, looks up its route and sends it on, and     *)
(* blocks in poll when none was readable.  After every call update_stub    *)
(* may end the round, so that any number of packets may arrive, and the    *)
(* experiment may stop, between a call and the use of its result.          *)
(*                                                                         *)
(* rpc names the next call the worker makes once VTProtocol has it at      *)
(* "run"; each such call is an action of VTProtocol joined with what the   *)
(* call does to the packets.                                               *)
(***************************************************************************)
EXTENDS VTProtocol, RouteTable

CONSTANTS
  FuncTimes,      \* func_times_us: the cost of each function, by name
  Destinations,   \* destination addresses of the packets
  MaxPackets      \* the number of packets that arrive

ASSUME FuncTimesAssumption ==
  FuncTimes \in [{"poll", "flush_buffer", "recvfrom", "get_dst_sock_idx", "send_packet"}
                   -> Costs]
ASSUME MaxPacketsAssumption == MaxPackets \in Nat

VARIABLES
  rpc,      \* the next call of process_thread
  at,       \* process_thread's i: the interface being opened or scanned
  revents,  \* the interfaces the last poll found readable
  buf,      \* the packet in hand, as a sequence of at most one
  rxq,      \* per socket, the packets received by the kernel and not yet read
  txq,      \* per interface, the packets sent
  arrived   \* packets that have reached the router

routerVars == <<rpc, at, revents, buf, rxq, txq, arrived>>
allVars == <<vars, routerVars>>

\* "early" marks a packet that comes while a socket is created and not yet bound.
Packets == [id : 1..MaxPackets, in : Interfaces, dst : Destinations, early : BOOLEAN]

RouterInit ==
  /\ VTInit
  /\ rpc = "socket" /\ at = 1 /\ revents = {} /\ buf = <<>>
  /\ rxq = [i \in Interfaces |-> <<>>]
  /\ txq = [i \in Interfaces |-> <<>>]
  /\ arrived = 0

Readable == {i \in Interfaces : rxq[i] # <<>>}

Charge(name) == Call(FuncTimes[name])

---------------------------------------------------------------------------------
(* rawSocket, for each interface in turn.  A packet socket opened with        *)
(* ETH_P_ALL receives from every interface until it is bound to one.          *)

CreateSocket ==
  /\ wpc = "start" /\ rpc = "socket"
  /\ rpc' = "bind"
  /\ UNCHANGED <<vars, at, revents, buf, rxq, txq, arrived>>

BindSocket ==
  /\ wpc = "start" /\ rpc = "bind"
  /\ IF at = Len(intf_names)
     THEN OpenSockets /\ rpc' = "repeat" /\ UNCHANGED at
     ELSE UNCHANGED vars /\ rpc' = "socket" /\ at' = at + 1
  /\ UNCHANGED <<revents, buf, rxq, txq, arrived>>

SocketFails ==
  /\ wpc = "start"
  /\ Fail
  /\ UNCHANGED routerVars

\* The sockets that receive a packet coming in on interface i.
Listening(i) ==
  IF wpc = "start"
  THEN {s \in Interfaces : s = i /\ s < at} \cup (IF rpc = "bind" THEN {at} ELSE {})
  ELSE {i}

Arrive(i, d) ==
  /\ wpc # "exited"
  /\ arrived < MaxPackets
  /\ arrived' = arrived + 1
  /\ LET p == [id |-> arrived + 1, in |-> i, dst |-> d,
               early |-> wpc = "start" /\ rpc = "bind"]
     IN  rxq' = [s \in Interfaces |-> IF s \in Listening(i) THEN Append(rxq[s], p)
                                      ELSE rxq[s]]
  /\ UNCHANGED <<vars, rpc, at, revents, buf, txq>>

---------------------------------------------------------------------------------
(* The loop of process_thread. *)

\* The head of the loop, where stop is tested.
Repeat ==
  /\ rpc = "repeat"
  /\ CallUncharged
  /\ rpc' = "poll"
  /\ UNCHANGED <<at, revents, buf, rxq, txq, arrived>>

Poll ==
  /\ rpc = "poll"
  /\ revents' = Readable
  /\ Charge("poll")
  /\ rpc' = "scan"
  /\ at' = 1
  /\ UNCHANGED <<buf, rxq, txq, arrived>>

\* Faulty: an interrupted poll is not charged.
PollErrorUncharged ==
  /\ rpc = "poll"
  /\ CallUncharged
  /\ rpc' \in {"repeat"} \cup (IF MayFail THEN {"broken"} ELSE {})
  /\ UNCHANGED <<at, revents, buf, rxq, txq, arrived>>

\* poll is interrupted, or fails for good; either way its time is charged first.
PollError ==
  /\ rpc = "poll"
  /\ Charge("poll")
  /\ rpc' \in {"repeat"} \cup (IF MayFail THEN {"broken"} ELSE {})
  /\ UNCHANGED <<at, revents, buf, rxq, txq, arrived>>

PollExit ==
  /\ rpc = "broken" /\ wpc = "run"
  /\ Fail
  /\ UNCHANGED routerVars

\* The scan comes to the next readable socket and clears the buffer.
FlushBuffer ==
  /\ rpc = "scan"
  /\ \E i \in revents :
       /\ i >= at
       /\ \A k \in revents : k >= at => i <= k
       /\ at' = i
  /\ Charge("flush_buffer")
  /\ rpc' = "recvfrom"
  /\ UNCHANGED <<revents, buf, rxq, txq, arrived>>

\* Faulty: the packet stays on the socket (MSG_PEEK).
RecvfromPeeks ==
  /\ rpc = "recvfrom"
  /\ rxq[at] # <<>>
  /\ buf' = <<Head(rxq[at])>>
  /\ UNCHANGED rxq
  /\ Charge("recvfrom")
  /\ rpc' = "lookup"
  /\ UNCHANGED <<at, revents, txq, arrived>>

\* recvfrom takes the oldest packet of the socket; it would block on none.
Recvfrom ==
  /\ rpc = "recvfrom"
  /\ rxq[at] # <<>>
  /\ buf' = <<Head(rxq[at])>>
  /\ rxq' = [rxq EXCEPT ![at] = Tail(@)]
  /\ Charge("recvfrom")
  /\ rpc' = "lookup"
  /\ UNCHANGED <<at, revents, txq, arrived>>

\* data_size <= 0: the scan goes on with the next socket.
RecvfromFails ==
  /\ MayFail
  /\ rpc = "recvfrom"
  /\ Charge("recvfrom")
  /\ rpc' = "scan"
  /\ at' = at + 1
  /\ UNCHANGED <<revents, buf, rxq, txq, arrived>>

\* Faulty: a packet without a route stays in hand.
LookupKeepsPacket ==
  /\ rpc = "lookup"
  /\ Charge("get_dst_sock_idx")
  /\ IF get_dst_sock_idx(buf[1].dst) = FAIL
     THEN rpc' = "repeat" /\ UNCHANGED buf
     ELSE rpc' = "send" /\ UNCHANGED buf
  /\ UNCHANGED <<at, revents, rxq, txq, arrived>>

\* A packet without a route ends the scan: goto repeat.
Lookup ==
  /\ rpc = "lookup"
  /\ Charge("get_dst_sock_idx")
  /\ IF get_dst_sock_idx(buf[1].dst) = FAIL
     THEN rpc' = "repeat" /\ buf' = <<>>
     ELSE rpc' = "send" /\ UNCHANGED buf
  /\ UNCHANGED <<at, revents, rxq, txq, arrived>>

\* sendto may fail; the return value of send_packet does not tell.
send_packet(out, p) ==
  \/ txq' = [txq EXCEPT ![out] = Append(@, p)]
  \/ MayFail /\ UNCHANGED txq

\* Faulty: the packet leaves by the interface it came from.
SendPacketBack ==
  /\ rpc = "send"
  /\ send_packet(at, buf[1])
  /\ buf' = <<>>
  /\ Charge("send_packet")
  /\ rpc' = "scan"
  /\ at' = at + 1
  /\ UNCHANGED <<revents, rxq, arrived>>

\* Faulty: send_packet is not registered, as "send_to" is not in the client.
SendPacketUncharged ==
  /\ rpc = "send"
  /\ send_packet(get_dst_sock_idx(buf[1].dst), buf[1])
  /\ buf' = <<>>
  /\ CallUncharged
  /\ rpc' = "scan"
  /\ at' = at + 1
  /\ UNCHANGED <<revents, rxq, arrived>>

SendPacket ==
  /\ rpc = "send"
  /\ send_packet(get_dst_sock_idx(buf[1].dst), buf[1])
  /\ buf' = <<>>
  /\ Charge("send_packet")
  /\ rpc' = "scan"
  /\ at' = at + 1
  /\ UNCHANGED <<revents, rxq, arrived>>

ScanOver == rpc = "scan" /\ \A k \in revents : k < at

\* Faulty: the scan starts over with what the last poll reported.
PollAgainStale ==
  /\ ScanOver
  /\ revents # {}
  /\ CallUncharged
  /\ rpc' = "scan"
  /\ at' = 1
  /\ UNCHANGED <<revents, buf, rxq, txq, arrived>>

\* Something was readable: back to the head of the loop.
PollAgain ==
  /\ ScanOver
  /\ revents # {}
  /\ CallUncharged
  /\ rpc' = "poll"
  /\ UNCHANGED <<at, revents, buf, rxq, txq, arrived>>

\* Faulty: main is not told and the flag not raised.
BlockSilently ==
  /\ ScanOver
  /\ revents = {}
  /\ wpc = "run" /\ wpc' = "asleep"
  /\ UNCHANGED <<mainVars, stop, is_blocked, m2t, t2m, curr, used, idle>>
  /\ rpc' = "sleep"
  /\ UNCHANGED <<at, revents, buf, rxq, txq, arrived>>

\* Nothing was readable when poll looked: the worker goes to block.
Block ==
  /\ ScanOver
  /\ revents = {}
  /\ RaiseBlocked
  /\ rpc' = "sleep"
  /\ UNCHANGED <<at, revents, buf, rxq, txq, arrived>>

\* The blocking poll returns; its result is scanned without another poll.
WakeOnPacket ==
  /\ rpc = "sleep"
  /\ Readable # {}
  /\ revents' = Readable
  /\ Wakeup
  /\ rpc' = "scan"
  /\ at' = 1
  /\ UNCHANGED <<buf, rxq, txq, arrived>>

SleepFails ==
  /\ wpc = "asleep"
  /\ Fail
  /\ UNCHANGED routerVars

---------------------------------------------------------------------------------

\* Steps of the protocol that touch no packet.
Protocol ==
  /\ MainStep \/ ReadFirstCommand \/ SendReply \/ ReadGrant \/ TestStop \/ SendBlocked
     \/ Ended
  /\ UNCHANGED routerVars

RouterStep ==
  \/ CreateSocket \/ BindSocket
  \/ Repeat \/ Poll \/ PollError \/ FlushBuffer \/ Recvfrom \/ RecvfromFails
  \/ Lookup \/ SendPacket \/ PollAgain \/ Block \/ WakeOnPacket

RouterFails == SocketFails \/ PollExit \/ SleepFails

RouterNext ==
  \/ Protocol
  \/ RouterStep
  \/ RouterFails
  \/ \E i \in Interfaces, d \in Destinations : Arrive(i, d)

RouterSpec == RouterInit /\ [][RouterNext]_allVars

(***************************************************************************)
(* Both threads are scheduled; no packet need arrive.  That the worker     *)
(* cannot run on without spending time, which VTFairSpec assumes, follows  *)
(* here from the loop itself.                                              *)
(***************************************************************************)
WorkerProtocol ==
  /\ ReadFirstCommand \/ SendReply \/ ReadGrant \/ TestStop \/ SendBlocked
  /\ UNCHANGED routerVars

RouterFairSpec ==
  /\ RouterSpec
  /\ WF_allVars(MainStep /\ UNCHANGED routerVars)
  /\ WF_allVars(WorkerProtocol \/ RouterStep \/ PollExit)

---------------------------------------------------------------------------------
(* What makes the router correct. *)

\* Every variable of the router has its type, and there is a packet in hand
\* exactly between recvfrom and the end of its treatment.
RouterTypeOK ==
  /\ rpc \in {"socket", "bind", "repeat", "poll", "broken", "scan", "recvfrom", "lookup",
              "send", "sleep"}
  /\ at \in 1..(Len(intf_names) + 1)
  /\ revents \subseteq Interfaces
  /\ buf \in {<<>>} \cup {<<p>> : p \in Packets}
  /\ rxq \in [Interfaces -> Seq(Packets)]
  /\ txq \in [Interfaces -> Seq(Packets)]
  /\ arrived \in 0..MaxPackets
  /\ buf # <<>> <=> rpc \in {"lookup", "send"}

\* recvfrom does not block: "non blocking. no need to notify main thread through
\* pipe" (utils.c:732).  What poll reported, one or many rounds earlier, still
\* holds when the socket is read.
RecvNeverBlocks ==
  /\ rpc = "recvfrom" => rxq[at] # <<>>
  /\ rpc = "scan" => \A i \in revents : i >= at => rxq[i] # <<>>

Held(i) == (IF at = i THEN buf ELSE <<>>) \o rxq[i]

Fwd == INSTANCE Forwarder WITH
         Table <- [d \in Destinations |-> get_dst_sock_idx(d)],
         NoRoute <- FAIL,
         inq <- [i \in Interfaces |-> Held(i)],
         outq <- txq

\* The packets of an interface leave in order, each by the interface of its
\* route, whatever rounds end in between (process_thread's loop).
ForwarderRefined == Fwd!FwdSpec

\* The router's worker makes no step VTProtocol does not allow, so that what is
\* proved of VTProtocol holds of it.
ProtocolRefined == VTSpec

\* A packet is sent at most once, unless it came while a socket was not yet bound
\* and so was received on two of them (rawSocket, then recvfrom and send_packet).
SentOnce ==
  \A i, j \in Interfaces : \A m \in DOMAIN txq[i], n \in DOMAIN txq[j] :
    txq[i][m].id = txq[j][n].id => (i = j /\ m = n) \/ txq[i][m].early

\* The packets sent, each by its interface and its place in the order sent there.
Sent == UNION {{i} \X DOMAIN txq[i] : i \in Interfaces}

\* What the four calls that forward a packet are charged.
Price == FuncTimes["flush_buffer"] + FuncTimes["recvfrom"]
           + FuncTimes["get_dst_sock_idx"] + FuncTimes["send_packet"]

\* The router never forwards more than its virtual time pays for: each packet sent
\* has been charged for its four calls (update_stub after each call of the loop).
ForwardingPaid == Cardinality(Sent) * Price <= used

---------------------------------------------------------------------------------
(***************************************************************************)
(* Why the worker never blocks in recvfrom and forwards as it should: from *)
(* poll to the end of the scan only the worker takes packets from its      *)
(* sockets, and it takes none from those the scan has still to come to.    *)
(***************************************************************************)
RouterInv ==
  /\ RouterTypeOK
  /\ RecvNeverBlocks
  /\ rpc \in {"socket", "bind", "recvfrom", "lookup", "send"} => at \in Interfaces
  /\ rpc \in {"recvfrom", "lookup", "send"} =>
       \A i \in revents : i > at => rxq[i] # <<>>
  /\ rpc = "send" => get_dst_sock_idx(buf[1].dst) # FAIL

(***************************************************************************)
(* Why a packet is sent once: it is in one place, on a socket, in hand or  *)
(* among the packets sent, unless two sockets received it, and it is       *)
(* marked early then.  Every packet has an arrival of its own.             *)
(***************************************************************************)

\* Two places hold the same packet only if it came early.
Apart(p, q) == p.id = q.id => p.early /\ q.early

OneCopy ==
  /\ \A i, j \in Interfaces : \A m \in DOMAIN rxq[i], n \in DOMAIN rxq[j] :
       (i = j /\ m = n) \/ Apart(rxq[i][m], rxq[j][n])
  /\ \A i, j \in Interfaces : \A m \in DOMAIN txq[i], n \in DOMAIN txq[j] :
       (i = j /\ m = n) \/ Apart(txq[i][m], txq[j][n])
  /\ \A i, j \in Interfaces : \A m \in DOMAIN rxq[i], n \in DOMAIN txq[j] :
       Apart(rxq[i][m], txq[j][n])
  /\ buf # <<>> => \A i \in Interfaces :
       /\ \A m \in DOMAIN rxq[i] : Apart(buf[1], rxq[i][m])
       /\ \A m \in DOMAIN txq[i] : Apart(buf[1], txq[i][m])

\* No packet that is held or sent is still to come.
AllArrived ==
  /\ \A i \in Interfaces : /\ \A m \in DOMAIN rxq[i] : rxq[i][m].id <= arrived
                           /\ \A m \in DOMAIN txq[i] : txq[i][m].id <= arrived
  /\ buf # <<>> => buf[1].id <= arrived

\* Why forwarding is paid for: what the worker has been charged for the packet it is
\* about to send covers that packet, besides those sent before.
ChargedInHand ==
  CASE rpc = "recvfrom" -> FuncTimes["flush_buffer"]
    [] rpc = "lookup" -> FuncTimes["flush_buffer"] + FuncTimes["recvfrom"]
    [] rpc = "send" -> FuncTimes["flush_buffer"] + FuncTimes["recvfrom"]
                         + FuncTimes["get_dst_sock_idx"]
    [] OTHER -> 0

PaidInv ==
  /\ IsFiniteSet(Sent) /\ used \in Nat
  /\ Cardinality(Sent) * Price + ChargedInHand <= used

=================================================================================
