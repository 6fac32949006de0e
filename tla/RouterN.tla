---------------------------------- MODULE RouterN ----------------------------------
(***************************************************************************)
(* The plain router of router_n.c, once its sockets are open: the loop of  *)
(* RouterVT's worker without virtual time.  It differs in one place: when  *)
(* the blocking poll returns, the loop polls again before it scans.        *)
(*                                                                         *)
(* Packets arrive without end and are not numbered, so that what the loop  *)
(* must eventually do can be checked over infinite behaviours.  A socket   *)
(* keeps RcvQueue packets, and the kernel drops what it has no room for.   *)
(***************************************************************************)
EXTENDS RouteTable

CONSTANTS
  Destinations,   \* destination addresses of the packets
  Noisy,          \* interfaces on which packets without a route arrive
  RcvQueue,       \* packets a socket holds
  MayFail         \* poll and recvfrom may return an error

ASSUME RouterNAssumption ==
  Noisy \subseteq Interfaces /\ RcvQueue \in Nat \ {0} /\ MayFail \in BOOLEAN

VARIABLES
  pc,        \* the next call of main's loop
  i,         \* the interface being scanned
  revents,   \* the interfaces the last poll found readable
  buf,       \* the packet in hand, as a sequence of at most one
  rxq        \* per socket, the destinations of the packets not yet read

vars == <<pc, i, revents, buf, rxq>>

Init ==
  /\ pc = "poll" /\ i = 1 /\ revents = {} /\ buf = <<>>
  /\ rxq = [s \in Interfaces |-> <<>>]

Readable == {s \in Interfaces : rxq[s] # <<>>}

Routable == {d \in Destinations : get_dst_sock_idx(d) # FAIL}

\* A packet comes in on an interface.
Arrive(s, d) ==
  /\ d \in Routable \/ s \in Noisy
  /\ Len(rxq[s]) < RcvQueue
  /\ rxq' = [rxq EXCEPT ![s] = Append(@, d)]
  /\ UNCHANGED <<pc, i, revents, buf>>

Poll ==
  /\ pc = "poll"
  /\ revents' = Readable
  /\ pc' = "scan"
  /\ i' = 1
  /\ UNCHANGED <<buf, rxq>>

\* An error other than an interruption, which changes nothing, ends the router.
PollFails ==
  /\ MayFail
  /\ pc \in {"poll", "sleep"}
  /\ pc' = "exited"
  /\ UNCHANGED <<i, revents, buf, rxq>>

\* The readable sockets the scan has still to come to.
Ahead == {s \in revents : s >= i}

\* The next of them.
Coming(s) == s \in Ahead /\ \A k \in Ahead : s <= k

\* recvfrom on socket s takes its oldest packet; it would block on none.
Take(s) ==
  /\ Coming(s)
  /\ rxq[s] # <<>>
  /\ buf' = <<Head(rxq[s])>>
  /\ rxq' = [rxq EXCEPT ![s] = Tail(@)]
  /\ pc' = "lookup"
  /\ UNCHANGED revents

\* Faulty: the index is not advanced past the socket.
RecvfromRereads ==
  /\ pc = "scan"
  /\ \E s \in Interfaces : Take(s) /\ i' = s

\* The scan comes to the next readable socket and reads a packet from it.  From
\* here on i is the next interface to scan.
Recvfrom ==
  /\ pc = "scan"
  /\ \E s \in Interfaces : Take(s) /\ i' = s + 1

\* data_size <= 0
RecvfromFails ==
  /\ MayFail
  /\ pc = "scan"
  /\ \E s \in Interfaces : Coming(s) /\ i' = s + 1
  /\ UNCHANGED <<pc, revents, buf, rxq>>

\* Faulty: the scan starts over after every packet.
ForwardRestarts ==
  /\ pc = "lookup"
  /\ buf' = <<>>
  /\ pc' = "poll"
  /\ UNCHANGED <<i, revents, rxq>>

\* A packet with a route is sent by it, or lost, and the scan goes on; one
\* without ends the scan: goto repeat.
Forward ==
  /\ pc = "lookup"
  /\ buf' = <<>>
  /\ pc' = IF get_dst_sock_idx(buf[1]) = FAIL THEN "poll" ELSE "scan"
  /\ UNCHANGED <<i, revents, rxq>>

\* Nothing was readable: block in poll; otherwise poll again.
ScanOver ==
  /\ pc = "scan"
  /\ Ahead = {}
  /\ pc' = IF revents = {} THEN "sleep" ELSE "poll"
  /\ UNCHANGED <<i, revents, buf, rxq>>

WakeOnPacket ==
  /\ pc = "sleep"
  /\ Readable # {}
  /\ revents' = Readable
  /\ pc' = "poll"
  /\ UNCHANGED <<i, buf, rxq>>

Loop == Poll \/ Recvfrom \/ RecvfromFails \/ Forward \/ ScanOver \/ WakeOnPacket

Next ==
  \/ Loop
  \/ PollFails
  \/ \E s \in Interfaces, d \in Destinations : Arrive(s, d)

\* The process is scheduled, poll is not interrupted for ever, and the reads of no
\* socket fail for ever.  No packet need arrive.
Spec ==
  /\ Init /\ [][Next]_vars
  /\ WF_vars(Loop)
  /\ \A s \in Interfaces : SF_vars(Recvfrom /\ i' = s + 1)

---------------------------------------------------------------------------------

\* What poll reported of a socket still holds when the scan comes to it, so that
\* recvfrom does not block (the loop of router_n.c:180-208).
RecvNeverBlocks == pc = "scan" => \A s \in Ahead : rxq[s] # <<>>

\* A packet from interface s is read.
Reads(s) == pc = "lookup" /\ i = s + 1

\* An interface that has packets is read, as long as no interface before it
\* receives packets without a route.  The loop promises no more: such packets, if
\* they keep coming, keep the later interfaces from being read ("goto repeat",
\* router_n.c:200).
ServedUpToNoise ==
  \A s \in Interfaces :
    (\A n \in Noisy : s <= n) => (rxq[s] # <<>> ~> (Reads(s) \/ pc = "exited"))

---------------------------------------------------------------------------------
(***************************************************************************)
(* Why recvfrom never blocks: from a poll to the end of its scan only the  *)
(* loop takes packets from the sockets, and it takes none from those it    *)
(* has still to come to.  Between the blocking poll and the next one,      *)
(* revents is not looked at.                                               *)
(***************************************************************************)
TypeOK ==
  /\ pc \in {"poll", "scan", "lookup", "sleep", "exited"}
  /\ i \in 1..(Len(intf_names) + 1)
  /\ revents \subseteq Interfaces
  /\ buf \in {<<>>} \cup {<<d>> : d \in Destinations}
  /\ buf # <<>> <=> pc = "lookup"
  /\ rxq \in [Interfaces -> Seq(Destinations)]
  /\ \A s \in Interfaces : Len(rxq[s]) <= RcvQueue

\* The invariant that every step preserves.
LoopInv ==
  /\ TypeOK
  /\ pc \in {"scan", "lookup"} => \A s \in Ahead : rxq[s] # <<>>

=================================================================================
