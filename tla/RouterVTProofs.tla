------------------------------ MODULE RouterVTProofs ------------------------------
(***************************************************************************)
(* Proofs about RouterVT, for every routing table, any interfaces, costs,  *)
(* destinations and number of packets, and calls that may fail: the router *)
(* is a worker of VTProtocol, so that what VTProtocolProofs shows holds of *)
(* it; it never blocks in recvfrom; and it implements Forwarder.           *)
(***************************************************************************)
EXTENDS RouterVT, VTProtocolProofs, SequenceTheorems

---------------------------------------------------------------------------------
(* The router as a worker of the protocol. *)

\* A call of the router is a call the protocol allows (init_func_times).
LEMMA ChargeIsStep ==
  ASSUME NEW name \in DOMAIN FuncTimes, Charge(name)
  PROVE  ThreadStep
<1>1. FuncTimes[name] \in Costs
  BY FuncTimesAssumption
<1> QED
  BY <1>1 DEF Charge, ThreadStep

\* Each step of process_thread is one of the protocol, or none.
LEMMA RouterStepsProtocol ==
  ASSUME RouterNext
  PROVE  VTNext \/ UNCHANGED vars
<1> USE DEF VTNext
<1>1. CASE Protocol
  BY <1>1 DEF Protocol, ThreadStep
<1>2. CASE RouterStep
  <2>1. {"poll", "flush_buffer", "recvfrom", "get_dst_sock_idx", "send_packet"}
          = DOMAIN FuncTimes
    BY FuncTimesAssumption
  <2>2. CASE CreateSocket \/ BindSocket
    BY <2>2 DEF CreateSocket, BindSocket, ThreadStep
  <2>3. CASE Repeat \/ PollAgain
    BY <2>3 DEF Repeat, PollAgain, ThreadStep
  <2>4. CASE Poll \/ PollError
    BY <2>1, <2>4, ChargeIsStep DEF Poll, PollError
  <2>5. CASE FlushBuffer \/ Recvfrom \/ RecvfromFails
    BY <2>1, <2>5, ChargeIsStep DEF FlushBuffer, Recvfrom, RecvfromFails
  <2>6. CASE Lookup \/ SendPacket
    BY <2>1, <2>6, ChargeIsStep DEF Lookup, SendPacket
  <2>7. CASE Block
    BY <2>7 DEF Block, ThreadStep
  <2>8. CASE WakeOnPacket
    BY <2>8 DEF WakeOnPacket
  <2> QED
    BY <1>2, <2>2, <2>3, <2>4, <2>5, <2>6, <2>7, <2>8 DEF RouterStep
<1>3. CASE RouterFails
  BY <1>3 DEF RouterFails, SocketFails, PollExit, SleepFails
<1>4. CASE \E i \in Interfaces, d \in Destinations : Arrive(i, d)
  BY <1>4 DEF Arrive
<1> QED
  BY <1>1, <1>2, <1>3, <1>4 DEF RouterNext

\* The router's worker makes no step VTProtocol does not allow.
THEOREM ImplementsProtocol == RouterSpec => ProtocolRefined
<1>1. RouterInit => VTInit
  BY DEF RouterInit
<1>2. [RouterNext]_allVars => [VTNext]_vars
  BY RouterStepsProtocol DEF allVars
<1> QED
  BY <1>1, <1>2, PTL DEF RouterSpec, ProtocolRefined, VTSpec

\* So the router's main never grants to a sleeping worker, its clock is exact, and
\* its worker makes no call after the stop (router_app_vt.c with utils.c).
THEOREM RouterKeepsTime ==
  RouterSpec => [](GrantFindsReader /\ ClockAccounted /\ NoCallAfterStop)
BY ImplementsProtocol, GrantsFindReaders, ClockExact, StopIsFinal, PTL DEF ProtocolRefined

---------------------------------------------------------------------------------
(* Least numbers. *)

\* Min is what its name says.
LEMMA MinOfNumbers ==
  ASSUME NEW T \in SUBSET Nat, T # {}
  PROVE  Min(T) \in T /\ \A k \in T : Min(T) <= k
BY LeastNumber DEF Min

---------------------------------------------------------------------------------
(* The routing table. *)

\* Interfaces are numbered from 1 to n_intfs.
LEMMA InterfaceNumbers ==
  /\ Len(intf_names) \in Nat \ {0}
  /\ Interfaces = 1..Len(intf_names)
BY InterfacesAssumption DEF Interfaces

\* The choice of an output is FAIL exactly if no entry has the address, and else one of
\* the router's interfaces, whatever names the entries have (get_dst_sock_idx).
THEOREM RouteIsInterface ==
  ASSUME NEW dst
  PROVE  IF \E r \in DOMAIN Routes : Routes[r].ip_address = dst
         THEN get_dst_sock_idx(dst) \in Interfaces
         ELSE get_dst_sock_idx(dst) = FAIL
<1> DEFINE matches == {r \in DOMAIN Routes : Routes[r].ip_address = dst}
           dst_intf == Routes[Max(matches)].output_if
           named == {k \in Interfaces : intf_names[k] = dst_intf}
<1>1. get_dst_sock_idx(dst) = IF matches = {} THEN FAIL ELSE IF named = {} THEN 1 ELSE Min(named)
  BY DEF get_dst_sock_idx, LookupRoute, Interfaces
<1>2. 1 \in Interfaces
  BY InterfaceNumbers
<1>3. named # {} => Min(named) \in Interfaces
  <2> HIDE DEF dst_intf
  <2>1. named \in SUBSET Nat /\ named \subseteq Interfaces
    BY InterfaceNumbers
  <2> QED
    BY <2>1, MinOfNumbers
<1>4. matches = {} <=> ~\E r \in DOMAIN Routes : Routes[r].ip_address = dst
  OBVIOUS
<1> HIDE DEF matches, named
<1> QED
  BY <1>1, <1>2, <1>3, <1>4

\* The last entry with the address decides, and the first interface with its name is the
\* output: what the lines above it in the routes file say does not matter.
THEOREM LastEntryDecides ==
  ASSUME NEW n \in Nat, DOMAIN Routes = 1..n,
         NEW r \in 1..n, NEW out \in Interfaces,
         \A k \in r + 1..n : Routes[k].ip_address # Routes[r].ip_address,
         intf_names[out] = Routes[r].output_if,
         \A k \in 1..out - 1 : intf_names[k] # Routes[r].output_if
  PROVE  get_dst_sock_idx(Routes[r].ip_address) = out
<1> DEFINE dst == Routes[r].ip_address
           matches == {k \in DOMAIN Routes : Routes[k].ip_address = dst}
           named == {k \in Interfaces : intf_names[k] = Routes[r].output_if}
<1>1. r \in matches /\ matches \subseteq 1..n /\ \A k \in matches : r >= k
  OBVIOUS
<1>2. Max(matches) = r
  <2> HIDE DEF matches
  <2>1. Max(matches) \in matches /\ \A k \in matches : Max(matches) >= k
    BY <1>1 DEF Max
  <2>2. Max(matches) \in 1..n
    BY <1>1, <2>1
  <2>3. Max(matches) >= r /\ r >= Max(matches)
    BY <1>1, <2>1
  <2> QED
    BY <2>2, <2>3
<1>3. out \in named /\ named \in SUBSET Nat /\ \A k \in named : out <= k
  BY InterfaceNumbers
<1>4. Min(named) = out
  <2> HIDE DEF named
  <2>1. Min(named) \in named /\ Min(named) <= out /\ out <= Min(named)
    BY <1>3, MinOfNumbers
  <2>2. Min(named) \in Nat /\ out \in Nat
    BY <1>3, <2>1
  <2> QED
    BY <2>1, <2>2
<1>5. get_dst_sock_idx(dst) =
        IF matches = {} THEN FAIL
        ELSE LET name == Routes[Max(matches)].output_if
                 of_name == {k \in Interfaces : intf_names[k] = name}
             IN IF of_name = {} THEN 1 ELSE Min(of_name)
  BY DEF get_dst_sock_idx, LookupRoute, Interfaces
<1> QED
  BY <1>1, <1>2, <1>3, <1>4, <1>5

---------------------------------------------------------------------------------
(* The worker never blocks outside the protocol. *)

LEMMA InitRouterInv == RouterInit => RouterInv
<1> SUFFICES ASSUME RouterInit PROVE RouterInv
  OBVIOUS
<1>1. rxq \in [Interfaces -> Seq(Packets)] /\ txq \in [Interfaces -> Seq(Packets)]
  BY DEF RouterInit
<1>2. at = 1 /\ 1 \in Interfaces /\ 1 \in 1..(Len(intf_names) + 1)
  BY InterfaceNumbers DEF RouterInit
<1> QED
  BY <1>1, <1>2, MaxPacketsAssumption DEF RouterInit, RouterInv, RouterTypeOK, RecvNeverBlocks

\* A step that does not change the router's variables preserves the invariant.
LEMMA RouterVarsRouterInv ==
  ASSUME RouterInv, UNCHANGED routerVars
  PROVE  RouterInv'
BY DEF routerVars, RouterInv, RouterTypeOK, RecvNeverBlocks, Readable

\* A packet that comes in only adds to the sockets.
LEMMA ArriveRouterInv ==
  ASSUME RouterInv, NEW i \in Interfaces, NEW d \in Destinations, Arrive(i, d)
  PROVE  RouterInv'
<1> DEFINE p == [id |-> arrived + 1, in |-> i, dst |-> d,
                 early |-> wpc = "start" /\ rpc = "bind"]
<1>1. arrived' \in 0..MaxPackets /\ p \in Packets
  BY MaxPacketsAssumption DEF Arrive, RouterInv, RouterTypeOK, Packets
<1>2. rxq' = [s \in Interfaces |-> IF s \in Listening(i) THEN Append(rxq[s], p) ELSE rxq[s]]
  BY DEF Arrive
<1>3. ASSUME NEW s \in Interfaces
      PROVE  rxq'[s] \in Seq(Packets) /\ (rxq[s] # <<>> => rxq'[s] # <<>>)
  <2>1. rxq[s] \in Seq(Packets)
    BY DEF RouterInv, RouterTypeOK
  <2>2. Append(rxq[s], p) \in Seq(Packets) /\ Append(rxq[s], p) # <<>>
    BY <1>1, <2>1, AppendProperties
  <2> QED
    BY <1>2, <2>1, <2>2
<1>4. rxq' \in [Interfaces -> Seq(Packets)]
  BY <1>2, <1>3
<1>5. UNCHANGED <<rpc, at, revents, buf, txq>>
  BY DEF Arrive
<1>6. RouterTypeOK'
  BY <1>1, <1>4, <1>5 DEF RouterInv, RouterTypeOK
<1>7. revents \subseteq Interfaces
  BY DEF RouterInv, RouterTypeOK
<1> QED
  BY <1>3, <1>5, <1>6, <1>7 DEF RouterInv, RecvNeverBlocks

\* Each call of process_thread preserves the invariant.
LEMMA StepRouterInv ==
  ASSUME RouterInv, RouterStep
  PROVE  RouterInv'
<1> USE InterfaceNumbers DEF RouterInv, RouterTypeOK, RecvNeverBlocks
<1>1. CASE CreateSocket
  BY <1>1 DEF CreateSocket
<1>2. CASE BindSocket
  BY <1>2 DEF BindSocket
<1>3. CASE Repeat
  BY <1>3 DEF Repeat
<1>4. CASE Poll
  BY <1>4 DEF Poll, Readable
<1>5. CASE PollError
  BY <1>5 DEF PollError
<1>6. CASE FlushBuffer
  BY <1>6 DEF FlushBuffer
<1>7. CASE Recvfrom
  <2>1. at \in Interfaces /\ rxq[at] \in Seq(Packets) /\ rxq[at] # <<>>
    BY <1>7 DEF Recvfrom
  <2>2. Tail(rxq[at]) \in Seq(Packets) /\ Head(rxq[at]) \in Packets
    BY <2>1, HeadTailProperties
  <2>3. rxq' \in [Interfaces -> Seq(Packets)]
    BY <1>7, <2>2 DEF Recvfrom
  <2>4. \A i \in Interfaces : i > at => rxq'[i] = rxq[i]
    BY <1>7, <2>1 DEF Recvfrom
  <2> QED
    BY <1>7, <2>2, <2>3, <2>4 DEF Recvfrom
<1>8. CASE RecvfromFails
  BY <1>8 DEF RecvfromFails
<1>9. CASE Lookup
  BY <1>9 DEF Lookup
<1>10. CASE SendPacket
  <2>1. buf[1] \in Packets
    BY <1>10 DEF SendPacket
  <2>2. txq' \in [Interfaces -> Seq(Packets)]
    <3> DEFINE out == get_dst_sock_idx(buf[1].dst)
    <3>1. CASE UNCHANGED txq
      BY <3>1
    <3>2. CASE txq' = [txq EXCEPT ![out] = Append(@, buf[1])]
      <4>1. \A i \in Interfaces : Append(txq[i], buf[1]) \in Seq(Packets)
        BY <2>1, AppendProperties
      <4> HIDE DEF out
      <4> QED
        BY <3>2, <4>1
    <3> QED
      BY <1>10, <3>1, <3>2 DEF SendPacket, send_packet
  <2> QED
    BY <1>10, <2>2 DEF SendPacket
<1>11. CASE PollAgain
  BY <1>11 DEF PollAgain, ScanOver
<1>12. CASE Block
  BY <1>12 DEF Block, ScanOver
<1>13. CASE WakeOnPacket
  BY <1>13 DEF WakeOnPacket, Readable
<1> QED
  BY <1>1, <1>2, <1>3, <1>4, <1>5, <1>6, <1>7, <1>8, <1>9, <1>10, <1>11, <1>12, <1>13
     DEF RouterStep

\* The invariant of the router's loop, over any number of rounds.
THEOREM LoopInvariant == RouterSpec => []RouterInv
<1>1. RouterInv /\ [RouterNext]_allVars => RouterInv'
  BY StepRouterInv, ArriveRouterInv, RouterVarsRouterInv
     DEF RouterNext, Protocol, RouterFails, SocketFails, PollExit, SleepFails, allVars
<1> QED
  BY <1>1, InitRouterInv, PTL DEF RouterSpec

\* The types of the router's variables; a packet is in hand from recvfrom to the
\* end of its treatment only.
THEOREM RouterTypeCorrect == RouterSpec => []RouterTypeOK
<1>1. RouterInv => RouterTypeOK
  BY DEF RouterInv
<1> QED
  BY <1>1, LoopInvariant, PTL

\* A socket that poll found readable still is when the worker comes to read it,
\* however many rounds have ended since: recvfrom never blocks with main waiting.
THEOREM ReadsNeverBlock == RouterSpec => []RecvNeverBlocks
<1>1. RouterInv => RecvNeverBlocks
  BY DEF RouterInv
<1> QED
  BY <1>1, LoopInvariant, PTL

---------------------------------------------------------------------------------
(* The router forwards as Forwarder says. *)

\* Adding to the end of the second of two queues adds to the end of both.
LEMMA AppendToConcat ==
  ASSUME NEW S, NEW h \in Seq(S), NEW q \in Seq(S), NEW p \in S
  PROVE  h \o Append(q, p) = Append(h \o q, p)
<1>1. <<p>> \in Seq(S) /\ h \o q \in Seq(S)
  BY ConcatProperties
<1>2. Append(q, p) = q \o <<p>> /\ Append(h \o q, p) = (h \o q) \o <<p>>
  BY <1>1, AppendIsConcat
<1> QED
  BY <1>1, <1>2, ConcatAssociative

\* Taking the head of a queue in hand leaves the whole as it was.
LEMMA HeadInHand ==
  ASSUME NEW S, NEW q \in Seq(S), q # <<>>
  PROVE  <<Head(q)>> \o Tail(q) = q
<1>1. Head(q) \in S /\ Tail(q) \in Seq(S) /\ Len(Tail(q)) = Len(q) - 1
  BY HeadTailProperties
<1>2. \A k \in 1..Len(Tail(q)) : Tail(q)[k] = q[k + 1]
  BY HeadTailProperties
<1>3. <<Head(q)>> \in Seq(S) /\ Len(<<Head(q)>>) = 1 /\ <<Head(q)>>[1] = q[1]
  BY <1>1
<1>4. Len(q) \in Nat \ {0}
  BY EmptySeq
<1>5. /\ <<Head(q)>> \o Tail(q) \in Seq(S)
      /\ Len(<<Head(q)>> \o Tail(q)) = 1 + Len(Tail(q))
      /\ \A k \in 1..(1 + Len(Tail(q))) :
           (<<Head(q)>> \o Tail(q))[k] =
             IF k <= 1 THEN <<Head(q)>>[k] ELSE Tail(q)[k - 1]
  BY <1>1, <1>3, ConcatProperties
<1>6. ASSUME NEW k \in 1..Len(q)
      PROVE  (<<Head(q)>> \o Tail(q))[k] = q[k]
  BY <1>1, <1>2, <1>3, <1>4, <1>5
<1> QED
  BY <1>1, <1>4, <1>5, <1>6, SeqEqual

\* The packet in hand is the head of the whole, and what is on the socket its tail.
LEMMA InHandIsHead ==
  ASSUME NEW S, NEW p \in S, NEW q \in Seq(S)
  PROVE  LET w == <<p>> \o q
         IN  w # <<>> /\ Head(w) = p /\ Tail(w) = q
<1> DEFINE w == <<p>> \o q
<1>1. <<p>> \in Seq(S) /\ Len(<<p>>) = 1 /\ <<p>>[1] = p
  OBVIOUS
<1>2. Len(q) \in Nat
  BY LenProperties
<1>3. /\ w \in Seq(S) /\ Len(w) = 1 + Len(q)
      /\ \A k \in 1..(1 + Len(q)) : w[k] = IF k <= 1 THEN <<p>>[k] ELSE q[k - 1]
  BY <1>1, ConcatProperties
<1> HIDE DEF w
<1>4. w # <<>>
  BY <1>2, <1>3, EmptySeq
<1>5. Head(w) = p
  BY <1>1, <1>2, <1>3, <1>4
<1>6. /\ Tail(w) \in Seq(S) /\ Len(Tail(w)) = Len(w) - 1
      /\ \A k \in 1..Len(Tail(w)) : Tail(w)[k] = w[k + 1]
  BY <1>3, <1>4, HeadTailProperties
<1>7. Len(Tail(w)) = Len(q)
  BY <1>2, <1>3, <1>6
<1>8. ASSUME NEW k \in 1..Len(q) PROVE Tail(w)[k] = q[k]
  BY <1>2, <1>3, <1>6, <1>7
<1>9. Tail(w) = q
  BY <1>6, <1>7, <1>8, SeqEqual
<1> QED
  BY <1>4, <1>5, <1>9 DEF w

\* The packet in hand and the packets on a socket are queues.
LEMMA QueuesOfPackets ==
  ASSUME RouterInv, NEW i \in Interfaces
  PROVE  buf \in Seq(Packets) /\ rxq[i] \in Seq(Packets)
<1>1. CASE buf = <<>>
  BY <1>1 DEF RouterInv, RouterTypeOK
<1>2. CASE buf # <<>>
  <2>1. PICK p \in Packets : buf = <<p>>
    BY <1>2 DEF RouterInv, RouterTypeOK
  <2>2. <<p>> \in Seq(Packets)
    OBVIOUS
  <2> QED
    BY <2>1, <2>2 DEF RouterInv, RouterTypeOK
<1> QED
  BY <1>1, <1>2

\* A step with no packet in hand before or after it, which reads none, leaves every
\* interface what it held, whichever interface the scan is at.
LEMMA EmptyHanded ==
  ASSUME buf = <<>>, buf' = <<>>, rxq' = rxq
  PROVE  \A i \in Interfaces : Held(i)' = Held(i)
BY DEF Held

\* A packet that comes in joins the queues of the sockets that listen.
LEMMA ArriveReceives ==
  ASSUME RouterInv, NEW i \in Interfaces, NEW d \in Destinations, Arrive(i, d)
  PROVE  Fwd!FwdNext
<1> DEFINE p == [id |-> arrived + 1, in |-> i, dst |-> d,
                 early |-> wpc = "start" /\ rpc = "bind"]
           S == Listening(i) \cap Interfaces
<1>1. p \in Packets
  BY MaxPacketsAssumption DEF Arrive, RouterInv, RouterTypeOK, Packets
<1>2. rxq' = [s \in Interfaces |-> IF s \in Listening(i) THEN Append(rxq[s], p) ELSE rxq[s]]
  BY DEF Arrive
<1>3. UNCHANGED <<at, buf, txq>>
  BY DEF Arrive
<1> HIDE DEF p
<1>4. ASSUME NEW s \in Interfaces
      PROVE  Held(s)' = IF s \in S THEN Append(Held(s), p) ELSE Held(s)
  <2> DEFINE hand == IF at = s THEN buf ELSE <<>>
  <2>1. hand \in Seq(Packets) /\ rxq[s] \in Seq(Packets)
    BY QueuesOfPackets
  <2>2. Held(s) = hand \o rxq[s] /\ Held(s)' = hand \o rxq'[s]
    BY <1>3 DEF Held
  <2>3. rxq'[s] = IF s \in S THEN Append(rxq[s], p) ELSE rxq[s]
    BY <1>2
  <2> HIDE DEF hand, S
  <2>4. hand \o Append(rxq[s], p) = Append(hand \o rxq[s], p)
    BY <1>1, <2>1, AppendToConcat
  <2> QED
    BY <2>2, <2>3, <2>4
<1>5. IF p.early THEN \E k \in S : S \subseteq {p.in, k} ELSE S \subseteq {p.in}
  <2>1. p.in = i /\ (p.early <=> wpc = "start" /\ rpc = "bind")
    BY DEF p
  <2>2. CASE p.early
    <3>1. at \in S /\ S \subseteq {i, at}
      BY <2>1, <2>2 DEF Listening, RouterInv
    <3> QED
      BY <2>1, <2>2, <3>1
  <2>3. CASE ~p.early
    BY <2>1, <2>3 DEF Listening
  <2> QED
    BY <2>2, <2>3
<1>6. Fwd!Receive(S, p)
  BY <1>3, <1>4, <1>5 DEF Fwd!Receive
<1>7. S \in SUBSET Interfaces
  OBVIOUS
<1> QED
  BY <1>1, <1>6, <1>7 DEF Fwd!FwdNext

\* Once the packet in hand is dealt with, its interface holds the rest.
LEMMA PutDown ==
  ASSUME RouterInv, rpc \in {"lookup", "send"}, buf' = <<>>, rxq' = rxq
  PROVE  /\ at \in Interfaces /\ buf[1] \in Packets
         /\ Held(at) # <<>> /\ Head(Held(at)) = buf[1]
         /\ [i \in Interfaces |-> Held(i)'] =
              [[i \in Interfaces |-> Held(i)] EXCEPT ![at] = Tail(@)]
<1>1. /\ at \in Interfaces /\ buf[1] \in Packets /\ buf = <<buf[1]>>
      /\ rxq[at] \in Seq(Packets)
  BY DEF RouterInv, RouterTypeOK
<1>2. Held(at) = <<buf[1]>> \o rxq[at]
  BY <1>1 DEF Held
<1>3. Held(at) # <<>> /\ Head(Held(at)) = buf[1] /\ Tail(Held(at)) = rxq[at]
  BY <1>1, <1>2, InHandIsHead
<1>4. ASSUME NEW i \in Interfaces
      PROVE  Held(i)' = IF i = at THEN Tail(Held(at)) ELSE Held(i)
  <2>1. Held(i)' = <<>> \o rxq[i]
    BY DEF Held
  <2>2. <<>> \o rxq[i] = rxq[i]
    BY ConcatEmptySeq DEF RouterInv, RouterTypeOK
  <2>3. i # at => Held(i) = <<>> \o rxq[i]
    BY DEF Held
  <2> QED
    BY <1>3, <2>1, <2>2, <2>3
<1> QED
  BY <1>1, <1>3, <1>4

fwdVars == <<[i \in Interfaces |-> Held(i)], txq>>

\* Each call of process_thread forwards a packet, drops one, or deals with none.
LEMMA StepForwards ==
  ASSUME RouterInv, RouterStep
  PROVE  Fwd!FwdNext \/ UNCHANGED fwdVars
<1> USE DEF RouterInv, RouterTypeOK
<1>1. ASSUME buf = <<>>, buf' = <<>>, rxq' = rxq, txq' = txq
      PROVE  UNCHANGED fwdVars
  BY <1>1, EmptyHanded DEF fwdVars
<1>2. CASE CreateSocket \/ BindSocket \/ Repeat \/ Poll \/ PollError
  BY <1>1, <1>2 DEF CreateSocket, BindSocket, Repeat, Poll, PollError
<1>3. CASE FlushBuffer \/ RecvfromFails
  BY <1>1, <1>3 DEF FlushBuffer, RecvfromFails
<1>4. CASE PollAgain \/ Block \/ WakeOnPacket
  BY <1>1, <1>4 DEF PollAgain, Block, WakeOnPacket, ScanOver
<1>5. CASE Recvfrom
  <2>1. at \in Interfaces /\ rxq[at] \in Seq(Packets) /\ rxq[at] # <<>> /\ buf = <<>>
    BY <1>5 DEF Recvfrom
  <2>2. <<Head(rxq[at])>> \o Tail(rxq[at]) = <<>> \o rxq[at]
    BY <2>1, HeadInHand, ConcatEmptySeq
  <2>3. ASSUME NEW i \in Interfaces PROVE Held(i)' = Held(i)
    <3>1. CASE i = at
      BY <1>5, <2>1, <2>2, <3>1 DEF Recvfrom, Held
    <3>2. CASE i # at
      BY <1>5, <2>1, <3>2 DEF Recvfrom, Held
    <3> QED
      BY <3>1, <3>2
  <2> QED
    BY <1>5, <2>3 DEF Recvfrom, fwdVars
<1>6. CASE Lookup
  <2>1. CASE get_dst_sock_idx(buf[1].dst) = FAIL
    <3>1. rpc = "lookup" /\ buf' = <<>> /\ rxq' = rxq /\ txq' = txq
      BY <1>6, <2>1 DEF Lookup
    <3>2. at \in Interfaces /\ Fwd!Drop(at)
      BY <3>1, PutDown DEF Fwd!Drop, Fwd!Take
    <3> QED
      BY <3>2 DEF Fwd!FwdNext
  <2>2. CASE get_dst_sock_idx(buf[1].dst) # FAIL
    BY <1>6, <2>2 DEF Lookup, fwdVars, Held
  <2> QED
    BY <2>1, <2>2
<1>7. CASE SendPacket
  <2> DEFINE out == get_dst_sock_idx(buf[1].dst)
  <2>1. rpc = "send" /\ buf' = <<>> /\ rxq' = rxq
    BY <1>7 DEF SendPacket
  <2>2. at \in Interfaces /\ Fwd!Take(at) /\ Head(Held(at)) = buf[1] /\ buf[1] \in Packets
    BY <2>1, PutDown DEF Fwd!Take
  <2>3. CASE UNCHANGED txq
    BY <2>2, <2>3 DEF Fwd!FwdNext, Fwd!Drop
  <2>4. CASE txq' = [txq EXCEPT ![out] = Append(@, buf[1])]
    <3>1. buf[1].dst \in Destinations
      BY <2>2 DEF Packets
    <3>2. [d \in Destinations |-> get_dst_sock_idx(d)][buf[1].dst] = out
      BY <3>1
    <3>3. out # FAIL
      BY <2>1
    <3>4. [i \in Interfaces |-> Held(i)][at] = Held(at)
      BY <2>2
    <3> HIDE DEF out
    <3>5. Fwd!Forward(at)
      BY <2>2, <2>4, <3>2, <3>3, <3>4 DEF Fwd!Forward
    <3> QED
      BY <2>2, <3>5 DEF Fwd!FwdNext
  <2> QED
    BY <1>7, <2>3, <2>4 DEF SendPacket, send_packet
<1> QED
  BY <1>2, <1>3, <1>4, <1>5, <1>6, <1>7 DEF RouterStep

\* The packets of an interface leave in the order they came, each by the interface
\* of its route, whatever rounds end, packets come and calls fail in between.
THEOREM ImplementsForwarder == RouterSpec => ForwarderRefined
<1>1. RouterInit => Fwd!FwdInit
  <2> SUFFICES ASSUME RouterInit PROVE Fwd!FwdInit
    OBVIOUS
  <2>1. ASSUME NEW i \in Interfaces PROVE Held(i) = <<>>
    <3>1. Held(i) = <<>> \o <<>>
      BY DEF RouterInit, Held
    <3>2. <<>> \o <<>> = <<>>
      BY ConcatEmptySeq, EmptySeq
    <3> QED
      BY <3>1, <3>2
  <2> QED
    BY <2>1 DEF RouterInit, Fwd!FwdInit
<1>2. RouterInv /\ [RouterNext]_allVars => [Fwd!FwdNext]_fwdVars
  <2>1. UNCHANGED routerVars => UNCHANGED fwdVars
    BY DEF routerVars, fwdVars, Held
  <2> QED
    BY <2>1, StepForwards, ArriveReceives
       DEF RouterNext, Protocol, RouterFails, SocketFails, PollExit, SleepFails, allVars
<1> QED
  BY <1>1, <1>2, LoopInvariant, PTL
     DEF RouterSpec, ForwarderRefined, Fwd!FwdSpec, fwdVars

---------------------------------------------------------------------------------
(* A packet is sent once. *)

\* The members of a queue to which a packet was added.
LEMMA MembersOfAppend ==
  ASSUME NEW S, NEW q \in Seq(S), NEW p \in S, NEW m \in DOMAIN Append(q, p)
  PROVE  \/ m \in DOMAIN q /\ Append(q, p)[m] = q[m]
         \/ m = Len(q) + 1 /\ Append(q, p)[m] = p
BY AppendProperties, LenProperties

\* The members of a queue whose oldest packet was taken.
LEMMA MembersOfTail ==
  ASSUME NEW S, NEW q \in Seq(S), q # <<>>, NEW m \in DOMAIN Tail(q)
  PROVE  m + 1 \in DOMAIN q /\ Tail(q)[m] = q[m + 1] /\ m \in Nat \ {0}
<1>1. Len(q) \in Nat \ {0} /\ DOMAIN q = 1..Len(q)
  BY EmptySeq, LenProperties
<1>2. Tail(q) \in Seq(S) /\ Len(Tail(q)) = Len(q) - 1
  BY HeadTailProperties
<1>3. m \in 1..(Len(q) - 1)
  BY <1>2, LenProperties
<1> QED
  BY <1>1, <1>2, <1>3, HeadTailProperties

LEMMA InitOneCopy == RouterInit => OneCopy /\ AllArrived
<1>1. DOMAIN <<>> = {}
  OBVIOUS
<1> QED
  BY <1>1 DEF RouterInit, OneCopy, AllArrived

\* Where no packet moves, except that the one in hand may be given up, no copy is made.
LEMMA RestOneCopy ==
  ASSUME OneCopy, AllArrived, UNCHANGED <<rxq, txq, arrived>>, buf' \in {buf, <<>>}
  PROVE  (OneCopy /\ AllArrived)'
BY DEF OneCopy, AllArrived, Apart

\* A packet that comes in is a new one, and two sockets receive it only while one of
\* them is not yet bound.
LEMMA ArriveOneCopy ==
  ASSUME RouterInv, OneCopy, AllArrived,
         NEW i \in Interfaces, NEW d \in Destinations, Arrive(i, d)
  PROVE  (OneCopy /\ AllArrived)'
<1> DEFINE p == [id |-> arrived + 1, in |-> i, dst |-> d,
                 early |-> wpc = "start" /\ rpc = "bind"]
<1>1. p \in Packets /\ p.id = arrived + 1 /\ arrived \in Nat
  BY MaxPacketsAssumption DEF Arrive, RouterInv, RouterTypeOK, Packets
<1>2. arrived' = arrived + 1 /\ UNCHANGED <<buf, txq>>
  BY DEF Arrive
<1>3. \A s \in Interfaces :
        rxq'[s] = IF s \in Listening(i) THEN Append(rxq[s], p) ELSE rxq[s]
  BY DEF Arrive
<1>4. \A s, t \in Listening(i) : s = t \/ p.early
  BY InterfaceNumbers DEF Listening
<1> HIDE DEF p
<1>5. ASSUME NEW s \in Interfaces, NEW m \in DOMAIN rxq'[s]
      PROVE  \/ m \in DOMAIN rxq[s] /\ rxq'[s][m] = rxq[s][m]
             \/ s \in Listening(i) /\ m = Len(rxq[s]) + 1 /\ rxq'[s][m] = p
  <2>1. rxq[s] \in Seq(Packets)
    BY DEF RouterInv, RouterTypeOK
  <2>2. CASE s \in Listening(i)
    <3>1. rxq'[s] = Append(rxq[s], p)
      BY <1>3, <2>2
    <3> QED
      BY <1>1, <2>1, <2>2, <3>1, MembersOfAppend
  <2>3. CASE s \notin Listening(i)
    BY <1>3, <1>5, <2>3
  <2> QED
    BY <2>2, <2>3
<1>6. \A s \in Interfaces : \A m \in DOMAIN rxq[s] :
        rxq[s][m] \in Packets /\ rxq[s][m].id <= arrived
  BY LenProperties, ElementOfSeq DEF AllArrived, RouterInv, RouterTypeOK
<1>7. \A s \in Interfaces : \A m \in DOMAIN txq[s] :
        txq[s][m] \in Packets /\ txq[s][m].id <= arrived
  BY LenProperties, ElementOfSeq DEF AllArrived, RouterInv, RouterTypeOK
<1>8. buf # <<>> => buf[1] \in Packets /\ buf[1].id <= arrived
  BY DEF AllArrived, RouterInv, RouterTypeOK
<1>9. \A o \in Packets : o.id <= arrived => Apart(o, p) /\ Apart(p, o)
  BY <1>1 DEF Packets, Apart
<1>10. AllArrived'
  <2>1. \A o \in Packets : o.id <= arrived => o.id <= arrived + 1
    BY <1>1 DEF Packets
  <2>2. \A s \in Interfaces : \A m \in DOMAIN rxq'[s] : rxq'[s][m].id <= arrived + 1
    BY <1>1, <1>5, <1>6, <2>1
  <2>3. \A s \in Interfaces : \A m \in DOMAIN txq[s] : txq[s][m].id <= arrived + 1
    BY <1>7, <2>1
  <2> QED
    BY <1>2, <1>8, <2>1, <2>2, <2>3 DEF AllArrived
<1>11. ASSUME NEW s \in Interfaces, NEW t \in Interfaces,
              NEW m \in DOMAIN rxq'[s], NEW n \in DOMAIN rxq'[t]
       PROVE  (s = t /\ m = n) \/ Apart(rxq'[s][m], rxq'[t][n])
  <2>1. CASE m \in DOMAIN rxq[s] /\ rxq'[s][m] = rxq[s][m]
             /\ n \in DOMAIN rxq[t] /\ rxq'[t][n] = rxq[t][n]
    BY <2>1 DEF OneCopy
  <2>2. CASE rxq'[s][m] = p /\ n \in DOMAIN rxq[t] /\ rxq'[t][n] = rxq[t][n]
    BY <1>6, <1>9, <2>2
  <2>3. CASE m \in DOMAIN rxq[s] /\ rxq'[s][m] = rxq[s][m] /\ rxq'[t][n] = p
    BY <1>6, <1>9, <2>3
  <2>4. CASE s \in Listening(i) /\ m = Len(rxq[s]) + 1 /\ rxq'[s][m] = p
             /\ t \in Listening(i) /\ n = Len(rxq[t]) + 1 /\ rxq'[t][n] = p
    BY <1>4, <2>4 DEF Apart
  <2> QED
    BY <1>5, <2>1, <2>2, <2>3, <2>4
<1>12. ASSUME NEW s \in Interfaces, NEW t \in Interfaces,
              NEW m \in DOMAIN rxq'[s], NEW n \in DOMAIN txq[t]
       PROVE  Apart(rxq'[s][m], txq[t][n])
  BY <1>5, <1>7, <1>9 DEF OneCopy
<1>13. buf # <<>> => \A s \in Interfaces : \A m \in DOMAIN rxq'[s] : Apart(buf[1], rxq'[s][m])
  BY <1>5, <1>8, <1>9 DEF OneCopy
<1>14. OneCopy'
  BY <1>2, <1>11, <1>12, <1>13 DEF OneCopy
<1> QED
  BY <1>10, <1>14

\* recvfrom takes a packet off its socket into the hand.
LEMMA RecvfromOneCopy ==
  ASSUME RouterInv, OneCopy, AllArrived, Recvfrom
  PROVE  (OneCopy /\ AllArrived)'
<1>1. at \in Interfaces /\ rxq[at] \in Seq(Packets) /\ rxq[at] # <<>>
  BY DEF Recvfrom, RouterInv, RouterTypeOK
<1>2. UNCHANGED <<txq, arrived>> /\ buf' = <<Head(rxq[at])>> /\ buf'[1] = Head(rxq[at])
  BY DEF Recvfrom
<1>3. \A s \in Interfaces : rxq'[s] = IF s = at THEN Tail(rxq[at]) ELSE rxq[s]
  BY DEF Recvfrom, RouterInv, RouterTypeOK
<1>4. 1 \in DOMAIN rxq[at] /\ Head(rxq[at]) = rxq[at][1]
  BY <1>1, EmptySeq, LenProperties
<1>5. ASSUME NEW m \in DOMAIN rxq'[at]
      PROVE  /\ m + 1 \in DOMAIN rxq[at] /\ rxq'[at][m] = rxq[at][m + 1]
             /\ m \in Nat \ {0}
  BY <1>1, <1>3, MembersOfTail
<1>6. AllArrived'
  BY <1>1, <1>2, <1>3, <1>4, <1>5 DEF AllArrived
<1>7. ASSUME NEW s \in Interfaces, NEW t \in Interfaces,
             NEW m \in DOMAIN rxq'[s], NEW n \in DOMAIN rxq'[t]
      PROVE  (s = t /\ m = n) \/ Apart(rxq'[s][m], rxq'[t][n])
  <2>1. CASE s = at /\ t = at
    <3>1. m + 1 = n + 1 => m = n
      BY <1>5, <2>1
    <3> QED
      BY <1>5, <2>1, <3>1 DEF OneCopy
  <2>2. CASE s = at /\ t # at
    BY <1>3, <1>5, <2>2 DEF OneCopy
  <2>3. CASE s # at /\ t = at
    BY <1>3, <1>5, <2>3 DEF OneCopy
  <2>4. CASE s # at /\ t # at
    BY <1>3, <2>4 DEF OneCopy
  <2> QED
    BY <2>1, <2>2, <2>3, <2>4
<1>8. ASSUME NEW s \in Interfaces, NEW t \in Interfaces,
             NEW m \in DOMAIN rxq'[s], NEW n \in DOMAIN txq[t]
      PROVE  Apart(rxq'[s][m], txq[t][n])
  BY <1>3, <1>5 DEF OneCopy
<1>9. ASSUME NEW s \in Interfaces, NEW m \in DOMAIN rxq'[s]
      PROVE  Apart(buf'[1], rxq'[s][m])
  <2>1. CASE s = at
    <3>1. m + 1 # 1
      BY <1>5, <2>1
    <3> QED
      BY <1>1, <1>2, <1>4, <1>5, <2>1, <3>1 DEF OneCopy
  <2>2. CASE s # at
    BY <1>1, <1>2, <1>3, <1>4, <2>2 DEF OneCopy
  <2> QED
    BY <2>1, <2>2
<1>10. ASSUME NEW t \in Interfaces, NEW n \in DOMAIN txq[t]
       PROVE  Apart(buf'[1], txq[t][n])
  BY <1>1, <1>2, <1>4 DEF OneCopy
<1>11. OneCopy'
  BY <1>2, <1>7, <1>8, <1>9, <1>10 DEF OneCopy
<1> QED
  BY <1>6, <1>11

\* send_packet moves the packet in hand to the end of those sent.
LEMMA SendOneCopy ==
  ASSUME RouterInv, OneCopy, AllArrived, NEW out,
         buf # <<>>, buf' = <<>>, UNCHANGED <<rxq, arrived>>,
         txq' = [txq EXCEPT ![out] = Append(@, buf[1])]
  PROVE  (OneCopy /\ AllArrived)'
<1>1. buf[1] \in Packets
  BY DEF RouterInv, RouterTypeOK
<1>2. ASSUME NEW s \in Interfaces, NEW m \in DOMAIN txq'[s]
      PROVE  \/ m \in DOMAIN txq[s] /\ txq'[s][m] = txq[s][m]
             \/ s = out /\ m = Len(txq[s]) + 1 /\ txq'[s][m] = buf[1]
  <2>1. txq[s] \in Seq(Packets)
    BY DEF RouterInv, RouterTypeOK
  <2>2. txq'[s] = IF s = out THEN Append(txq[s], buf[1]) ELSE txq[s]
    BY DEF RouterInv, RouterTypeOK
  <2> QED
    BY <1>1, <1>2, <2>1, <2>2, MembersOfAppend
<1>3. AllArrived'
  BY <1>2 DEF AllArrived
<1>4. \A p, q : Apart(p, q) <=> Apart(q, p)
  BY DEF Apart
<1>5. ASSUME NEW s \in Interfaces, NEW t \in Interfaces,
             NEW m \in DOMAIN txq'[s], NEW n \in DOMAIN txq'[t]
      PROVE  (s = t /\ m = n) \/ Apart(txq'[s][m], txq'[t][n])
  BY <1>2, <1>4 DEF OneCopy
<1>6. ASSUME NEW s \in Interfaces, NEW t \in Interfaces,
             NEW m \in DOMAIN rxq[s], NEW n \in DOMAIN txq'[t]
      PROVE  Apart(rxq[s][m], txq'[t][n])
  BY <1>2, <1>4 DEF OneCopy
<1>7. OneCopy'
  BY <1>5, <1>6 DEF OneCopy
<1> QED
  BY <1>3, <1>7

\* Each call of process_thread leaves a packet in one place.
LEMMA StepOneCopy ==
  ASSUME RouterInv, OneCopy, AllArrived, RouterStep
  PROVE  (OneCopy /\ AllArrived)'
<1>1. CASE CreateSocket \/ BindSocket \/ Repeat \/ Poll \/ PollError
  BY <1>1, RestOneCopy DEF CreateSocket, BindSocket, Repeat, Poll, PollError
<1>2. CASE FlushBuffer \/ RecvfromFails
  BY <1>2, RestOneCopy DEF FlushBuffer, RecvfromFails
<1>3. CASE PollAgain \/ Block \/ WakeOnPacket
  BY <1>3, RestOneCopy DEF PollAgain, Block, WakeOnPacket
<1>4. CASE Lookup
  <2>1. UNCHANGED <<rxq, txq, arrived>> /\ buf' \in {buf, <<>>}
    BY <1>4 DEF Lookup
  <2> QED
    BY <2>1, RestOneCopy
<1>5. CASE Recvfrom
  BY <1>5, RecvfromOneCopy
<1>6. CASE SendPacket
  <2>1. buf # <<>> /\ buf' = <<>> /\ UNCHANGED <<rxq, arrived>>
    BY <1>6 DEF SendPacket, RouterInv, RouterTypeOK
  <2>2. CASE UNCHANGED txq
    BY <2>1, <2>2, RestOneCopy
  <2>3. CASE ~UNCHANGED txq
    <3> DEFINE out == get_dst_sock_idx(buf[1].dst)
    <3>1. txq' = [txq EXCEPT ![out] = Append(@, buf[1])]
      BY <1>6, <2>3 DEF SendPacket, send_packet
    <3> HIDE DEF out
    <3> QED
      BY <2>1, <3>1, SendOneCopy
  <2> QED
    BY <2>2, <2>3
<1> QED
  BY <1>1, <1>2, <1>3, <1>4, <1>5, <1>6 DEF RouterStep

\* A packet is in one place at a time, unless two sockets received it before one of
\* them was bound (rawSocket; recvfrom to send_packet in process_thread).
THEOREM OneCopyInvariant == RouterSpec => [](OneCopy /\ AllArrived)
<1>1. OneCopy /\ AllArrived /\ UNCHANGED routerVars => (OneCopy /\ AllArrived)'
  BY RestOneCopy DEF routerVars
<1>2. RouterInv /\ OneCopy /\ AllArrived /\ [RouterNext]_allVars => (OneCopy /\ AllArrived)'
  BY <1>1, StepOneCopy, ArriveOneCopy
     DEF RouterNext, Protocol, RouterFails, SocketFails, PollExit, SleepFails, allVars
<1> QED
  BY <1>2, InitOneCopy, LoopInvariant, PTL DEF RouterSpec

\* No packet is sent twice, however many rounds end while it is in hand, but for those
\* that came before a socket was bound.
THEOREM NoneSentTwice == RouterSpec => []SentOnce
<1>1. OneCopy => SentOnce
  BY DEF OneCopy, SentOnce, Apart
<1> QED
  BY <1>1, OneCopyInvariant, PTL

---------------------------------------------------------------------------------
(* Forwarding is paid for. *)

\* A call is charged at a positive cost.
LEMMA CallCosts ==
  /\ {"poll", "flush_buffer", "recvfrom", "get_dst_sock_idx", "send_packet"}
       = DOMAIN FuncTimes
  /\ \A name \in DOMAIN FuncTimes : FuncTimes[name] \in Nat \ {0}
BY FuncTimesAssumption, CostsAssumption

LEMMA InitPaidInv == RouterInit => PaidInv
<1> SUFFICES ASSUME RouterInit PROVE PaidInv
  OBVIOUS
<1>1. Sent = {}
  BY DEF RouterInit, Sent
<1>2. IsFiniteSet(Sent) /\ Cardinality(Sent) = 0
  BY <1>1, FS_EmptySet
<1>3. used = 0 /\ ChargedInHand = 0
  BY DEF RouterInit, VTInit, ChargedInHand
<1>4. Price \in Nat
  BY CallCosts DEF Price
<1> QED
  BY <1>2, <1>3, <1>4 DEF PaidInv

\* A call that sends nothing is paid for if it is charged what it adds to the charge
\* for the packet in hand.
LEMMA RestPaidInv ==
  ASSUME PaidInv, UNCHANGED txq, used' \in Nat,
         ChargedInHand \in Nat, ChargedInHand' \in Nat,
         ChargedInHand' - ChargedInHand <= used' - used
  PROVE  PaidInv'
<1>1. Sent' = Sent
  BY DEF Sent
<1>2. Price \in Nat /\ Price' = Price
  BY CallCosts DEF Price
<1>3. Cardinality(Sent) \in Nat
  BY FS_CardinalityType DEF PaidInv
<1> DEFINE paid == Cardinality(Sent) * Price
<1>4. paid \in Nat /\ paid + ChargedInHand <= used /\ used \in Nat
  BY <1>2, <1>3 DEF PaidInv
<1> HIDE DEF paid
<1>5. \A a, h, g, t, u \in Nat : a + h <= t /\ g - h <= u - t => a + g <= u
  OBVIOUS
<1>6. paid + ChargedInHand' <= used'
  BY <1>4, <1>5
<1> QED
  BY <1>1, <1>2, <1>6 DEF PaidInv, paid

\* A packet more is sent.
LEMMA SentGrows ==
  ASSUME RouterInv, IsFiniteSet(Sent), NEW out \in Interfaces, NEW p \in Packets,
         txq' = [txq EXCEPT ![out] = Append(@, p)]
  PROVE  IsFiniteSet(Sent') /\ Cardinality(Sent') = Cardinality(Sent) + 1
<1> DEFINE new == <<out, Len(txq[out]) + 1>>
<1>1. txq[out] \in Seq(Packets) /\ Len(txq[out]) \in Nat
  BY LenProperties DEF RouterInv, RouterTypeOK
<1>2. DOMAIN txq[out] = 1..Len(txq[out])
  BY <1>1, LenProperties
<1>3. DOMAIN Append(txq[out], p) = DOMAIN txq[out] \cup {Len(txq[out]) + 1}
  BY <1>1, <1>2, AppendProperties
<1>4. \A i \in Interfaces : DOMAIN txq'[i] =
        IF i = out THEN DOMAIN txq[out] \cup {Len(txq[out]) + 1} ELSE DOMAIN txq[i]
  BY <1>3 DEF RouterInv, RouterTypeOK
<1>5. Sent' = Sent \cup {new}
  BY <1>4 DEF Sent
<1>6. new \notin Sent
  BY <1>1, <1>2 DEF Sent
<1> QED
  BY <1>5, <1>6, FS_AddElement

\* Each call of process_thread is charged before or when it counts.
LEMMA StepPaidInv ==
  ASSUME RouterInv, PaidInv, RouterStep
  PROVE  PaidInv'
<1> USE CallCosts
<1>1. used \in Nat /\ ChargedInHand \in Nat
  BY DEF PaidInv, ChargedInHand
<1>2. ASSUME NEW name \in DOMAIN FuncTimes, Charge(name)
      PROVE  used' = used + FuncTimes[name] /\ used' \in Nat
  BY <1>1, <1>2 DEF Charge, Call
<1>3. CASE CreateSocket \/ BindSocket \/ Repeat \/ PollAgain \/ Block \/ WakeOnPacket
  <2>1. UNCHANGED <<used, txq>> /\ ChargedInHand' = 0
    BY <1>3 DEF CreateSocket, BindSocket, OpenSockets, Repeat, PollAgain, CallUncharged,
                Block, RaiseBlocked, WakeOnPacket, Wakeup, ChargedInHand, vars
  <2> QED
    BY <1>1, <2>1, RestPaidInv
<1>4. CASE Poll \/ PollError
  <2>1. UNCHANGED txq /\ ChargedInHand' = 0 /\ Charge("poll")
    BY <1>4 DEF Poll, PollError, ChargedInHand
  <2>2. used' = used + FuncTimes["poll"] /\ used' \in Nat
    BY <1>2, <2>1
  <2> QED
    BY <1>1, <2>1, <2>2, RestPaidInv
<1>5. CASE FlushBuffer
  <2>1. /\ UNCHANGED txq /\ Charge("flush_buffer")
        /\ ChargedInHand = 0 /\ ChargedInHand' = FuncTimes["flush_buffer"]
    BY <1>5 DEF FlushBuffer, ChargedInHand
  <2>2. used' = used + FuncTimes["flush_buffer"] /\ used' \in Nat
    BY <1>2, <2>1
  <2> QED
    BY <1>1, <2>1, <2>2, RestPaidInv
<1>6. CASE Recvfrom
  <2>1. /\ UNCHANGED txq /\ Charge("recvfrom")
        /\ ChargedInHand' = ChargedInHand + FuncTimes["recvfrom"]
    BY <1>6 DEF Recvfrom, ChargedInHand
  <2>2. used' = used + FuncTimes["recvfrom"] /\ used' \in Nat
    BY <1>2, <2>1
  <2> QED
    BY <1>1, <2>1, <2>2, RestPaidInv
<1>7. CASE RecvfromFails
  <2>1. UNCHANGED txq /\ Charge("recvfrom") /\ ChargedInHand' = 0
    BY <1>7 DEF RecvfromFails, ChargedInHand
  <2>2. used' = used + FuncTimes["recvfrom"] /\ used' \in Nat
    BY <1>2, <2>1
  <2> QED
    BY <1>1, <2>1, <2>2, RestPaidInv
<1>8. CASE Lookup
  <2>1. /\ UNCHANGED txq /\ Charge("get_dst_sock_idx")
        /\ ChargedInHand' \in {0, ChargedInHand + FuncTimes["get_dst_sock_idx"]}
    BY <1>8 DEF Lookup, ChargedInHand
  <2>2. used' = used + FuncTimes["get_dst_sock_idx"] /\ used' \in Nat
    BY <1>2, <2>1
  <2> QED
    BY <1>1, <2>1, <2>2, RestPaidInv
<1>9. CASE SendPacket
  <2> DEFINE out == get_dst_sock_idx(buf[1].dst)
  <2>1. /\ Charge("send_packet") /\ ChargedInHand' = 0
        /\ ChargedInHand + FuncTimes["send_packet"] = Price
    BY <1>9 DEF SendPacket, ChargedInHand, Price
  <2>2. used' = used + FuncTimes["send_packet"] /\ used' \in Nat
    BY <1>2, <2>1
  <2>3. CASE UNCHANGED txq
    BY <1>1, <2>1, <2>2, <2>3, RestPaidInv
  <2>4. CASE txq' = [txq EXCEPT ![out] = Append(@, buf[1])]
    <3>1. buf[1] \in Packets /\ out # FAIL
      BY <1>9 DEF SendPacket, RouterInv, RouterTypeOK
    <3>2. out \in Interfaces
      BY <3>1, RouteIsInterface
    <3> HIDE DEF out
    <3>3. IsFiniteSet(Sent') /\ Cardinality(Sent') = Cardinality(Sent) + 1
      BY <2>4, <3>1, <3>2, SentGrows DEF PaidInv
    <3>4. Cardinality(Sent) \in Nat
      BY FS_CardinalityType DEF PaidInv
    <3>5. Price \in Nat /\ Price' = Price
      BY DEF Price
    <3> DEFINE n == Cardinality(Sent)
    <3>6. (n + 1) * Price = n * Price + Price /\ n * Price \in Nat
      <4> HIDE DEF n
      <4> QED
        BY <3>4, <3>5 DEF n
    <3>7. n * Price + ChargedInHand <= used
      BY DEF PaidInv
    <3>8. n * Price + Price <= used'
      BY <1>1, <2>1, <2>2, <3>5, <3>6, <3>7
    <3>9. Cardinality(Sent') * Price + 0 <= used'
      BY <2>2, <3>3, <3>4, <3>5, <3>6, <3>8
    <3> QED
      BY <2>1, <2>2, <3>3, <3>5, <3>9 DEF PaidInv
  <2> QED
    BY <1>9, <2>3, <2>4 DEF SendPacket, send_packet
<1> QED
  BY <1>3, <1>4, <1>5, <1>6, <1>7, <1>8, <1>9 DEF RouterStep

\* Steps without a call of the loop send nothing and give back no charge.
LEMMA QuietPaidInv ==
  ASSUME PaidInv, UNCHANGED <<rpc, txq, used>>
  PROVE  PaidInv'
<1>1. Sent' = Sent /\ Price' = Price /\ ChargedInHand' = ChargedInHand
  BY DEF Sent, Price, ChargedInHand
<1> QED
  BY <1>1 DEF PaidInv

\* What is charged covers the packets sent and what was done for the one in hand.
THEOREM PaidInvariant == RouterSpec => []PaidInv
<1>1. Protocol \/ RouterFails => UNCHANGED <<rpc, txq, used>>
  BY DEF Protocol, MainStep, TakeCommand, TakeStop, SendStop, FindRunnable, FindBlocked,
         SendGrant, ReadReply, Join, ReadFirstCommand, SendReply, ReadGrant, TestStop,
         SendBlocked, Ended, vars, threadVars, RouterFails, SocketFails, PollExit,
         SleepFails, Fail, routerVars
<1>2. ASSUME NEW i \in Interfaces, NEW d \in Destinations, Arrive(i, d)
      PROVE  UNCHANGED <<rpc, txq, used>>
  BY <1>2 DEF Arrive, vars
<1>3. UNCHANGED allVars => UNCHANGED <<rpc, txq, used>>
  BY DEF allVars, vars, routerVars
<1>4. RouterInv /\ PaidInv /\ [RouterNext]_allVars => PaidInv'
  BY <1>1, <1>2, <1>3, StepPaidInv, QuietPaidInv DEF RouterNext
<1> QED
  BY <1>4, InitPaidInv, LoopInvariant, PTL DEF RouterSpec

\* The router never forwards more packets than its virtual time pays for, whatever the
\* costs and however a packet's calls are spread over the rounds (update_stub after
\* each call of process_thread).
THEOREM ForwardsWhatIsPaid == RouterSpec => []ForwardingPaid
<1>1. PaidInv => ForwardingPaid
  <2> SUFFICES ASSUME PaidInv PROVE ForwardingPaid
    OBVIOUS
  <2>1. Cardinality(Sent) \in Nat /\ Price \in Nat /\ used \in Nat
    BY FS_CardinalityType, CallCosts DEF PaidInv, Price
  <2>2. ChargedInHand \in Nat
    BY CallCosts DEF ChargedInHand
  <2> DEFINE paid == Cardinality(Sent) * Price
  <2>3. paid \in Nat /\ paid + ChargedInHand <= used
    BY <2>1 DEF PaidInv
  <2> HIDE DEF paid
  <2>4. paid <= used
    BY <2>1, <2>2, <2>3
  <2> QED
    BY <2>4 DEF ForwardingPaid, paid
<1> QED
  BY <1>1, PaidInvariant, PTL

=================================================================================
