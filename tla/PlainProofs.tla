-------------------------------- MODULE PlainProofs --------------------------------
(***************************************************************************)
(* Proofs about the parts that keep no virtual time themselves: the plain  *)
(* router, for every routing table, any interfaces and receive queues; the *)
(* network, for any links that connect its nodes; and the orchestrator,    *)
(* for any hosts, switches and modes.                                      *)
(***************************************************************************)
EXTENDS RouterN, Network, Experiment, SequenceTheorems, FiniteSetTheorems, TLAPS

---------------------------------------------------------------------------------
(* The plain router: what poll reported still holds when the scan uses it. *)

\* Interfaces are numbered from 1 to n_intfs.
LEMMA InterfaceNumbers ==
  /\ Len(intf_names) \in Nat \ {0}
  /\ Interfaces = 1..Len(intf_names)
BY InterfacesAssumption, EmptySeq, LenProperties DEF Interfaces

(* The loop never blocks outside poll. *)

LEMMA InitLoopInv == Init => LoopInv
<1> SUFFICES ASSUME Init PROVE LoopInv
  OBVIOUS
<1>1. <<>> \in Seq(Destinations) /\ Len(<<>>) = 0
  BY EmptySeq
<1> QED
  BY <1>1, InterfaceNumbers, RouterNAssumption DEF Init, LoopInv, TypeOK

\* Once past the socket the scan comes to, it has those greater ahead.
LEMMA NextAhead ==
  ASSUME LoopInv, NEW s \in Interfaces, Coming(s)
  PROVE  /\ s \in Ahead /\ s + 1 \in 1..(Len(intf_names) + 1)
         /\ \A k \in revents : k >= s + 1 => k \in Ahead /\ k # s
<1>1. s \in Ahead /\ s >= i /\ i \in Nat
  BY InterfaceNumbers DEF Coming, Ahead, LoopInv, TypeOK
<1>2. s \in 1..Len(intf_names) /\ revents \subseteq 1..Len(intf_names)
  BY InterfaceNumbers DEF LoopInv, TypeOK
<1>3. ASSUME NEW k \in revents, k >= s + 1 PROVE k >= i /\ k # s
  BY <1>1, <1>2, <1>3, InterfaceNumbers
<1> QED
  BY <1>1, <1>2, <1>3, InterfaceNumbers DEF Ahead

\* A packet that comes in only adds to a socket that has room.
LEMMA ArriveLoopInv ==
  ASSUME LoopInv, NEW s \in Interfaces, NEW d \in Destinations, Arrive(s, d)
  PROVE  LoopInv'
<1>1. rxq \in [Interfaces -> Seq(Destinations)] /\ rxq[s] \in Seq(Destinations)
  BY DEF LoopInv, TypeOK
<1>2. /\ Append(rxq[s], d) \in Seq(Destinations) /\ Append(rxq[s], d) # <<>>
      /\ Len(Append(rxq[s], d)) = Len(rxq[s]) + 1
  BY <1>1, AppendProperties
<1>3. rxq' = [rxq EXCEPT ![s] = Append(rxq[s], d)] /\ UNCHANGED <<pc, i, revents, buf>>
  BY DEF Arrive
<1>4. rxq' \in [Interfaces -> Seq(Destinations)]
  BY <1>1, <1>2, <1>3
<1>5. \A k \in Interfaces : rxq'[k] = IF k = s THEN Append(rxq[s], d) ELSE rxq[k]
  BY <1>1, <1>3
<1>6. Len(rxq[s]) \in Nat /\ Len(rxq[s]) < RcvQueue /\ RcvQueue \in Nat
  BY <1>1, LenProperties, RouterNAssumption DEF Arrive
<1>7. ASSUME NEW k \in Interfaces PROVE Len(rxq'[k]) <= RcvQueue
  <2>1. Len(rxq[k]) <= RcvQueue
    BY DEF LoopInv, TypeOK
  <2>2. CASE k = s
    <3>1. Len(rxq'[k]) = Len(rxq[s]) + 1
      BY <1>2, <1>5, <2>2
    <3> QED
      BY <1>6, <3>1
  <2>3. CASE k # s
    BY <1>5, <2>1, <2>3
  <2> QED
    BY <2>2, <2>3
<1>8. Ahead' = Ahead /\ Ahead \subseteq Interfaces
  BY <1>3 DEF Ahead, LoopInv, TypeOK
<1>9. \A k \in Interfaces : rxq[k] # <<>> => rxq'[k] # <<>>
  BY <1>2, <1>5
<1>10. pc' \in {"scan", "lookup"} => \A k \in Ahead' : rxq'[k] # <<>>
  BY <1>3, <1>8, <1>9 DEF LoopInv
<1> QED
  BY <1>3, <1>4, <1>7, <1>10 DEF LoopInv, TypeOK

\* Each call of main's loop preserves the invariant.
LEMMA StepLoopInv ==
  ASSUME LoopInv, Loop \/ PollFails
  PROVE  LoopInv'
<1> USE InterfaceNumbers DEF TypeOK
<1>1. CASE Poll
  BY <1>1 DEF Poll, LoopInv, Readable, Ahead
<1>2. CASE PollFails
  BY <1>2 DEF PollFails, LoopInv
<1>3. CASE Recvfrom
  <2> PICK s \in Interfaces : Take(s) /\ i' = s + 1
    BY <1>3 DEF Recvfrom
  <2>1. /\ s \in Ahead /\ s + 1 \in 1..(Len(intf_names) + 1)
        /\ \A k \in revents : k >= s + 1 => k \in Ahead /\ k # s
    BY NextAhead DEF Take
  <2>2. /\ rxq[s] # <<>> /\ buf' = <<Head(rxq[s])>> /\ rxq' = [rxq EXCEPT ![s] = Tail(rxq[s])]
        /\ i' = s + 1 /\ pc' = "lookup" /\ pc = "scan" /\ revents' = revents
    BY <1>3 DEF Recvfrom, Take
  <2>3. rxq \in [Interfaces -> Seq(Destinations)] /\ rxq[s] \in Seq(Destinations)
    BY <2>1 DEF LoopInv
  <2>4. /\ Head(rxq[s]) \in Destinations /\ Tail(rxq[s]) \in Seq(Destinations)
        /\ Len(Tail(rxq[s])) = Len(rxq[s]) - 1 /\ Len(rxq[s]) \in Nat
    BY <2>2, <2>3, HeadTailProperties, LenProperties
  <2>5. rxq' \in [Interfaces -> Seq(Destinations)]
    BY <2>2, <2>3, <2>4
  <2>6. \A k \in Interfaces : rxq'[k] = IF k = s THEN Tail(rxq[s]) ELSE rxq[k]
    BY <2>2, <2>3
  <2>7. ASSUME NEW k \in Interfaces PROVE Len(rxq'[k]) <= RcvQueue
    <3>1. Len(rxq[k]) <= RcvQueue /\ RcvQueue \in Nat
      BY RouterNAssumption DEF LoopInv
    <3>2. CASE k = s
      <4>1. Len(rxq'[k]) = Len(rxq[s]) - 1 /\ Len(rxq[s]) <= RcvQueue
        BY <2>4, <2>6, <3>1, <3>2
      <4> QED
        BY <2>4, <3>1, <4>1
    <3>3. CASE k # s
      BY <2>6, <3>1, <3>3
    <3> QED
      BY <3>2, <3>3
  <2>8. \A k \in Ahead' : k \in Interfaces /\ k \in Ahead /\ k # s
    BY <2>1, <2>2 DEF Ahead, LoopInv
  <2>9. \A k \in Ahead' : rxq'[k] # <<>>
    BY <2>2, <2>6, <2>8 DEF LoopInv
  <2> QED
    BY <2>1, <2>2, <2>4, <2>5, <2>7, <2>9 DEF LoopInv
<1>4. CASE RecvfromFails
  <2> PICK s \in Interfaces : Coming(s) /\ i' = s + 1
    BY <1>4 DEF RecvfromFails
  <2>1. /\ UNCHANGED <<pc, revents, buf, rxq>> /\ i' \in 1..(Len(intf_names) + 1)
        /\ \A k \in revents : k >= i' => k \in Ahead
    BY <1>4, NextAhead DEF RecvfromFails
  <2>2. Ahead' \subseteq Ahead
    BY <2>1 DEF Ahead
  <2> QED
    BY <2>1, <2>2 DEF LoopInv
<1>5. CASE Forward
  BY <1>5 DEF Forward, LoopInv, Ahead
<1>6. CASE ScanOver
  BY <1>6 DEF ScanOver, LoopInv
<1>7. CASE WakeOnPacket
  BY <1>7 DEF WakeOnPacket, LoopInv, Readable
<1> QED
  BY <1>1, <1>2, <1>3, <1>4, <1>5, <1>6, <1>7 DEF Loop

\* The invariant of the loop holds in every reachable state.
THEOREM LoopInvariant == Spec => []LoopInv
<1>1. LoopInv /\ UNCHANGED vars => LoopInv'
  BY DEF vars, LoopInv, TypeOK, Ahead
<1>2. LoopInv /\ [Next]_vars => LoopInv'
  BY <1>1, StepLoopInv, ArriveLoopInv DEF Next
<1> QED
  BY <1>2, InitLoopInv, PTL DEF Spec

\* A packet is in hand from recvfrom to the end of its treatment only, and no socket
\* holds more than its receive queue (main's loop in router_n.c).
THEOREM TypeCorrect == Spec => []TypeOK
<1>1. LoopInv => TypeOK
  BY DEF LoopInv
<1> QED
  BY <1>1, LoopInvariant, PTL

\* A socket that poll found readable still is when the scan comes to it, whatever calls
\* fail and packets come in between: recvfrom does not block the router.
THEOREM ReadsNeverBlock == Spec => []RecvNeverBlocks
<1>1. LoopInv => RecvNeverBlocks
  BY DEF LoopInv, RecvNeverBlocks
<1> QED
  BY <1>1, LoopInvariant, PTL

---------------------------------------------------------------------------------
(* The network: every frame stays on its path. *)

\* A set of numbers has a least one: among the intervals from 0 to its members one
\* contains no other strictly.
LEMMA LeastNumber ==
  ASSUME NEW T \in SUBSET Nat, T # {}
  PROVE  \E m \in T : \A k \in T : m <= k
<1> DEFINE F == {0..n : n \in T}
<1>1. \A n \in T : IsFiniteSet(0..n) /\ 0..n \in SUBSET Nat
  BY FS_Interval
<1>2. F \subseteq FiniteSubsetsOf(Nat) /\ F # {}
  BY <1>1 DEF FiniteSubsetsOf
<1>3. PICK x \in F : \A y \in F : <<y, x>> \notin StrictSubsetOrdering(Nat)
  <2> HIDE DEF F
  <2> QED
    BY <1>2, FS_StrictSubsetOrderingWellFounded, WFMin
<1>4. PICK m \in T : x = 0..m
  OBVIOUS
<1>5. ASSUME NEW k \in T, ~(m <= k) PROVE FALSE
  <2>1. 0..k \subseteq 0..m /\ m \in 0..m /\ m \notin 0..k
    BY <1>5
  <2>2. 0..k \in SUBSET Nat /\ 0..m \in SUBSET Nat /\ 0..k # 0..m
    BY <2>1
  <2>3. <<0..k, 0..m>> \in StrictSubsetOrdering(Nat)
    BY <2>1, <2>2 DEF StrictSubsetOrdering
  <2> QED
    BY <1>3, <1>4, <2>3
<1> QED
  BY <1>5

\* The position of a number in a set: a number, greater for a greater member.
LEMMA PositionType ==
  ASSUME NEW n \in Nat, NEW S \in SUBSET (1..n)
  PROVE  /\ IsFiniteSet(S) /\ Cardinality(S) \in Nat
         /\ \A m \in Nat : Position(S, m) \in 0..Cardinality(S)
         /\ \A m \in S : Position(S, m) > 0
         /\ \A m \in Nat, k \in S : m < k => Position(S, m) < Position(S, k)
         /\ \A m \in Nat : Position(S, m + 1) =
              IF m + 1 \in S THEN Position(S, m) + 1 ELSE Position(S, m)
<1>0. \A j \in S : j \in Nat
  OBVIOUS
<1>1. IsFiniteSet(S) /\ Cardinality(S) \in Nat
  <2>1. IsFiniteSet(1..n)
    BY FS_Interval
  <2>2. IsFiniteSet(S)
    BY <2>1, FS_Subset
  <2> QED
    BY <2>2, FS_CardinalityType
<1> DEFINE Below(m) == {j \in S : j <= m}
<1>2. ASSUME NEW m \in Nat
      PROVE  /\ IsFiniteSet(Below(m)) /\ Position(S, m) = Cardinality(Below(m))
             /\ Position(S, m) \in 0..Cardinality(S)
  <2>1. Below(m) \in SUBSET S
    OBVIOUS
  <2>2. IsFiniteSet(Below(m)) /\ Cardinality(Below(m)) \in Nat /\ Cardinality(Below(m)) <= Cardinality(S)
    <3> HIDE DEF Below
    <3> QED
      BY <1>1, <2>1, FS_Subset, FS_CardinalityType
  <2> QED
    BY <1>1, <2>2 DEF Position
<1>3. ASSUME NEW m \in S PROVE Position(S, m) > 0
  <2>1. m \in Below(m) /\ m \in Nat
    OBVIOUS
  <2> HIDE DEF Below
  <2>2. Cardinality(Below(m)) # 0
    BY <1>2, <2>1, FS_EmptySet
  <2> QED
    BY <1>2, <2>1, <2>2
<1>4. ASSUME NEW m \in Nat, NEW k \in S, m < k PROVE Position(S, m) < Position(S, k)
  <2>1. k \in Nat /\ k <= k /\ ~(k <= m)
    BY <1>0, <1>4
  <2>2. ASSUME NEW j \in S, j <= m PROVE j <= k
    BY <1>0, <1>4, <2>1, <2>2
  <2>3. Below(m) \in SUBSET Below(k) /\ k \in Below(k) /\ k \notin Below(m) /\ k \in Nat
    BY <2>1, <2>2
  <2> HIDE DEF Below
  <2>4. /\ Cardinality(Below(m)) <= Cardinality(Below(k))
        /\ Cardinality(Below(m)) # Cardinality(Below(k))
    BY <1>2, <2>3, FS_Subset
  <2>5. Cardinality(Below(m)) \in Nat /\ Cardinality(Below(k)) \in Nat
    BY <1>2, <2>3, FS_CardinalityType
  <2> QED
    BY <1>2, <2>3, <2>4, <2>5
<1>5. ASSUME NEW m \in Nat
      PROVE  Position(S, m + 1) = IF m + 1 \in S THEN Position(S, m) + 1 ELSE Position(S, m)
  <2>1. m + 1 \in Nat /\ m + 1 \notin Below(m)
    OBVIOUS
  <2>4. \A j \in S : j <= m + 1 <=> j <= m \/ j = m + 1
    BY <1>0
  <2>2. CASE m + 1 \in S
    <3>1. Below(m + 1) = Below(m) \cup {m + 1}
      BY <2>2, <2>4
    <3> HIDE DEF Below
    <3> QED
      BY <1>2, <2>1, <2>2, <3>1, FS_AddElement
  <2>3. CASE m + 1 \notin S
    <3>1. Below(m + 1) = Below(m)
      BY <2>3, <2>4
    <3> HIDE DEF Below
    <3> QED
      BY <1>2, <2>1, <2>3, <3>1
  <2> QED
    BY <2>2, <2>3
<1> QED
  BY <1>1, <1>2, <1>3, <1>4, <1>5

\* The k-th member of a set is the member whose position is k.
LEMMA NthMember ==
  ASSUME NEW n \in Nat, NEW S \in SUBSET (1..n), NEW k \in 1..Cardinality(S)
  PROVE  Nth(S, k) \in S /\ Position(S, Nth(S, k)) = k
<1> DEFINE T == {m \in Nat : Position(S, m) >= k}
<1>1. \A j \in S : j \in 1..n
  OBVIOUS
<1>2. Cardinality(S) \in Nat /\ k \in Nat /\ k > 0 /\ k <= Cardinality(S)
  <2>1. Cardinality(S) \in Nat
    BY PositionType
  <2> QED
    BY <2>1
<1>3. Position(S, n) = Cardinality(S) /\ Position(S, 0) = 0
  <2>2. \A j \in S : j <= n /\ ~(j <= 0)
    BY <1>1
  <2>1. {j \in S : j <= n} = S /\ {j \in S : j <= 0} = {}
    BY <2>2
  <2> QED
    BY <2>1, FS_EmptySet DEF Position
<1>4. n \in T
  BY <1>2, <1>3
<1>5. PICK m \in T : \A j \in T : m <= j
  <2>1. T \in SUBSET Nat /\ T # {}
    BY <1>4
  <2> HIDE DEF T
  <2> QED
    BY <2>1, LeastNumber
<1>6. m \in Nat /\ Position(S, m) >= k
  OBVIOUS
<1>7. m # 0
  BY <1>2, <1>3, <1>6
<1>8. m - 1 \in Nat /\ m - 1 + 1 = m /\ m - 1 \notin T
  BY <1>5, <1>6, <1>7
<1> DEFINE before == Position(S, m - 1)
<1>9. before \in Nat /\ Position(S, m) = IF m \in S THEN before + 1 ELSE before
  <2>1. /\ Position(S, m - 1) \in 0..Cardinality(S)
        /\ Position(S, m - 1 + 1) =
             IF m - 1 + 1 \in S THEN Position(S, m - 1) + 1 ELSE Position(S, m - 1)
    BY <1>8, PositionType
  <2> QED
    BY <1>2, <1>8, <2>1
<1>10. ~(before >= k)
  BY <1>8
<1>11. m \in S /\ Position(S, m) = k
  <2> HIDE DEF before, T
  <2> QED
    BY <1>2, <1>6, <1>9, <1>10
<1> QED
  BY <1>11 DEF Nth

LEMMA NthAtPosition ==
  ASSUME NEW n \in Nat, NEW S \in SUBSET (1..n), NEW m \in S
  PROVE  Position(S, m) \in 1..Cardinality(S) /\ Nth(S, Position(S, m)) = m
<1>1. \A k \in S : k \in Nat
  OBVIOUS
<1>2. /\ Cardinality(S) \in Nat /\ \A k \in S : Position(S, k) \in 1..Cardinality(S)
      /\ \A j, k \in S : j < k => Position(S, j) < Position(S, k)
  <2>1. /\ Cardinality(S) \in Nat
        /\ \A k \in Nat : Position(S, k) \in 0..Cardinality(S)
        /\ \A k \in S : Position(S, k) > 0
        /\ \A j \in Nat, k \in S : j < k => Position(S, j) < Position(S, k)
    BY PositionType
  <2>2. ASSUME NEW k \in S PROVE Position(S, k) \in 1..Cardinality(S)
    BY <1>1, <2>1
  <2> QED
    BY <1>1, <2>1, <2>2
<1> DEFINE j == Nth(S, Position(S, m))
<1>3. j \in S /\ Position(S, j) = Position(S, m)
  BY <1>2, NthMember
<1> HIDE DEF j
<1>4. j = m
  BY <1>1, <1>2, <1>3
<1> QED
  BY <1>2, <1>4 DEF j

\* The nodes are those of the links; the ends of a link differ, and one is a router.
LEMMA LinkEnds ==
  /\ \E n \in Nat : DOMAIN Links = 1..n
  /\ \A l \in ToSet(Links) : /\ l[1] \in Nodes /\ l[2] \in Nodes /\ l[1] # l[2]
                             /\ l[1] \in Switches \/ l[2] \in Switches
  /\ \A n \in Nodes : n \in {"h", "s"} \X (1..9) /\ \E l \in ToSet(Links) : Joins(l, n)
<1> DEFINE Names == {"h", "s"} \X (1..9)
<1>1. Links \in Seq(Names \X Names)
  BY TopologyAssumption
<1>2. Len(Links) \in Nat /\ DOMAIN Links = 1..Len(Links)
  BY <1>1, LenProperties
<1>3. \A l \in ToSet(Links) : l[1] \in Names /\ l[2] \in Names
  <2> SUFFICES ASSUME NEW k \in DOMAIN Links PROVE Links[k][1] \in Names /\ Links[k][2] \in Names
    BY DEF ToSet
  <2>1. Links[k] \in Names \X Names
    BY <1>1, <1>2, ElementOfSeq
  <2> HIDE DEF Names
  <2> QED
    BY <2>1
<1>4. \A n : n \in Nodes <=> \E l \in ToSet(Links) : Joins(l, n)
  BY DEF Nodes, Joins
<1>5. \A l \in ToSet(Links) : l[1] \in Nodes /\ l[2] \in Nodes
  BY <1>4 DEF Joins
<1>6. \A l \in ToSet(Links) : l[1] # l[2] /\ (l[1] \in Switches \/ l[2] \in Switches)
  BY TopologyAssumption
<1>7. \A n \in Nodes : n \in Names
  <2> HIDE DEF Names
  <2> QED
    BY <1>3, <1>4 DEF Joins
<1> QED
  BY <1>2, <1>4, <1>5, <1>6, <1>7

\* A host is its number.
LEMMA HostsByNumber ==
  /\ HostNumbers \in SUBSET (1..9)
  /\ \A h \in Hosts : h[2] \in HostNumbers /\ h = <<"h", h[2]>>
  /\ \A n \in HostNumbers : <<"h", n>> \in Hosts
<1>1. ASSUME NEW h \in Hosts
      PROVE  h = <<"h", h[2]>> /\ h[2] \in 1..9
  <2>1. h \in {"h", "s"} \X (1..9) /\ h[1] = "h"
    BY LinkEnds DEF Hosts
  <2> QED
    BY <2>1
<1>2. \A n \in HostNumbers : <<"h", n>> \in Hosts /\ n \in 1..9
  BY <1>1 DEF HostNumbers
<1> QED
  BY <1>1, <1>2 DEF HostNumbers

\* Each call of addLink adds a link of the manifest: one of a host and then those
\* between switches.
LEMMA WiringIs ==
  \E n \in Nat :
    /\ Cardinality(HostNumbers) \in 0..n /\ DOMAIN Wiring = 1..n
    /\ \A k \in 1..n :
         /\ Wiring[k] \in ToSet(Links)
         /\ IF k <= Cardinality(HostNumbers)
            THEN Joins(Wiring[k], <<"h", Nth(HostNumbers, k)>>)
            ELSE {Wiring[k][1], Wiring[k][2]} \subseteq Switches
<1> DEFINE between == {k \in DOMAIN Links : {Links[k][1], Links[k][2]} \subseteq Switches}
           c == Cardinality(HostNumbers)
           d == Cardinality(between)
<1>1. c \in Nat
  BY HostsByNumber, PositionType
<1>2. PICK nl \in Nat : DOMAIN Links = 1..nl
  BY LinkEnds
<1>3. between \in SUBSET (1..nl)
  BY <1>2
<1>4. d \in Nat
  <2> HIDE DEF between
  <2> QED
    BY <1>3, PositionType
<1>5. ASSUME NEW k \in 1..c
      PROVE  /\ HostLinks[k] \in ToSet(Links)
             /\ Joins(HostLinks[k], <<"h", Nth(HostNumbers, k)>>)
  <2>1. Nth(HostNumbers, k) \in HostNumbers
    BY HostsByNumber, NthMember
  <2>2. <<"h", Nth(HostNumbers, k)>> \in Nodes
    BY <2>1, HostsByNumber DEF Hosts
  <2>3. \E l \in ToSet(Links) : Joins(l, <<"h", Nth(HostNumbers, k)>>)
    BY <2>2, LinkEnds
  <2> QED
    BY <2>3 DEF HostLinks
<1>6. ASSUME NEW k \in 1..d
      PROVE  /\ SwitchLinks[k] \in ToSet(Links)
             /\ {SwitchLinks[k][1], SwitchLinks[k][2]} \subseteq Switches
  <2>1. Nth(between, k) \in between
    <3> HIDE DEF between
    <3> QED
      BY <1>2, <1>3, NthMember
  <2>2. SwitchLinks[k] = Links[Nth(between, k)]
    BY DEF SwitchLinks
  <2> QED
    BY <2>1, <2>2 DEF ToSet
<1> HIDE DEF between, c, d
<1>7. /\ HostLinks \in Seq(ToSet(Links)) /\ SwitchLinks \in Seq(ToSet(Links))
      /\ Len(HostLinks) = c /\ Len(SwitchLinks) = d
  <2>1. HostLinks \in [1..c -> ToSet(Links)]
    BY <1>5 DEF HostLinks, c
  <2>2. SwitchLinks \in [1..d -> ToSet(Links)]
    BY <1>6 DEF SwitchLinks, d, between
  <2> QED
    BY <1>1, <1>4, <2>1, <2>2, SeqDef, LenProperties
<1>8. /\ Len(Wiring) = c + d /\ DOMAIN Wiring = 1..c + d
      /\ \A k \in 1..c + d : Wiring[k] = IF k <= c THEN HostLinks[k] ELSE SwitchLinks[k - c]
  <2>1. /\ Wiring \in Seq(ToSet(Links)) /\ Len(Wiring) = c + d
        /\ \A k \in 1..c + d : Wiring[k] = IF k <= c THEN HostLinks[k] ELSE SwitchLinks[k - c]
    <3>1. /\ Wiring \in Seq(ToSet(Links)) /\ Len(Wiring) = Len(HostLinks) + Len(SwitchLinks)
          /\ \A k \in 1..Len(HostLinks) + Len(SwitchLinks) :
               Wiring[k] = IF k <= Len(HostLinks) THEN HostLinks[k]
                           ELSE SwitchLinks[k - Len(HostLinks)]
      BY <1>7, ConcatProperties DEF Wiring
    <3> QED
      BY <1>7, <3>1
  <2>2. DOMAIN Wiring = 1..Len(Wiring)
    BY <2>1, LenProperties
  <2> QED
    BY <2>1, <2>2
<1>9. c + d \in Nat /\ c \in 0..c + d
  BY <1>1, <1>4
<1>10. ASSUME NEW k \in 1..c + d
       PROVE  /\ Wiring[k] \in ToSet(Links)
              /\ IF k <= c THEN Joins(Wiring[k], <<"h", Nth(HostNumbers, k)>>)
                           ELSE {Wiring[k][1], Wiring[k][2]} \subseteq Switches
  <2>1. CASE k <= c
    <3>1. k \in 1..c
      BY <1>1, <1>4, <2>1
    <3> QED
      BY <1>5, <1>8, <2>1, <3>1
  <2>2. CASE ~(k <= c)
    <3>1. k - c \in 1..d
      BY <1>1, <1>4, <2>2
    <3> QED
      BY <1>6, <1>8, <2>2, <3>1
  <2> QED
    BY <2>1, <2>2
<1> QED
  BY <1>8, <1>9, <1>10 DEF c

\* The interfaces of a node are numbered from 1, and each leads over its link to the
\* other end.
LEMMA LinksOfNode ==
  ASSUME NEW n \in Nodes
  PROVE  /\ \E m \in Nat : LinksOf(n) \in SUBSET (1..m)
         /\ Cardinality(LinksOf(n)) \in Nat
         /\ DOMAIN Neighbours[n] = 1..Cardinality(LinksOf(n))
         /\ \A k \in LinksOf(n) : /\ Wiring[k] \in ToSet(Links) /\ Joins(Wiring[k], n)
                                  /\ Position(LinksOf(n), k) \in DOMAIN Neighbours[n]
                                  /\ Nth(LinksOf(n), Position(LinksOf(n), k)) = k
         /\ \A p \in DOMAIN Neighbours[n] :
              /\ Nth(LinksOf(n), p) \in LinksOf(n)
              /\ Neighbours[n][p] = LET l == Wiring[Nth(LinksOf(n), p)]
                                    IN  IF l[1] = n THEN l[2] ELSE l[1]
<1>1. PICK m \in Nat : DOMAIN Wiring = 1..m /\ \A k \in 1..m : Wiring[k] \in ToSet(Links)
  BY WiringIs
<1>2. /\ LinksOf(n) \in SUBSET (1..m)
      /\ \A k \in LinksOf(n) : Wiring[k] \in ToSet(Links) /\ Joins(Wiring[k], n)
  BY <1>1 DEF LinksOf
<1>3. Cardinality(LinksOf(n)) \in Nat
  BY <1>2, PositionType
<1>4. /\ DOMAIN Neighbours[n] = 1..Cardinality(LinksOf(n))
      /\ \A p \in DOMAIN Neighbours[n] :
           Neighbours[n][p] = LET l == Wiring[Nth(LinksOf(n), p)]
                              IN  IF l[1] = n THEN l[2] ELSE l[1]
  BY DEF Neighbours
<1>5. \A p \in DOMAIN Neighbours[n] : Nth(LinksOf(n), p) \in LinksOf(n)
  BY <1>2, <1>4, NthMember
<1>6. \A k \in LinksOf(n) : /\ Position(LinksOf(n), k) \in DOMAIN Neighbours[n]
                            /\ Nth(LinksOf(n), Position(LinksOf(n), k)) = k
  BY <1>2, <1>4, NthAtPosition
<1> QED
  BY <1>2, <1>3, <1>4, <1>5, <1>6

\* The other end of an interface is an interface, of the neighbour, and leads back.
LEMMA FarEndIs ==
  ASSUME NEW n \in Nodes, NEW p \in DOMAIN Neighbours[n]
  PROVE  /\ <<n, p>> \in Ports /\ FarEnd[<<n, p>>] \in Ports
         /\ Neighbours[n][p] \in Nodes /\ Neighbours[n][p] # n
         /\ FarEnd[<<n, p>>][1] = Neighbours[n][p]
         /\ Neighbours[FarEnd[<<n, p>>][1]][FarEnd[<<n, p>>][2]] = n
<1> DEFINE k == Nth(LinksOf(n), p)
           l == Wiring[k]
           m == Neighbours[n][p]
           q == Position(LinksOf(m), k)
<1>1. <<n, p>> \in Ports
  BY DEF Ports
<1>2. k \in LinksOf(n) /\ m = IF l[1] = n THEN l[2] ELSE l[1]
  BY LinksOfNode
<1>3. l \in ToSet(Links) /\ Joins(l, n)
  BY <1>2, LinksOfNode
<1>4. l[1] \in Nodes /\ l[2] \in Nodes /\ l[1] # l[2] /\ (l[1] = n \/ l[2] = n)
  BY <1>3, LinkEnds DEF Joins
<1>5. m \in Nodes /\ m # n /\ Joins(l, m) /\ n = IF l[1] = m THEN l[2] ELSE l[1]
  BY <1>2, <1>4 DEF Joins
<1>6. FarEnd[<<n, p>>] = <<m, q>>
  BY <1>1 DEF FarEnd
<1>7. k \in LinksOf(m)
  BY <1>2, <1>5 DEF LinksOf
<1> HIDE DEF k, l, m
<1>8. q \in DOMAIN Neighbours[m] /\ Nth(LinksOf(m), q) = k
  BY <1>5, <1>7, LinksOfNode
<1>9. Neighbours[m][q] = n
  BY <1>5, <1>8, LinksOfNode DEF l
<1>10. <<m, q>> \in Ports
  BY <1>5, <1>8 DEF Ports
<1> QED
  BY <1>1, <1>5, <1>6, <1>9, <1>10 DEF m

\* Neighbours are mutual.
LEMMA NeighboursMutual ==
  ASSUME NEW n \in Nodes, NEW m \in ToSet(Neighbours[n])
  PROVE  m \in Nodes /\ n \in ToSet(Neighbours[m])
<1>1. PICK p \in DOMAIN Neighbours[n] : m = Neighbours[n][p]
  BY DEF ToSet
<1> DEFINE y == FarEnd[<<n, p>>]
<1>2. m \in Nodes /\ y \in Ports /\ y[1] = m /\ Neighbours[y[1]][y[2]] = n
  BY <1>1, FarEndIs
<1>3. y[2] \in DOMAIN Neighbours[y[1]]
  <2> HIDE DEF y
  <2> QED
    BY <1>2 DEF Ports
<1> QED
  BY <1>2, <1>3 DEF ToSet

\* A host has one interface.
LEMMA OneLink ==
  ASSUME NEW h \in Hosts
  PROVE  h \in Nodes /\ DOMAIN Neighbours[h] = {1}
<1> DEFINE c == Cardinality(HostNumbers)
           k == Position(HostNumbers, h[2])
<1>1. h \in Nodes /\ h \notin Switches /\ h[1] = "h"
  BY DEF Hosts, Switches
<1>2. h[2] \in HostNumbers /\ h = <<"h", h[2]>> /\ HostNumbers \in SUBSET (1..9)
  BY HostsByNumber
<1>3. k \in 1..c /\ Nth(HostNumbers, k) = h[2]
  BY <1>2, NthAtPosition
<1>4. PICK n \in Nat :
        /\ c \in 0..n /\ DOMAIN Wiring = 1..n
        /\ \A j \in 1..n :
             /\ Wiring[j] \in ToSet(Links)
             /\ IF j <= c THEN Joins(Wiring[j], <<"h", Nth(HostNumbers, j)>>)
                ELSE {Wiring[j][1], Wiring[j][2]} \subseteq Switches
  BY WiringIs
<1>5. k \in LinksOf(h)
  <2>1. k \in 1..n /\ k <= c
    BY <1>3, <1>4
  <2> HIDE DEF k, c
  <2> QED
    BY <1>2, <1>3, <1>4, <2>1 DEF LinksOf
<1>6. ASSUME NEW j \in LinksOf(h) PROVE j = k
  <2>1. j \in 1..n /\ Joins(Wiring[j], h) /\ Wiring[j] \in ToSet(Links)
    BY <1>4 DEF LinksOf
  <2>2. j <= c
    <3> SUFFICES ASSUME ~(j <= c) PROVE FALSE
      OBVIOUS
    <3> HIDE DEF c
    <3>1. {Wiring[j][1], Wiring[j][2]} \subseteq Switches
      BY <1>4, <2>1
    <3>2. Wiring[j][1] \in Switches /\ Wiring[j][2] \in Switches
      BY <3>1
    <3> QED
      BY <1>1, <2>1, <3>2 DEF Joins
  <2>3. Nth(HostNumbers, j) \in HostNumbers /\ Position(HostNumbers, Nth(HostNumbers, j)) = j
    <3>1. j \in 1..c /\ HostNumbers \in SUBSET (1..9)
      BY <1>2, <1>4, <2>1, <2>2
    <3> QED
      BY <3>1, NthMember
  <2> DEFINE g == <<"h", Nth(HostNumbers, j)>>
  <2>4. g \in Hosts /\ g \notin Switches /\ Joins(Wiring[j], g)
    BY <1>4, <2>1, <2>2, <2>3, HostsByNumber DEF Hosts, Switches
  <2>5. Wiring[j][1] \in Switches \/ Wiring[j][2] \in Switches
    BY <2>1, LinkEnds
  <2>6. g = h
    <3> HIDE DEF g
    <3> QED
      BY <1>1, <2>1, <2>4, <2>5 DEF Joins
  <2>7. Nth(HostNumbers, j) = h[2]
    BY <1>2, <2>6
  <2> QED
    BY <2>3, <2>7
<1>7. LinksOf(h) = {k}
  BY <1>5, <1>6
<1>8. Cardinality(LinksOf(h)) = 1
  BY <1>7, FS_Singleton
<1> QED
  BY <1>1, <1>8, LinksOfNode

\* A host is at distance 0 from itself, any other node one link farther than one of its
\* neighbours, and no node more than one farther than any of them.
LEMMA DistanceIs ==
  ASSUME NEW h \in Hosts
  PROVE  /\ Distance[h] \in [Nodes -> Nat]
         /\ Distance[h][h] = 0
         /\ \A n \in Nodes : \A m \in ToSet(Neighbours[n]) : Distance[h][n] <= Distance[h][m] + 1
         /\ \A n \in Nodes \ {h} :
              \E m \in ToSet(Neighbours[n]) : Distance[h][n] = Distance[h][m] + 1
<1>1. Distance[h] \in Distances /\ IsDistance(Distance[h], h)
  BY ConnectedAssumption DEF Distance
<1>2. Distance[h] \in [Nodes -> Nat]
  BY <1>1 DEF Distances
<1>3. ASSUME NEW n \in Nodes, NEW m \in ToSet(Neighbours[n])
      PROVE  Distance[h][n] <= Distance[h][m] + 1
  <2>1. m \in Nodes
    BY NeighboursMutual
  <2>2. Distance[h][m] \in Nat
    BY <1>2, <2>1
  <2>3. CASE n = h
    BY <1>1, <2>2, <2>3 DEF IsDistance
  <2>4. CASE n # h
    BY <1>1, <2>4 DEF IsDistance
  <2> QED
    BY <2>3, <2>4
<1> QED
  BY <1>1, <1>2, <1>3 DEF IsDistance

\* No way is shorter than the distance.
LEMMA NoShortcut ==
  ASSUME NEW s \in Hosts, NEW r \in Hosts, NEW n \in Nodes
  PROVE  Distance[s][r] <= Distance[s][n] + Distance[r][n]
<1> DEFINE D(h, m) == Distance[h][m]
           Bad(m) == ~(D(s, r) <= D(s, m) + D(r, m))
           T == {D(r, m) : m \in {j \in Nodes : Bad(j)}}
<1>1. r \in Nodes /\ s \in Nodes
  BY OneLink
<1>2. \A m \in Nodes : D(s, m) \in Nat /\ D(r, m) \in Nat
  BY DistanceIs
<1> SUFFICES ASSUME Bad(n) PROVE FALSE
  OBVIOUS
<1>3. T \in SUBSET Nat /\ T # {}
  BY <1>2
<1>4. PICK d \in T : \A k \in T : d <= k
  <2> HIDE DEF T
  <2> QED
    BY <1>3, LeastNumber
<1>5. PICK m \in Nodes : Bad(m) /\ d = D(r, m)
  BY <1>4
<1>6. m # r
  BY <1>1, <1>2, <1>5, DistanceIs
<1>7. PICK k \in ToSet(Neighbours[m]) : D(r, m) = D(r, k) + 1
  BY <1>6, DistanceIs
<1>8. k \in Nodes /\ m \in ToSet(Neighbours[k])
  BY NeighboursMutual
<1>9. D(s, k) <= D(s, m) + 1
  BY <1>8, DistanceIs
<1>10. ~Bad(k)
  <2>1. D(r, k) < d /\ D(r, k) \in Nat
    BY <1>2, <1>5, <1>7, <1>8
  <2>2. D(r, k) \notin T
    <3> HIDE DEF T, D, Bad
    <3>1. d \in Nat
      BY <1>3
    <3> QED
      BY <1>4, <2>1, <3>1
  <2> HIDE DEF Bad, D
  <2> QED
    BY <1>8, <2>2
<1> HIDE DEF D
<1> QED
  BY <1>1, <1>2, <1>5, <1>7, <1>8, <1>9, <1>10

\* The one link of the sender is the first of the path.
LEMMA FirstLink ==
  ASSUME NEW f \in Hosts \X Hosts, f[1] # f[2]
  PROVE  /\ <<f[1], 1>> \in Ports /\ FarEnd[<<f[1], 1>>] \in Ports
         /\ Along(f, FarEnd[<<f[1], 1>>])
<1> DEFINE s == f[1]
           r == f[2]
           m == Neighbours[s][1]
<1>1. s \in Hosts /\ r \in Hosts /\ s # r
  OBVIOUS
<1> HIDE DEF s, r
<1>2. s \in Nodes /\ r \in Nodes /\ 1 \in DOMAIN Neighbours[s] /\ ToSet(Neighbours[s]) = {m}
  BY <1>1, OneLink DEF ToSet
<1> DEFINE x == FarEnd[<<s, 1>>]
<1>3. /\ <<s, 1>> \in Ports /\ x \in Ports /\ m \in Nodes /\ m # s
      /\ x[1] = m /\ Neighbours[x[1]][x[2]] = s
  BY <1>2, FarEndIs
<1>4. s \in ToSet(Neighbours[m])
  BY <1>2, NeighboursMutual
<1>5. /\ Distance[s][m] \in Nat /\ Distance[r][m] \in Nat /\ Distance[r][s] \in Nat
      /\ Distance[s][r] \in Nat /\ Distance[s][s] = 0 /\ Distance[r][r] = 0
  BY <1>1, <1>2, <1>3, DistanceIs
<1>6. Distance[s][m] = 1
  <2>1. Distance[s][m] <= Distance[s][s] + 1
    BY <1>1, <1>3, <1>4, DistanceIs
  <2>2. PICK k \in ToSet(Neighbours[m]) : Distance[s][m] = Distance[s][k] + 1
    BY <1>1, <1>3, DistanceIs
  <2>3. Distance[s][k] \in Nat
    BY <1>1, <1>3, NeighboursMutual, DistanceIs
  <2> QED
    BY <1>5, <2>1, <2>2, <2>3
<1>7. Distance[r][s] = Distance[r][m] + 1
  BY <1>1, <1>2, DistanceIs
<1>8. Distance[s][r] = Distance[r][s]
  <2>1. Distance[s][r] <= Distance[s][s] + Distance[r][s]
    BY <1>1, <1>2, NoShortcut
  <2>2. Distance[r][s] <= Distance[r][r] + Distance[s][r]
    BY <1>1, <1>2, NoShortcut
  <2> QED
    BY <1>5, <2>1, <2>2
<1> HIDE DEF m, x
<1>9. Along(f, x)
  BY <1>3, <1>5, <1>6, <1>7, <1>8 DEF Along, s, r
<1> QED
  BY <1>3, <1>9 DEF s, x

\* A router on the path that brings a frame nearer to the receiver keeps it on the path.
LEMMA NextLink ==
  ASSUME NEW f \in Hosts \X Hosts, NEW x \in Ports, Along(f, x),
         NEW p \in DOMAIN Neighbours[x[1]],
         Distance[f[2]][Neighbours[x[1]][p]] < Distance[f[2]][x[1]]
  PROVE  <<x[1], p>> \in Ports /\ FarEnd[<<x[1], p>>] \in Ports /\ Along(f, FarEnd[<<x[1], p>>])
<1> DEFINE s == f[1]
           r == f[2]
           n == x[1]
           m == Neighbours[n][p]
           y == FarEnd[<<n, p>>]
<1>1. s \in Hosts /\ r \in Hosts /\ n \in Nodes
  BY DEF Ports
<1>2. /\ <<n, p>> \in Ports /\ y \in Ports /\ m \in Nodes
      /\ y[1] = m /\ Neighbours[y[1]][y[2]] = n
  BY <1>1, FarEndIs
<1>3. Distance[s][n] + Distance[r][n] = Distance[s][r] /\ Distance[r][m] < Distance[r][n]
  BY DEF Along
<1> HIDE DEF s, r, n, m, y
<1>4. m \in ToSet(Neighbours[n])
  BY DEF ToSet, m, n
<1>5. n \in ToSet(Neighbours[m])
  BY <1>1, <1>4, NeighboursMutual
<1>6. Distance[s][m] <= Distance[s][n] + 1
  BY <1>1, <1>2, <1>5, DistanceIs
<1>7. Distance[s][r] <= Distance[s][m] + Distance[r][m]
  BY <1>1, <1>2, NoShortcut
<1>8. /\ Distance[s][m] \in Nat /\ Distance[r][m] \in Nat
      /\ Distance[s][n] \in Nat /\ Distance[r][n] \in Nat
  BY <1>1, <1>2, DistanceIs
<1>9. Distance[s][m] + Distance[r][m] = Distance[s][r] /\ Distance[s][n] < Distance[s][m]
  BY <1>3, <1>6, <1>7, <1>8
<1>10. Along(f, y)
  BY <1>2, <1>9 DEF Along, s, r
<1> QED
  BY <1>2, <1>10 DEF n, y

Frames == Flows \X (1..MaxPackets)

\* What PathInv says of the queues, of any state of them.
OnTheirPath(q) ==
  /\ q \in [Ports -> Seq(Frames)]
  /\ \A x \in Ports : \A k \in DOMAIN q[x] : Sound(q[x][k][1]) => Along(q[x][k][1], x)

\* Putting a frame where it belongs, or losing it, keeps the others where they are.
LEMMA TransmitKeeps ==
  ASSUME NEW q, OnTheirPath(q), NEW n, NEW p, NEW frame \in Frames,
         FarEnd[<<n, p>>] \in Ports,
         Sound(frame[1]) => Along(frame[1], FarEnd[<<n, p>>]),
         Transmit(q, n, p, frame)
  PROVE  OnTheirPath(queues')
<1> DEFINE y == FarEnd[<<n, p>>]
           longer == Append(q[y], frame)
<1>1. q \in [Ports -> Seq(Frames)] /\ q[y] \in Seq(Frames)
  BY DEF OnTheirPath
<1>2. CASE queues' = [q EXCEPT ![y] = longer]
  <2>1. longer \in Seq(Frames) /\ Len(longer) = Len(q[y]) + 1
    BY <1>1, AppendProperties
  <2>2. /\ queues' \in [Ports -> Seq(Frames)]
        /\ \A x \in Ports : queues'[x] = IF x = y THEN longer ELSE q[x]
    BY <1>1, <1>2, <2>1
  <2>3. ASSUME NEW k \in DOMAIN longer, Sound(longer[k][1]) PROVE Along(longer[k][1], y)
    <3>1. DOMAIN longer = 1..Len(q[y]) + 1 /\ DOMAIN q[y] = 1..Len(q[y]) /\ Len(q[y]) \in Nat
      BY <1>1, <2>1, LenProperties
    <3>2. CASE k = Len(q[y]) + 1
      <4>1. longer[k] = frame
        BY <1>1, <3>2, AppendProperties
      <4> QED
        BY <2>3, <4>1
    <3>3. CASE k # Len(q[y]) + 1
      <4>1. k \in DOMAIN q[y]
        BY <3>1, <3>3
      <4>2. longer[k] = q[y][k]
        BY <1>1, <3>1, <4>1, AppendProperties
      <4> QED
        BY <2>3, <4>1, <4>2 DEF OnTheirPath
    <3> QED
      BY <3>2, <3>3
  <2>4. ASSUME NEW x \in Ports, NEW k \in DOMAIN queues'[x], Sound(queues'[x][k][1])
        PROVE  Along(queues'[x][k][1], x)
    <3> HIDE DEF y, longer
    <3>1. CASE x = y
      BY <2>2, <2>3, <2>4, <3>1
    <3>2. CASE x # y
      BY <2>2, <2>4, <3>2 DEF OnTheirPath
    <3> QED
      BY <3>1, <3>2
  <2> QED
    BY <2>2, <2>4 DEF OnTheirPath
<1>3. CASE queues' = q
  BY <1>3
<1> QED
  BY <1>2, <1>3 DEF Transmit

\* So does taking the oldest frame of a queue.
LEMMA TakenKeeps ==
  ASSUME OnTheirPath(queues), NEW x \in Ports, queues[x] # <<>>
  PROVE  /\ OnTheirPath(Taken(x))
         /\ Head(queues[x]) \in Frames
         /\ Sound(Head(queues[x])[1]) => Along(Head(queues[x])[1], x)
<1>1. queues \in [Ports -> Seq(Frames)] /\ queues[x] \in Seq(Frames)
  BY DEF OnTheirPath
<1>2. /\ Head(queues[x]) \in Frames /\ Tail(queues[x]) \in Seq(Frames)
      /\ Len(Tail(queues[x])) = Len(queues[x]) - 1
      /\ \A k \in 1..Len(Tail(queues[x])) : Tail(queues[x])[k] = queues[x][k + 1]
      /\ Head(queues[x]) = queues[x][1]
  BY <1>1, HeadTailProperties
<1>3. /\ Len(queues[x]) \in Nat \ {0} /\ DOMAIN queues[x] = 1..Len(queues[x])
      /\ DOMAIN Tail(queues[x]) = 1..Len(queues[x]) - 1
  BY <1>1, <1>2, EmptySeq, LenProperties
<1>4. /\ Taken(x) \in [Ports -> Seq(Frames)]
      /\ \A y \in Ports : Taken(x)[y] = IF y = x THEN Tail(queues[x]) ELSE queues[y]
  BY <1>1, <1>2 DEF Taken
<1>5. ASSUME NEW y \in Ports, NEW k \in DOMAIN Taken(x)[y], Sound(Taken(x)[y][k][1])
      PROVE  Along(Taken(x)[y][k][1], y)
  <2>1. CASE y = x
    <3>1. k \in DOMAIN Tail(queues[x]) /\ Taken(x)[y][k] = Tail(queues[x])[k]
      BY <1>4, <1>5, <2>1
    <3>2. k + 1 \in DOMAIN queues[x] /\ Taken(x)[y][k] = queues[x][k + 1]
      BY <1>2, <1>3, <3>1
    <3> QED
      BY <1>5, <2>1, <3>2 DEF OnTheirPath
  <2>2. CASE y # x
    BY <1>4, <1>5, <2>2 DEF OnTheirPath
  <2> QED
    BY <2>1, <2>2
<1>6. 1 \in DOMAIN queues[x]
  BY <1>3
<1>7. Sound(Head(queues[x])[1]) => Along(Head(queues[x])[1], x)
  BY <1>2, <1>6 DEF OnTheirPath
<1> QED
  BY <1>2, <1>4, <1>5, <1>7 DEF OnTheirPath

\* No frame is under way at first.
LEMMA InitPathInv == NetInit /\ RoutesLead => PathInv
<1> SUFFICES ASSUME NetInit, RoutesLead PROVE PathInv
  OBVIOUS
<1>1. <<>> \in Seq(Flows \X (1..MaxPackets)) /\ <<>> \in Seq(1..MaxPackets) /\ DOMAIN <<>> = {}
  BY EmptySeq
<1> QED
  BY <1>1, FlowsAssumption DEF NetInit, PathInv, NetTypeOK, OnPath

LEMMA PathInvIs ==
  PathInv <=> /\ files \in DOMAIN RoutesFiles /\ output = Output[files] /\ lossy \in BOOLEAN
              /\ sent \in [Flows -> 0..MaxPackets]
              /\ received \in [Flows -> Seq(1..MaxPackets)]
              /\ RoutesLead /\ OnTheirPath(queues)
BY DEF PathInv, NetTypeOK, OnPath, OnTheirPath, Frames

\* A step leaves the files alone, and so what is sound.
LEMMA StepPathInv ==
  ASSUME PathInv, UNCHANGED <<files, output, lossy>>,
         sent' \in [Flows -> 0..MaxPackets], received' \in [Flows -> Seq(1..MaxPackets)],
         OnTheirPath(queues')
  PROVE  PathInv'
<1>1. \A f \in Flows : Sound(f)' <=> Sound(f)
  BY DEF Sound
<1>2. RoutesLead'
  BY <1>1 DEF PathInv, RoutesLead
<1>3. OnPath'
  BY DEF OnTheirPath, OnPath, Sound
<1> QED
  BY <1>2, <1>3 DEF PathInv, NetTypeOK, OnTheirPath, Frames

\* The sender's frames go out by its one link.
LEMMA SendPathInv ==
  ASSUME PathInv, NEW f \in Flows, SendPacket(f)
  PROVE  PathInv'
<1>1. /\ OnTheirPath(queues) /\ sent \in [Flows -> 0..MaxPackets]
      /\ received \in [Flows -> Seq(1..MaxPackets)]
  BY PathInvIs
<1>2. /\ sent[f] < MaxPackets /\ sent' = [sent EXCEPT ![f] = sent[f] + 1]
      /\ Transmit(queues, f[1], 1, <<f, sent'[f]>>)
      /\ UNCHANGED <<files, output, lossy, received>>
  BY DEF SendPacket
<1>3. sent[f] \in Nat /\ MaxPackets \in Nat
  BY <1>1, FlowsAssumption
<1>4. sent' \in [Flows -> 0..MaxPackets] /\ sent'[f] \in 1..MaxPackets
  BY <1>1, <1>2, <1>3
<1>5. f \in Hosts \X Hosts /\ f[1] # f[2]
  BY FlowsAssumption
<1>6. FarEnd[<<f[1], 1>>] \in Ports /\ Along(f, FarEnd[<<f[1], 1>>])
  BY <1>5, FirstLink
<1> DEFINE frame == <<f, sent'[f]>>
<1>7. frame \in Frames /\ frame[1] = f
  BY <1>4 DEF Frames
<1> HIDE DEF frame
<1>8. OnTheirPath(queues')
  BY <1>1, <1>2, <1>6, <1>7, TransmitKeeps DEF frame
<1> QED
  BY <1>1, <1>2, <1>4, <1>8, StepPathInv

\* A router brings a frame of a sound flow one link nearer to its receiver.
LEMMA ForwardPathInv ==
  ASSUME PathInv, NEW x \in Ports, x[1] \in Switches, ForwardFrame(x[1], x[2])
  PROVE  PathInv'
<1> DEFINE s == x[1]
           frame == Head(queues[x])
           f == frame[1]
           out == output[s][f[2]]
<1>1. /\ OnTheirPath(queues) /\ sent \in [Flows -> 0..MaxPackets]
      /\ received \in [Flows -> Seq(1..MaxPackets)]
  BY PathInvIs
<1>2. x = <<x[1], x[2]>> /\ s \in Nodes
  BY DEF Ports
<1>3. /\ queues[x] # <<>>
      /\ IF out \in DOMAIN Neighbours[s] THEN Transmit(Taken(x), s, out, frame)
                                          ELSE queues' = Taken(x)
      /\ UNCHANGED <<files, output, lossy, sent, received>>
  BY <1>2 DEF ForwardFrame
<1>4. /\ OnTheirPath(Taken(x)) /\ frame \in Frames
      /\ Sound(f) => Along(f, x)
  BY <1>1, <1>3, TakenKeeps
<1>5. f \in Flows /\ f \in Hosts \X Hosts
  BY <1>4, FlowsAssumption DEF Frames
<1>6. CASE out \in DOMAIN Neighbours[s]
  <2>1. FarEnd[<<s, out>>] \in Ports
    BY <1>2, <1>6, FarEndIs
  <2>2. ASSUME Sound(f) PROVE Along(f, FarEnd[<<s, out>>])
    <3>1. Distance[f[2]][Neighbours[s][out]] < Distance[f[2]][s]
      <4> HIDE DEF f, s
      <4>1. s \in Switches
        BY DEF s
      <4>2. f \in Flows /\ \A g \in Flows : Sound(g) =>
              \A n \in Switches : Distance[g[2]][Neighbours[n][output[n][g[2]]]] < Distance[g[2]][n]
        BY <1>5 DEF PathInv, RoutesLead
      <4> QED
        BY <2>2, <4>1, <4>2
    <3>2. Along(f, x)
      BY <1>4, <2>2
    <3> HIDE DEF out, f
    <3> QED
      BY <1>5, <1>6, <3>1, <3>2, NextLink
  <2> HIDE DEF s, frame, out
  <2>3. OnTheirPath(queues')
    BY <1>3, <1>4, <1>6, <2>1, <2>2, TransmitKeeps
  <2> QED
    BY <1>1, <1>3, <2>3, StepPathInv
<1>7. CASE out \notin DOMAIN Neighbours[s]
  <2>1. OnTheirPath(queues')
    BY <1>3, <1>4, <1>7
  <2> QED
    BY <1>1, <1>3, <2>1, StepPathInv
<1> QED
  BY <1>6, <1>7

\* What a host takes in is gone from its queue.
LEMMA ReceivePathInv ==
  ASSUME PathInv, NEW h \in Hosts, Receive(h)
  PROVE  PathInv'
<1> DEFINE x == <<h, 1>>
           f == Head(queues[x])[1]
           number == Head(queues[x])[2]
<1>1. /\ OnTheirPath(queues) /\ sent \in [Flows -> 0..MaxPackets]
      /\ received \in [Flows -> Seq(1..MaxPackets)]
  BY PathInvIs
<1>2. x \in Ports
  BY OneLink DEF Ports
<1>3. /\ queues[x] # <<>> /\ queues' = Taken(x)
      /\ received' \in {received, [received EXCEPT ![f] = Append(received[f], number)]}
      /\ UNCHANGED <<files, output, lossy, sent>>
  BY DEF Receive
<1> HIDE DEF x
<1>4. OnTheirPath(queues') /\ f \in Flows /\ number \in 1..MaxPackets
  BY <1>1, <1>2, <1>3, TakenKeeps DEF Frames
<1>5. Append(received[f], number) \in Seq(1..MaxPackets)
  BY <1>1, <1>4, AppendProperties
<1>6. received' \in [Flows -> Seq(1..MaxPackets)]
  <2> HIDE DEF f, number
  <2> QED
    BY <1>1, <1>3, <1>4, <1>5
<1> QED
  BY <1>1, <1>3, <1>4, <1>6, StepPathInv

\* The invariant holds in every state that a network with leading routes can reach.
THEOREM PathInvariant == NetSpec /\ RoutesLead => []PathInv
<1>1. PathInv /\ UNCHANGED netVars => PathInv'
  BY DEF netVars, PathInv, NetTypeOK, RoutesLead, OnPath, Sound
<1>2. PathInv /\ [NetNext]_netVars => PathInv'
  BY <1>1, SendPathInv, ForwardPathInv, ReceivePathInv DEF NetNext
<1> QED
  BY <1>2, InitPathInv, PTL DEF NetSpec

\* If the routes files lead the packets of a flow one link nearer to its receiver at
\* every router, all its frames are on the path between sender and receiver and came
\* from the sender's side, in any network, whatever is lost and where ever other flows
\* go (the loop of process_thread over the tables and names of every router).
THEOREM StaysOnPath == NetSpec /\ RoutesLead => []OnPath
<1>1. PathInv => OnPath
  BY DEF PathInv
<1> QED
  BY <1>1, PathInvariant, PTL

---------------------------------------------------------------------------------
(* The network: each flow keeps its order. *)

\* A set without one of its members has the others in the same order.
LEMMA NthWithout ==
  ASSUME NEW n \in Nat, NEW S \in SUBSET (1..n), NEW m \in S
  PROVE  /\ S \ {m} \in SUBSET (1..n)
         /\ Cardinality(S) \in Nat /\ Cardinality(S \ {m}) = Cardinality(S) - 1
         /\ Position(S, m) \in 1..Cardinality(S)
         /\ \A k \in 1..Cardinality(S) - 1 :
              Nth(S \ {m}, k) = IF k < Position(S, m) THEN Nth(S, k) ELSE Nth(S, k + 1)
<1> DEFINE R == S \ {m}
           c == Cardinality(S)
           place == Position(S, m)
<1>1. \A j \in S : j \in 1..n /\ j \in Nat
  OBVIOUS
<1>2. R \in SUBSET (1..n)
  OBVIOUS
<1>3. /\ c \in Nat /\ place \in 1..c
      /\ \A j \in Nat, k \in S : j < k => Position(S, j) < Position(S, k)
      /\ \A j \in S : Position(S, j) \in 1..c /\ Nth(S, Position(S, j)) = j
  <2>1. \A j \in S : Position(S, j) \in 1..c /\ Nth(S, Position(S, j)) = j
    BY NthAtPosition
  <2> QED
    BY <2>1, PositionType
<1>4. Cardinality(R) = c - 1
  <2>1. IsFiniteSet(S)
    BY PositionType
  <2> QED
    BY <2>1, FS_RemoveElement
<1>5. ASSUME NEW j \in R
      PROVE  Position(R, j) = IF j < m THEN Position(S, j) ELSE Position(S, j) - 1
  <2> DEFINE B == {k \in S : k <= j}
             A == {k \in R : k <= j}
  <2>1. IsFiniteSet(B) /\ Cardinality(B) = Position(S, j) /\ Cardinality(A) = Position(R, j)
    <3>1. IsFiniteSet(S) /\ B \subseteq S
      BY PositionType
    <3>2. IsFiniteSet(B)
      <4> HIDE DEF B
      <4> QED
        BY <3>1, FS_Subset
    <3> QED
      BY <3>2 DEF Position
  <2>2. CASE j < m
    <3>1. A = B
      BY <1>1, <2>2
    <3> HIDE DEF A, B
    <3> QED
      BY <2>1, <2>2, <3>1
  <2>3. CASE ~(j < m)
    <3>1. m \in B /\ A = B \ {m}
      BY <1>1, <2>3
    <3> HIDE DEF A, B
    <3>2. Cardinality(A) = Cardinality(B) - 1
      BY <2>1, <3>1, FS_RemoveElement
    <3> QED
      BY <2>1, <2>3, <3>2
  <2> QED
    BY <2>2, <2>3
<1>6. ASSUME NEW k \in 1..c - 1
      PROVE  Nth(R, k) = IF k < place THEN Nth(S, k) ELSE Nth(S, k + 1)
  <2> DEFINE k1 == IF k < place THEN k ELSE k + 1
             j == Nth(S, k1)
  <2>1. k1 \in 1..c /\ k1 # place
    BY <1>3
  <2>2. j \in S /\ Position(S, j) = k1
    <3> HIDE DEF k1
    <3> QED
      BY <2>1, NthMember
  <2> HIDE DEF j
  <2>3. j \in R /\ j \in Nat /\ m \in Nat
    <3> HIDE DEF k1
    <3> QED
      BY <1>1, <2>1, <2>2
  <2>4. j < m <=> k < place
    <3>1. j < m \/ m < j
      BY <2>3
    <3>2. j < m => k1 < place
      BY <1>3, <2>2, <2>3
    <3>3. m < j => place < k1
      BY <1>3, <2>2, <2>3
    <3> QED
      BY <1>3, <2>3, <3>1, <3>2, <3>3
  <2>5. Position(R, j) = k
    <3> HIDE DEF place, R
    <3>1. Position(R, j) = IF j < m THEN Position(S, j) ELSE Position(S, j) - 1
      BY <1>5, <2>3
    <3> QED
      BY <2>2, <2>4, <3>1
  <2>6. Nth(R, k) = j
    <3> HIDE DEF R
    <3> QED
      BY <1>2, <2>3, <2>5, NthAtPosition
  <2> QED
    BY <2>6 DEF j
<1> QED
  BY <1>2, <1>3, <1>4, <1>6

InOrderOf(S) == [k \in 1..Cardinality(S) |-> Nth(S, k)]

\* A set of numbers in their order.
LEMMA Ascending ==
  ASSUME NEW n \in Nat, NEW S \in SUBSET (1..n), NEW m \in S
  PROVE  /\ InOrderOf(S) \in Seq(1..n) /\ Len(InOrderOf(S)) = Cardinality(S)
         /\ Position(S, m) \in DOMAIN InOrderOf(S)
         /\ InOrderOf(S \ {m}) = RemoveAt(InOrderOf(S), Position(S, m))
         /\ (\A j \in S : m <= j) =>
              /\ InOrderOf(S) # <<>> /\ Head(InOrderOf(S)) = m
              /\ InOrderOf(S \ {m}) = Tail(InOrderOf(S))
         /\ (\A j \in S : j <= m) => InOrderOf(S) = Append(InOrderOf(S \ {m}), m)
<1> DEFINE s == InOrderOf(S)
           c == Cardinality(S)
           t == InOrderOf(S \ {m})
           place == Position(S, m)
<1>1. /\ c \in Nat /\ Cardinality(S \ {m}) = c - 1 /\ place \in 1..c
      /\ \A k \in 1..c - 1 :
           Nth(S \ {m}, k) = IF k < place THEN Nth(S, k) ELSE Nth(S, k + 1)
      /\ S \ {m} \in SUBSET (1..n)
  BY NthWithout
<1>2. Nth(S, place) = m
  BY NthAtPosition
<1>3. \A k \in 1..c : Nth(S, k) \in S /\ Position(S, Nth(S, k)) = k
  BY NthMember
<1>4. s \in Seq(1..n) /\ Len(s) = c /\ DOMAIN s = 1..c /\ \A k \in 1..c : s[k] = Nth(S, k)
  <2> HIDE DEF c
  <2>1. s = [k \in 1..c |-> Nth(S, k)]
    BY DEF InOrderOf, c
  <2> HIDE DEF s
  <2>2. s \in [1..c -> 1..n]
    BY <1>3, <2>1
  <2>3. s \in Seq(1..n)
    BY <1>1, <2>2, SeqDef
  <2> QED
    BY <1>1, <2>1, <2>3, LenProperties
<1>5. /\ t \in Seq(1..n) /\ Len(t) = c - 1 /\ DOMAIN t = 1..c - 1
      /\ \A k \in 1..c - 1 : t[k] = IF k < place THEN s[k] ELSE s[k + 1]
  <2>2. t = [k \in 1..c - 1 |-> Nth(S \ {m}, k)]
    BY <1>1 DEF InOrderOf
  <2> HIDE DEF t, c, s, place
  <2>0. DOMAIN t = 1..c - 1 /\ \A k \in 1..c - 1 : t[k] = Nth(S \ {m}, k)
    BY <2>2
  <2>1. ASSUME NEW k \in 1..c - 1 PROVE t[k] = IF k < place THEN s[k] ELSE s[k + 1]
    <3>1. k \in 1..c /\ k + 1 \in 1..c
      BY <1>1
    <3> QED
      BY <1>1, <1>4, <2>0, <3>1
  <2>3. ASSUME NEW k \in 1..c - 1 PROVE t[k] \in 1..n
    <3>1. k \in 1..c /\ k + 1 \in 1..c
      BY <1>1
    <3>2. \A i1 \in 1..c : s[i1] \in S
      BY <1>3, <1>4
    <3>3. t[k] \in S
      BY <2>1, <3>1, <3>2
    <3> QED
      BY <3>3
  <2>4. t \in [1..c - 1 -> 1..n] /\ c - 1 \in Nat
    <3>1. t = [k \in 1..c - 1 |-> t[k]]
      BY <2>0, <2>2
    <3> QED
      BY <1>1, <2>3, <3>1
  <2>5. t \in Seq(1..n)
    BY <2>4, SeqDef
  <2>6. Len(t) = c - 1
    BY <2>0, <2>4, <2>5, LenProperties
  <2> QED
    BY <2>0, <2>1, <2>5, <2>6
<1> HIDE DEF s, t, c, place
<1>6. t = RemoveAt(s, place)
  <2> DEFINE front == SubSeq(s, 1, place - 1)
             back == SubSeq(s, place + 1, Len(s))
  <2>1. /\ front \in Seq(1..n) /\ Len(front) = place - 1
        /\ \A k \in 1..place - 1 : front[k] = s[k]
    <3>1. 1 \in 1..c + 1 /\ place - 1 \in 0..c
      BY <1>1
    <3> QED
      BY <1>1, <1>4, <3>1, SubSeqProperties
  <2>2. /\ back \in Seq(1..n) /\ Len(back) = c - place
        /\ \A k \in 1..c - place : back[k] = s[place + k]
    <3>1. place + 1 \in 1..c + 1 /\ c \in (place + 1) - 1..c /\ Len(s) = c
      BY <1>1, <1>4
    <3> QED
      BY <1>1, <1>4, <3>1, SubSeqProperties
  <2> HIDE DEF front, back
  <2>3. /\ front \o back \in Seq(1..n) /\ Len(front \o back) = c - 1
        /\ \A k \in 1..c - 1 : (front \o back)[k] =
             IF k <= place - 1 THEN front[k] ELSE back[k - (place - 1)]
    BY <1>1, <2>1, <2>2, ConcatProperties
  <2>4. \A k \in 1..c - 1 : (front \o back)[k] = t[k]
    <3> SUFFICES ASSUME NEW k \in 1..c - 1 PROVE (front \o back)[k] = t[k]
      OBVIOUS
    <3>1. CASE k < place
      <4>1. k \in 1..place - 1 /\ k <= place - 1
        BY <1>1, <3>1
      <4> QED
        BY <1>5, <2>1, <2>3, <3>1, <4>1
    <3>2. CASE ~(k < place)
      <4>1. /\ k - (place - 1) \in 1..c - place /\ place + (k - (place - 1)) = k + 1
            /\ ~(k <= place - 1)
        BY <1>1, <3>2
      <4> QED
        BY <1>5, <2>2, <2>3, <3>2, <4>1
    <3> QED
      BY <3>1, <3>2
  <2>5. t = front \o back
    BY <1>5, <2>3, <2>4, SeqEqual
  <2> QED
    BY <2>5 DEF RemoveAt, front, back
<1>7. ASSUME \A j \in S : m <= j
      PROVE  s # <<>> /\ Head(s) = m /\ t = Tail(s)
  <2>1. place = 1
    <3>1. Nth(S, 1) \in S /\ Position(S, Nth(S, 1)) = 1 /\ m \in Nat /\ Nth(S, 1) \in Nat
      <4>1. Nth(S, 1) \in S /\ Position(S, Nth(S, 1)) = 1
        BY <1>1, <1>3
      <4>2. \A j \in S : j \in Nat
        OBVIOUS
      <4> QED
        BY <4>1, <4>2
    <3>2. m < Nth(S, 1) => Position(S, m) < Position(S, Nth(S, 1))
      BY <3>1, PositionType
    <3>3. m <= Nth(S, 1)
      BY <1>7, <3>1
    <3> QED
      BY <1>1, <3>1, <3>2, <3>3 DEF place
  <2>2. s # <<>>
    BY <1>1, <1>4, EmptySeq
  <2>3. Head(s) = s[1] /\ Tail(s) \in Seq(1..n) /\ Len(Tail(s)) = c - 1
        /\ \A k \in 1..c - 1 : Tail(s)[k] = s[k + 1]
    BY <1>4, <2>2, HeadTailProperties
  <2>4. \A k \in 1..c - 1 : Tail(s)[k] = t[k]
    BY <1>1, <1>5, <2>1, <2>3
  <2>5. t = Tail(s)
    BY <1>5, <2>3, <2>4, SeqEqual
  <2> QED
    BY <1>1, <1>2, <1>4, <2>1, <2>2, <2>3, <2>5
<1>8. ASSUME \A j \in S : j <= m PROVE s = Append(t, m)
  <2>1. place = c
    <3>1. Nth(S, c) \in S /\ Position(S, Nth(S, c)) = c /\ m \in Nat /\ Nth(S, c) \in Nat
      <4>1. Nth(S, c) \in S /\ Position(S, Nth(S, c)) = c
        BY <1>1, <1>3
      <4>2. \A j \in S : j \in Nat
        OBVIOUS
      <4> QED
        BY <4>1, <4>2
    <3>2. Nth(S, c) < m => Position(S, Nth(S, c)) < Position(S, m)
      BY <3>1, PositionType
    <3>3. Nth(S, c) <= m
      BY <1>8, <3>1
    <3> QED
      BY <1>1, <3>1, <3>2, <3>3 DEF place
  <2>2. /\ Append(t, m) \in Seq(1..n) /\ Len(Append(t, m)) = c
        /\ \A k \in 1..c : Append(t, m)[k] = IF k <= c - 1 THEN t[k] ELSE m
    <3>1. m \in 1..n
      OBVIOUS
    <3> QED
      BY <1>1, <1>5, <3>1, AppendProperties
  <2>3. \A k \in 1..c : Append(t, m)[k] = s[k]
    BY <1>1, <1>2, <1>4, <1>5, <2>1, <2>2
  <2> QED
    BY <1>4, <2>2, <2>3, SeqEqual
<1> QED
  BY <1>1, <1>4, <1>6, <1>7, <1>8 DEF s, t, c, place

\* A frame that is sent on comes to an interface.
LEMMA NextIsPort ==
  ASSUME NEW f, NEW x \in Ports, Leads(f, x)
  PROVE  NextPort(f, x) \in Ports
<1>1. x[1] \in Nodes /\ output[x[1]][f[2]] \in DOMAIN Neighbours[x[1]]
  BY DEF Leads, Ports
<1> QED
  BY <1>1, FarEndIs DEF NextPort

\* Reach is the least closed set that holds p.
LEMMA ReachIs ==
  ASSUME NEW f, NEW p \in Ports
  PROVE  /\ p \in Reach(f, p) /\ Reach(f, p) \in Closed(f)
         /\ \A R \in Closed(f) : p \in R => Reach(f, p) \subseteq R
<1>1. Reach(f, p) = {x \in Ports : \A R \in Closed(f) : p \in R => x \in R}
  BY DEF Reach
<1>2. ASSUME NEW x \in Reach(f, p), Leads(f, x) PROVE NextPort(f, x) \in Reach(f, p)
  <2>1. x \in Ports /\ NextPort(f, x) \in Ports
    BY <1>1, <1>2, NextIsPort
  <2>2. ASSUME NEW R \in Closed(f), p \in R PROVE NextPort(f, x) \in R
    <3>1. x \in R
      BY <1>1, <2>2
    <3> QED
      BY <1>2, <3>1 DEF Closed
  <2> QED
    BY <1>1, <2>1, <2>2
<1>3. Reach(f, p) \in Closed(f)
  <2>1. Reach(f, p) \in SUBSET Ports
    BY <1>1
  <2> QED
    BY <1>2, <2>1 DEF Closed
<1> QED
  BY <1>1, <1>3

\* What comes to p comes from there to the next interface, if any, and so on.
LEMMA ReachSplits ==
  ASSUME NEW f, NEW p \in Ports
  PROVE  /\ After(f, p) \in Closed(f) /\ Reach(f, p) = {p} \cup After(f, p)
         /\ Leads(f, p) => /\ NextPort(f, p) \in After(f, p)
                           /\ After(f, p) = {NextPort(f, p)} \cup After(f, NextPort(f, p))
<1>1. ASSUME NEW x \in Ports, ~Leads(f, x)
      PROVE  After(f, x) \in Closed(f) /\ Reach(f, x) = {x} \cup After(f, x)
  <2>1. After(f, x) = {} /\ {} \in Closed(f) /\ {x} \in Closed(f)
    BY <1>1 DEF After, Closed
  <2>2. x \in Reach(f, x) /\ Reach(f, x) \subseteq {x}
    BY <2>1, ReachIs
  <2> QED
    BY <2>1, <2>2
<1>2. ASSUME NEW x \in Ports, Leads(f, x)
      PROVE  /\ NextPort(f, x) \in Ports /\ After(f, x) = Reach(f, NextPort(f, x))
             /\ After(f, x) \in Closed(f) /\ NextPort(f, x) \in After(f, x)
             /\ Reach(f, x) = {x} \cup After(f, x)
  <2>1. NextPort(f, x) \in Ports /\ After(f, x) = Reach(f, NextPort(f, x))
    BY <1>2, NextIsPort DEF After
  <2>2. After(f, x) \in Closed(f) /\ NextPort(f, x) \in After(f, x)
    BY <2>1, ReachIs
  <2>3. {x} \cup After(f, x) \in Closed(f)
    BY <1>2, <2>2 DEF Closed
  <2>4. x \in Reach(f, x) /\ Reach(f, x) \in Closed(f)
    BY ReachIs
  <2>5. Reach(f, x) \subseteq {x} \cup After(f, x)
    BY <2>3, ReachIs
  <2>6. NextPort(f, x) \in Reach(f, x)
    BY <1>2, <2>4 DEF Closed
  <2>7. After(f, x) \subseteq Reach(f, x)
    BY <2>1, <2>4, <2>6, ReachIs
  <2> QED
    BY <2>1, <2>2, <2>4, <2>5, <2>7
<1>3. After(f, p) \in Closed(f) /\ Reach(f, p) = {p} \cup After(f, p)
  BY <1>1, <1>2
<1>4. ASSUME Leads(f, p)
      PROVE  /\ NextPort(f, p) \in After(f, p)
             /\ After(f, p) = {NextPort(f, p)} \cup After(f, NextPort(f, p))
  BY <1>1, <1>2, <1>4
<1> QED
  BY <1>3, <1>4

\* Of two interfaces that a frame may come to from p on, it comes to one before the other.
LEMMA Comparable ==
  ASSUME NEW f, NEW p \in Ports, NEW x \in Reach(f, p), NEW y \in Reach(f, p)
  PROVE  x = y \/ y \in After(f, x) \/ x \in After(f, y)
<1> DEFINE T == {u \in Reach(f, p) : \A v \in Reach(f, p) : v \in Reach(f, u) \/ u \in Reach(f, v)}
<1>1. p \in Reach(f, p) /\ Reach(f, p) \in Closed(f) /\ Reach(f, p) \in SUBSET Ports
  BY ReachIs DEF Closed
<1>2. ASSUME NEW u \in T, Leads(f, u) PROVE NextPort(f, u) \in T
  <2> DEFINE z == NextPort(f, u)
  <2>1. u \in Ports /\ u \in Reach(f, p) /\ z \in Reach(f, p)
    BY <1>1, <1>2 DEF Closed
  <2>2. ASSUME NEW v \in Reach(f, p) PROVE v \in Reach(f, z) \/ z \in Reach(f, v)
    <3>1. v \in Ports /\ (v \in Reach(f, u) \/ u \in Reach(f, v))
      BY <1>1, <1>2
    <3>2. CASE u \in Reach(f, v)
      <4>1. Reach(f, v) \in Closed(f)
        BY <3>1, ReachIs
      <4> QED
        BY <1>2, <3>2, <4>1 DEF Closed
    <3>3. CASE v \in Reach(f, u) /\ u \notin Reach(f, v)
      <4>1. v \in After(f, u)
        <5>1. v \in Reach(f, v)
          BY <3>1, ReachIs
        <5>2. v # u /\ Reach(f, u) = {u} \cup After(f, u)
          BY <2>1, <3>3, <5>1, ReachSplits
        <5> QED
          BY <3>3, <5>2
      <4> QED
        BY <1>2, <4>1 DEF After
    <3> QED
      BY <3>1, <3>2, <3>3
  <2> QED
    BY <2>1, <2>2
<1>3. T \in Closed(f)
  BY <1>1, <1>2 DEF Closed
<1>4. p \in T
  BY <1>1
<1> HIDE DEF T
<1>5. Reach(f, p) \subseteq T
  BY <1>3, <1>4, ReachIs
<1>6. x \in Ports /\ y \in Ports /\ (y \in Reach(f, x) \/ x \in Reach(f, y))
  BY <1>1, <1>5 DEF T
<1>7. Reach(f, x) = {x} \cup After(f, x) /\ Reach(f, y) = {y} \cup After(f, y)
  BY <1>6, ReachSplits
<1> QED
  BY <1>6, <1>7

\* What is used of the route of a flow: it is a line, which may end in a ring.
LEMMA RouteIs ==
  ASSUME NEW f \in Flows
  PROVE  /\ FirstPort(f) \in Route(f) /\ Route(f) \in SUBSET Ports
         /\ \A x \in Route(f) : Leads(f, x) => NextPort(f, x) \in Route(f)
         /\ \A x \in Route(f) : x = FirstPort(f) \/ x \in After(f, FirstPort(f))
         /\ \A x, y \in Route(f) : x = y \/ y \in After(f, x) \/ x \in After(f, y)
<1>1. FirstPort(f) \in Ports
  <2>1. f \in Hosts \X Hosts /\ f[1] # f[2]
    BY FlowsAssumption
  <2> QED
    BY <2>1, FirstLink DEF FirstPort
<1>2. /\ FirstPort(f) \in Route(f) /\ Route(f) \in Closed(f)
      /\ Route(f) = {FirstPort(f)} \cup After(f, FirstPort(f))
  BY <1>1, ReachIs, ReachSplits DEF Route
<1>3. \A x, y \in Route(f) : x = y \/ y \in After(f, x) \/ x \in After(f, y)
  BY <1>1, Comparable DEF Route
<1> QED
  BY <1>2, <1>3 DEF Closed

\* Frame number h of flow f may be put at the end of x, among those that wait in q, or
\* may be taken from its head.
FitsLast(q, f, x, h) ==
  /\ x \in Route(f)
  /\ \A z \in Ports, n \in 1..MaxPackets : Waits(q, z, f, n) =>
       /\ z \in Route(f)
       /\ AheadOf(f, z, x) \/ (z = x /\ x \notin After(f, x)) => n < h
       /\ AheadOf(f, x, z) => h < n

FitsFirst(q, f, x, h) ==
  /\ x \in Route(f)
  /\ \A z \in Ports, n \in 1..MaxPackets : Waits(q, z, f, n) =>
       /\ z \in Route(f)
       /\ AheadOf(f, z, x) => n < h
       /\ AheadOf(f, x, z) \/ (z = x /\ x \notin After(f, x)) => h < n

\* A frame comes before all others of its flow at x, and last at the next interface.
LEMMA FitsNext ==
  ASSUME NEW q, NEW f \in Flows, NEW x \in Ports, Leads(f, x), NEW h, FitsFirst(q, f, x, h)
  PROVE  FitsLast(q, f, NextPort(f, x), h)
<1> DEFINE y == NextPort(f, x)
<1>1. /\ x \in Route(f) /\ y \in Route(f) /\ y \in Ports
      /\ \A z \in Route(f) : x = z \/ z \in After(f, x) \/ x \in After(f, z)
  BY RouteIs DEF FitsFirst
<1>2. /\ y \in After(f, x) /\ After(f, x) = {y} \cup After(f, y)
      /\ \A z \in Ports : x \in After(f, z) => y \in After(f, z)
  <2>1. \A z \in Ports : After(f, z) \in Closed(f)
    BY ReachSplits
  <2>2. \A z \in Ports : x \in After(f, z) => y \in After(f, z)
    BY <2>1 DEF Closed
  <2> QED
    BY <2>2, ReachSplits
<1> HIDE DEF y
<1>3. ASSUME NEW z \in Ports, NEW n \in 1..MaxPackets, Waits(q, z, f, n)
      PROVE  /\ z \in Route(f)
             /\ AheadOf(f, z, y) \/ (z = y /\ y \notin After(f, y)) => n < h
             /\ AheadOf(f, y, z) => h < n
  <2>1. /\ z \in Route(f)
        /\ AheadOf(f, z, x) => n < h
        /\ AheadOf(f, x, z) \/ (z = x /\ x \notin After(f, x)) => h < n
    BY <1>3 DEF FitsFirst
  <2>2. ASSUME AheadOf(f, z, y) \/ (z = y /\ y \notin After(f, y)) PROVE n < h
    <3>1. z \in After(f, x) /\ x \notin After(f, z)
      BY <1>2, <2>2 DEF AheadOf
    <3> QED
      BY <2>1, <3>1 DEF AheadOf
  <2>3. ASSUME AheadOf(f, y, z) PROVE h < n
    <3>1. y \in After(f, z) /\ z \notin After(f, y)
      BY <2>3 DEF AheadOf
    <3>2. z \notin After(f, x)
      BY <1>2, <3>1
    <3>3. z = x \/ x \in After(f, z)
      BY <1>1, <2>1, <3>2
    <3> QED
      BY <2>1, <3>2, <3>3 DEF AheadOf
  <2> QED
    BY <2>1, <2>2, <2>3
<1> QED
  BY <1>1, <1>3 DEF FitsLast, y

\* The frames in the queues but for the oldest of x, and this one.
LEMMA TakenWaits ==
  ASSUME queues \in [Ports -> Seq(Frames)], NEW x \in Ports, queues[x] # <<>>
  PROVE  /\ Taken(x) \in [Ports -> Seq(Frames)] /\ Head(queues[x]) \in Frames
         /\ \A z \in Ports : \A f, n :
              Waits(queues, z, f, n) <=>
                Waits(Taken(x), z, f, n) \/ (z = x /\ Head(queues[x]) = <<f, n>>)
         /\ \A z \in Ports : z # x => Taken(x)[z] = queues[z]
         /\ \A k \in DOMAIN Taken(x)[x] :
              k + 1 \in DOMAIN queues[x] /\ Taken(x)[x][k] = queues[x][k + 1]
         /\ 1 \in DOMAIN queues[x] /\ Head(queues[x]) = queues[x][1]
         /\ DOMAIN queues[x] \subseteq Nat \ {0} /\ DOMAIN Taken(x)[x] \subseteq Nat \ {0}
<1> DEFINE line == queues[x]
<1>1. line \in Seq(Frames) /\ line # <<>>
  OBVIOUS
<1>2. /\ Taken(x) \in [Ports -> Seq(Frames)] /\ Taken(x)[x] = Tail(line)
      /\ \A z \in Ports : z # x => Taken(x)[z] = queues[z]
  <2>1. Tail(line) \in Seq(Frames)
    BY <1>1, HeadTailProperties
  <2> QED
    BY <2>1 DEF Taken
<1> HIDE DEF line
<1>3. /\ Head(line) \in Frames /\ Head(line) = line[1]
      /\ DOMAIN line = 1..Len(line) /\ Len(line) \in Nat /\ Len(line) # 0
      /\ DOMAIN Tail(line) = 1..Len(line) - 1
      /\ \A k \in 1..Len(line) - 1 : Tail(line)[k] = line[k + 1]
  BY <1>1, HeadTailProperties, LenProperties, EmptySeq
<1>4. ASSUME NEW f, NEW n
      PROVE  Waits(queues, x, f, n) <=> Waits(Taken(x), x, f, n) \/ Head(line) = <<f, n>>
  <2>1. ASSUME NEW k \in DOMAIN line, line[k] = <<f, n>>, Head(line) # <<f, n>>
        PROVE  Waits(Taken(x), x, f, n)
    <3>1. k - 1 \in DOMAIN Tail(line) /\ k - 1 + 1 = k
      BY <1>3, <2>1
    <3>2. Tail(line)[k - 1] = line[k]
      BY <1>3, <3>1
    <3> QED
      BY <1>2, <2>1, <3>1, <3>2 DEF Waits
  <2>2. ASSUME NEW k \in DOMAIN Tail(line), Tail(line)[k] = <<f, n>>
        PROVE  Waits(queues, x, f, n)
    <3>1. k + 1 \in DOMAIN line /\ line[k + 1] = <<f, n>>
      BY <1>3, <2>2
    <3> QED
      BY <3>1 DEF Waits, line
  <2>3. Head(line) = <<f, n>> => Waits(queues, x, f, n)
    <3>1. 1 \in DOMAIN line
      BY <1>3
    <3> QED
      BY <1>3, <3>1 DEF Waits, line
  <2> QED
    BY <1>2, <2>1, <2>2, <2>3 DEF Waits, line
<1>5. ASSUME NEW z \in Ports, z # x, NEW f, NEW n
      PROVE  Waits(queues, z, f, n) <=> Waits(Taken(x), z, f, n)
  BY <1>2, <1>5 DEF Waits
<1>6. /\ 1 \in DOMAIN line /\ DOMAIN line \subseteq Nat \ {0}
      /\ DOMAIN Tail(line) \subseteq Nat \ {0}
      /\ \A k \in DOMAIN Tail(line) : k + 1 \in DOMAIN line /\ Tail(line)[k] = line[k + 1]
  BY <1>3
<1> QED
  BY <1>2, <1>3, <1>4, <1>5, <1>6 DEF line

\* A frame more in a queue.
Longer(q, x, frame) == [q EXCEPT ![x] = Append(q[x], frame)]

\* Queues r are queues q with this frame more, the last of x.
IsLonger(r, q, x, frame) ==
  /\ r \in [Ports -> Seq(Frames)]
  /\ \A z \in Ports : z # x => r[z] = q[z]
  /\ \A k \in DOMAIN r[x] :
       \/ k \in DOMAIN q[x] /\ r[x][k] = q[x][k]
       \/ r[x][k] = frame /\ \A j \in DOMAIN r[x] : j <= k
  /\ \A k \in DOMAIN q[x] : k \in DOMAIN r[x] /\ r[x][k] = q[x][k]
  /\ \E k \in DOMAIN r[x] : r[x][k] = frame
  /\ DOMAIN r[x] \subseteq Nat

LEMMA AppendKeeps ==
  ASSUME NEW q \in [Ports -> Seq(Frames)], NEW x \in Ports, NEW frame \in Frames,
         NEW r, r = Longer(q, x, frame)
  PROVE  IsLonger(r, q, x, frame)
<1> DEFINE line == q[x]
           longer == Append(line, frame)
<1>1. line \in Seq(Frames)
  OBVIOUS
<1>2. longer \in Seq(Frames) /\ Len(longer) = Len(line) + 1
  BY <1>1, AppendProperties
<1>3. /\ r \in [Ports -> Seq(Frames)] /\ r[x] = longer
      /\ \A z \in Ports : z # x => r[z] = q[z]
  BY <1>2 DEF Longer
<1>4. /\ DOMAIN line = 1..Len(line) /\ DOMAIN longer = 1..Len(line) + 1 /\ Len(line) \in Nat
      /\ longer[Len(line) + 1] = frame
      /\ \A k \in 1..Len(line) : longer[k] = line[k]
  BY <1>1, <1>2, AppendProperties, LenProperties
<1> HIDE DEF line, longer
<1>5. /\ \A k \in DOMAIN longer :
           \/ k \in DOMAIN line /\ longer[k] = line[k]
           \/ longer[k] = frame /\ \A j \in DOMAIN longer : j <= k
      /\ DOMAIN longer \subseteq Nat
  BY <1>4
<1>6. \A k \in DOMAIN line : k \in DOMAIN longer /\ longer[k] = line[k]
  BY <1>4
<1>7. \E k \in DOMAIN longer : longer[k] = frame
  <2>1. Len(line) + 1 \in DOMAIN longer
    BY <1>4
  <2> QED
    BY <1>4, <2>1
<1>8. /\ DOMAIN r[x] \subseteq Nat
      /\ \A k \in DOMAIN r[x] :
           \/ k \in DOMAIN q[x] /\ r[x][k] = q[x][k]
           \/ r[x][k] = frame /\ \A j \in DOMAIN r[x] : j <= k
  BY <1>3, <1>5 DEF line
<1> QED
  BY <1>3, <1>6, <1>7, <1>8 DEF line, IsLonger

LEMMA AppendAdds ==
  ASSUME NEW r, NEW q, NEW x \in Ports, NEW frame, IsLonger(r, q, x, frame),
         NEW f, NEW n, NEW z \in Ports
  PROVE  Waits(r, z, f, n) <=> Waits(q, z, f, n) \/ (z = x /\ frame = <<f, n>>)
<1>1. CASE z = x
  BY <1>1 DEF Waits, IsLonger
<1>2. CASE z # x
  BY <1>2 DEF Waits, IsLonger
<1> QED
  BY <1>1, <1>2

\* Taking a frame leaves the others in their order; it was sent before those of its flow
\* that have not come as far.
LEMMA TakenInOrder ==
  ASSUME queues \in [Ports -> Seq(Frames)], NEW f \in Flows, InOrderIn(queues, f),
         NEW x \in Ports, queues[x] # <<>>
  PROVE  /\ InOrderIn(Taken(x), f)
         /\ \A h \in 1..MaxPackets :
              Head(queues[x]) = <<f, h>> => FitsFirst(Taken(x), f, x, h)
<1> DEFINE q == Taken(x)
<1>1. /\ \A z \in Ports : \A n : Waits(queues, z, f, n) <=>
             Waits(q, z, f, n) \/ (z = x /\ Head(queues[x]) = <<f, n>>)
      /\ \A z \in Ports : z # x => q[z] = queues[z]
      /\ \A k \in DOMAIN q[x] : k + 1 \in DOMAIN queues[x] /\ q[x][k] = queues[x][k + 1]
      /\ 1 \in DOMAIN queues[x] /\ Head(queues[x]) = queues[x][1]
      /\ DOMAIN queues[x] \subseteq Nat \ {0} /\ DOMAIN q[x] \subseteq Nat \ {0}
  BY TakenWaits
<1>2. /\ \A z \in Ports, n \in 1..MaxPackets : Waits(queues, z, f, n) => z \in Route(f)
      /\ \A y, z \in Ports, m, n \in 1..MaxPackets :
           Waits(queues, y, f, m) /\ Waits(queues, z, f, n) /\ AheadOf(f, y, z) => m < n
      /\ \A z \in Ports : z \notin After(f, z) =>
           \A j, k \in DOMAIN queues[z] :
             j < k /\ queues[z][j][1] = f /\ queues[z][k][1] = f
               => queues[z][j][2] < queues[z][k][2]
  BY DEF InOrderIn
<1> HIDE DEF q
<1>3. ASSUME NEW z \in Ports, z \notin After(f, z), NEW j \in DOMAIN q[z], NEW k \in DOMAIN q[z],
             j < k, q[z][j][1] = f, q[z][k][1] = f
      PROVE  q[z][j][2] < q[z][k][2]
  <2>1. CASE z = x
    <3>1. /\ j + 1 \in DOMAIN queues[x] /\ k + 1 \in DOMAIN queues[x] /\ j + 1 < k + 1
          /\ q[z][j] = queues[x][j + 1] /\ q[z][k] = queues[x][k + 1]
      BY <1>1, <1>3, <2>1
    <3> QED
      BY <1>2, <1>3, <2>1, <3>1
  <2>2. CASE z # x
    BY <1>1, <1>2, <1>3, <2>2
  <2> QED
    BY <2>1, <2>2
<1>4. InOrderIn(q, f)
  BY <1>1, <1>2, <1>3 DEF InOrderIn
<1>5. ASSUME NEW h \in 1..MaxPackets, Head(queues[x]) = <<f, h>>
      PROVE  FitsFirst(q, f, x, h)
  <2>1. Waits(queues, x, f, h)
    BY <1>1, <1>5
  <2>2. ASSUME NEW z \in Ports, NEW n \in 1..MaxPackets, Waits(q, z, f, n)
        PROVE  /\ z \in Route(f)
               /\ AheadOf(f, z, x) => n < h
               /\ AheadOf(f, x, z) \/ (z = x /\ x \notin After(f, x)) => h < n
    <3>1. Waits(queues, z, f, n)
      BY <1>1, <2>2
    <3>2. z \in Route(f)
      BY <1>2, <3>1
    <3>3. AheadOf(f, z, x) => n < h
      BY <1>2, <2>1, <3>1
    <3>4. AheadOf(f, x, z) => h < n
      BY <1>2, <2>1, <3>1
    <3>5. ASSUME z = x, x \notin After(f, x) PROVE h < n
      <4>1. PICK k \in DOMAIN q[x] : q[x][k] = <<f, n>>
        BY <2>2, <3>5 DEF Waits
      <4>2. k + 1 \in DOMAIN queues[x] /\ queues[x][k + 1] = <<f, n>> /\ 1 < k + 1
        BY <1>1, <4>1
      <4>3. 1 \in DOMAIN queues[x] /\ queues[x][1] = <<f, h>>
        BY <1>1, <1>5
      <4>4. queues[x][1][2] < queues[x][k + 1][2]
        BY <1>2, <3>5, <4>2, <4>3
      <4> QED
        BY <4>2, <4>3, <4>4
    <3> QED
      BY <3>2, <3>3, <3>4, <3>5
  <2> QED
    BY <1>2, <2>1, <2>2 DEF FitsFirst
<1> QED
  BY <1>4, <1>5 DEF q

\* A frame that comes behind those sent before it and ahead of the others keeps the order.
LEMMA AppendInOrder ==
  ASSUME NEW q \in [Ports -> Seq(Frames)], NEW f \in Flows, InOrderIn(q, f),
         NEW x \in Ports, NEW frame \in Frames,
         frame[1] = f => FitsLast(q, f, x, frame[2]),
         NEW r, r = Longer(q, x, frame)
  PROVE  InOrderIn(r, f)
<1>1. /\ \A z \in Ports, n \in 1..MaxPackets : Waits(r, z, f, n) <=>
             Waits(q, z, f, n) \/ (z = x /\ frame = <<f, n>>)
      /\ \A z \in Ports : z # x => r[z] = q[z]
      /\ \A k \in DOMAIN r[x] :
           \/ k \in DOMAIN q[x] /\ r[x][k] = q[x][k]
           \/ r[x][k] = frame /\ \A j \in DOMAIN r[x] : j <= k
      /\ DOMAIN r[x] \subseteq Nat
  <2>1. IsLonger(r, q, x, frame)
    BY AppendKeeps
  <2>2. ASSUME NEW z \in Ports, NEW n \in 1..MaxPackets
        PROVE  Waits(r, z, f, n) <=> Waits(q, z, f, n) \/ (z = x /\ frame = <<f, n>>)
    BY <2>1, AppendAdds
  <2> QED
    BY <2>1, <2>2 DEF IsLonger
<1>2. /\ \A z \in Ports, n \in 1..MaxPackets : Waits(q, z, f, n) => z \in Route(f)
      /\ \A y, z \in Ports, m, n \in 1..MaxPackets :
           Waits(q, y, f, m) /\ Waits(q, z, f, n) /\ AheadOf(f, y, z) => m < n
      /\ \A z \in Ports : z \notin After(f, z) =>
           \A j, k \in DOMAIN q[z] :
             j < k /\ q[z][j][1] = f /\ q[z][k][1] = f => q[z][j][2] < q[z][k][2]
  BY DEF InOrderIn
<1>3. \A n : frame = <<f, n>> =>
        /\ x \in Route(f)
        /\ \A z \in Ports, m \in 1..MaxPackets : Waits(q, z, f, m) =>
             /\ AheadOf(f, z, x) \/ (z = x /\ x \notin After(f, x)) => m < n
             /\ AheadOf(f, x, z) => n < m
  BY DEF FitsLast
<1>4. \A z \in Ports, n \in 1..MaxPackets : Waits(r, z, f, n) => z \in Route(f)
  BY <1>1, <1>2, <1>3
<1>5. ASSUME NEW y \in Ports, NEW z \in Ports, NEW m \in 1..MaxPackets,
             NEW n \in 1..MaxPackets, Waits(r, y, f, m), Waits(r, z, f, n), AheadOf(f, y, z)
      PROVE  m < n
  <2>1. CASE Waits(q, y, f, m) /\ Waits(q, z, f, n)
    BY <1>2, <1>5, <2>1
  <2>2. CASE Waits(q, y, f, m) /\ z = x /\ frame = <<f, n>>
    BY <1>3, <1>5, <2>2
  <2>3. CASE y = x /\ frame = <<f, m>> /\ Waits(q, z, f, n)
    BY <1>3, <1>5, <2>3
  <2>4. CASE y = x /\ z = x
    BY <1>5, <2>4 DEF AheadOf
  <2> QED
    BY <1>1, <1>5, <2>1, <2>2, <2>3, <2>4
<1>6. ASSUME NEW z \in Ports, z \notin After(f, z), NEW j \in DOMAIN r[z], NEW k \in DOMAIN r[z],
             j < k, r[z][j][1] = f, r[z][k][1] = f
      PROVE  r[z][j][2] < r[z][k][2]
  <2>1. CASE z # x
    BY <1>1, <1>2, <1>6, <2>1
  <2>2. CASE z = x
    <3>1. j \in DOMAIN q[x] /\ r[x][j] = q[x][j]
      BY <1>1, <1>6, <2>2
    <3>2. CASE k \in DOMAIN q[x] /\ r[x][k] = q[x][k]
      BY <1>2, <1>6, <2>2, <3>1, <3>2
    <3>3. CASE r[x][k] = frame
      <4>1. q[x][j] \in Frames
        <5>1. q[x] \in Seq(Frames)
          OBVIOUS
        <5> QED
          BY <3>1, <5>1, ElementOfSeq, LenProperties
      <4>2. q[x][j] = <<f, q[x][j][2]>> /\ q[x][j][2] \in 1..MaxPackets
        BY <1>6, <2>2, <3>1, <4>1 DEF Frames
      <4>3. frame = <<f, frame[2]>>
        BY <1>6, <2>2, <3>3 DEF Frames
      <4>4. Waits(q, x, f, q[x][j][2])
        BY <3>1, <4>2 DEF Waits
      <4>5. q[x][j][2] < frame[2]
        BY <1>3, <1>6, <2>2, <4>2, <4>3, <4>4
      <4> QED
        BY <2>2, <3>1, <3>3, <4>5
    <3> QED
      BY <1>1, <2>2, <3>2, <3>3
  <2> QED
    BY <2>1, <2>2
<1> QED
  BY <1>4, <1>5, <1>6 DEF InOrderIn

\* What the channel of a flow has under way.
LEMMA TransitIs ==
  ASSUME NEW f \in Flows
  PROVE  /\ UnderWay(f) \in SUBSET (1..MaxPackets) /\ UnderWay(f)' \in SUBSET (1..MaxPackets)
         /\ MaxPackets \in Nat
         /\ [g \in Flows |-> InTransit(g)][f] = InOrderOf(UnderWay(f))
         /\ [g \in Flows |-> InTransit(g)]'[f] = InOrderOf(UnderWay(f)')
<1>1. UnderWay(f) \in SUBSET (1..MaxPackets) /\ UnderWay(f)' \in SUBSET (1..MaxPackets)
  BY DEF UnderWay
<1>2. InTransit(f) = InOrderOf(UnderWay(f)) /\ InTransit(f)' = InOrderOf(UnderWay(f)')
  BY DEF InTransit, InOrderOf
<1> QED
  BY <1>1, <1>2, FlowsAssumption

\* The steps of the channel.
LEMMA ChanQuiet ==
  ASSUME NEW f \in Flows, sent'[f] = sent[f], received'[f] = received[f],
         UnderWay(f)' = UnderWay(f)
  PROVE  Chan!Quiet(f)
<1>1. [g \in Flows |-> InTransit(g)]'[f] = [g \in Flows |-> InTransit(g)][f]
  BY TransitIs
<1> QED
  BY <1>1 DEF Chan!Quiet

LEMMA ChanSends ==
  ASSUME NEW f \in Flows, sent'[f] = sent[f] + 1, received'[f] = received[f],
         sent'[f] \in 1..MaxPackets, \A n \in UnderWay(f) : n < sent'[f],
         UnderWay(f)' \in {UnderWay(f), UnderWay(f) \cup {sent'[f]}}
  PROVE  Chan!ChanStep(f)
<1> DEFINE S == UnderWay(f)
           T == UnderWay(f)'
           m == sent'[f]
           t == [g \in Flows |-> InTransit(g)]
<1>1. /\ S \in SUBSET (1..MaxPackets) /\ MaxPackets \in Nat
      /\ t[f] = InOrderOf(S) /\ t'[f] = InOrderOf(T)
  BY TransitIs
<1> HIDE DEF S, T, t
<1>2. ASSUME T = S \cup {m} PROVE InOrderOf(T) = Append(InOrderOf(S), m)
  <2>1. m \notin S /\ \A j \in T : j <= m
    <3>1. \A j \in S : j < m /\ j \in Nat
      BY <1>1 DEF S
    <3>2. m \in Nat
      OBVIOUS
    <3> HIDE DEF m
    <3> QED
      BY <1>2, <3>1, <3>2
  <2>2. T \in SUBSET (1..MaxPackets) /\ m \in T /\ T \ {m} = S
    <3>1. m \in 1..MaxPackets
      OBVIOUS
    <3> HIDE DEF m
    <3> QED
      BY <1>1, <1>2, <2>1, <3>1
  <2> HIDE DEF m
  <2> QED
    BY <1>1, <2>1, <2>2, Ascending
<1>3. t'[f] \in {Append(t[f], m), t[f]}
  BY <1>1, <1>2 DEF S, T
<1>4. Chan!Send(f)
  BY <1>3 DEF Chan!Send, t
<1> QED
  BY <1>4 DEF Chan!ChanStep

LEMMA ChanLoses ==
  ASSUME NEW f \in Flows, sent'[f] = sent[f], received'[f] = received[f],
         NEW n \in UnderWay(f), UnderWay(f)' = UnderWay(f) \ {n}
  PROVE  Chan!ChanStep(f)
<1> DEFINE t == [g \in Flows |-> InTransit(g)]
<1>1. /\ UnderWay(f) \in SUBSET (1..MaxPackets) /\ MaxPackets \in Nat
      /\ t[f] = InOrderOf(UnderWay(f)) /\ t'[f] = InOrderOf(UnderWay(f) \ {n})
  BY TransitIs
<1>2. \E k \in DOMAIN InOrderOf(UnderWay(f)) :
        InOrderOf(UnderWay(f) \ {n}) = RemoveAt(InOrderOf(UnderWay(f)), k)
  BY <1>1, Ascending
<1> HIDE DEF t
<1>3. \E k \in DOMAIN t[f] : t'[f] = RemoveAt(t[f], k)
  BY <1>1, <1>2
<1>4. Chan!Lose(f)
  BY <1>3 DEF Chan!Lose, t, RemoveAt, Chan!RemoveAt
<1> QED
  BY <1>4 DEF Chan!ChanStep

LEMMA ChanDelivers ==
  ASSUME NEW f \in Flows, sent'[f] = sent[f],
         NEW n \in UnderWay(f), UnderWay(f)' = UnderWay(f) \ {n},
         \A m \in UnderWay(f) : n <= m, received'[f] = Append(received[f], n)
  PROVE  Chan!ChanStep(f)
<1> DEFINE t == [g \in Flows |-> InTransit(g)]
<1>1. /\ UnderWay(f) \in SUBSET (1..MaxPackets) /\ MaxPackets \in Nat
      /\ t[f] = InOrderOf(UnderWay(f)) /\ t'[f] = InOrderOf(UnderWay(f) \ {n})
  BY TransitIs
<1> HIDE DEF t
<1>2. t[f] # <<>> /\ Head(t[f]) = n /\ t'[f] = Tail(t[f])
  BY <1>1, Ascending
<1>3. Chan!Deliver(f)
  BY <1>2 DEF Chan!Deliver, t
<1> QED
  BY <1>3 DEF Chan!ChanStep

\* The numbers of the packets of flow f in queues q.
NumbersIn(q, f) == {n \in 1..MaxPackets : \E x \in Ports : Waits(q, x, f, n)}

LEMMA NumbersUnderWay ==
  ASSUME NEW f
  PROVE  UnderWay(f) = NumbersIn(queues, f) /\ UnderWay(f)' = NumbersIn(queues', f)
BY DEF UnderWay, NumbersIn, Waits

LEMMA NumbersTaken ==
  ASSUME queues \in [Ports -> Seq(Frames)], NEW f \in Flows, NEW x \in Ports, queues[x] # <<>>
  PROVE  IF Head(queues[x])[1] = f
         THEN NumbersIn(queues, f) = NumbersIn(Taken(x), f) \cup {Head(queues[x])[2]}
         ELSE NumbersIn(queues, f) = NumbersIn(Taken(x), f)
<1> DEFINE h == Head(queues[x])[2]
           rest == NumbersIn(Taken(x), f)
<1>1. \A z \in Ports, n \in 1..MaxPackets : Waits(queues, z, f, n) <=>
        Waits(Taken(x), z, f, n) \/ (z = x /\ Head(queues[x]) = <<f, n>>)
  BY TakenWaits
<1>2. /\ Head(queues[x]) = <<Head(queues[x])[1], h>> /\ h \in 1..MaxPackets
      /\ Head(queues[x])[1] \in Flows
  <2>1. Head(queues[x]) \in Frames
    BY TakenWaits
  <2> QED
    BY <2>1 DEF Frames
<1>3. CASE Head(queues[x])[1] = f
  <2>1. Head(queues[x]) = <<f, h>>
    BY <1>2, <1>3
  <2> HIDE DEF h
  <2>2. NumbersIn(queues, f) = rest \cup {h}
    BY <1>1, <1>2, <2>1 DEF NumbersIn
  <2> QED
    BY <1>3, <2>2 DEF h
<1>4. CASE Head(queues[x])[1] # f
  <2>1. \A n : Head(queues[x]) # <<f, n>>
    BY <1>2, <1>4
  <2>2. NumbersIn(queues, f) = rest
    BY <1>1, <2>1 DEF NumbersIn
  <2> QED
    BY <1>4, <2>2
<1> QED
  BY <1>3, <1>4

\* A frame that a node sends or forwards arrives or is lost.
LEMMA TransmitNumbers ==
  ASSUME NEW q \in [Ports -> Seq(Frames)], NEW n, NEW p, FarEnd[<<n, p>>] \in Ports,
         NEW frame \in Frames, Transmit(q, n, p, frame), NEW f
  PROVE  /\ frame[1] = f =>
              NumbersIn(queues', f) \in {NumbersIn(q, f), NumbersIn(q, f) \cup {frame[2]}}
         /\ frame[1] # f => NumbersIn(queues', f) = NumbersIn(q, f)
<1> DEFINE y == FarEnd[<<n, p>>]
<1>1. y \in Ports /\ (queues' = Longer(q, y, frame) \/ queues' = q)
  BY DEF Transmit, Longer
<1> HIDE DEF y
<1>2. ASSUME queues' = Longer(q, y, frame)
      PROVE  /\ frame[1] = f => NumbersIn(queues', f) = NumbersIn(q, f) \cup {frame[2]}
             /\ frame[1] # f => NumbersIn(queues', f) = NumbersIn(q, f)
  <2>1. IsLonger(queues', q, y, frame)
    BY <1>1, <1>2, AppendKeeps
  <2>2. \A z \in Ports, m \in 1..MaxPackets :
          Waits(queues', z, f, m) <=> Waits(q, z, f, m) \/ (z = y /\ frame = <<f, m>>)
    BY <1>1, <2>1, AppendAdds
  <2>3. frame = <<frame[1], frame[2]>> /\ frame[2] \in 1..MaxPackets
    BY DEF Frames
  <2> QED
    BY <1>1, <2>2, <2>3 DEF NumbersIn
<1> QED
  BY <1>1, <1>2

\* If that is its place, the frames stay in their order.
LEMMA TransmitInOrder ==
  ASSUME NEW q \in [Ports -> Seq(Frames)], NEW f \in Flows, InOrderIn(q, f),
         NEW n, NEW p, FarEnd[<<n, p>>] \in Ports, NEW frame \in Frames, Transmit(q, n, p, frame),
         frame[1] = f => FitsLast(q, f, FarEnd[<<n, p>>], frame[2])
  PROVE  InOrderIn(queues', f)
<1>1. queues' = Longer(q, FarEnd[<<n, p>>], frame) \/ queues' = q
  BY DEF Transmit, Longer
<1>2. CASE queues' = Longer(q, FarEnd[<<n, p>>], frame)
  BY <1>2, AppendInOrder
<1> QED
  BY <1>1, <1>2

LEMMA TransmitTyped ==
  ASSUME NEW q \in [Ports -> Seq(Frames)], NEW n, NEW p, FarEnd[<<n, p>>] \in Ports,
         NEW frame \in Frames, Transmit(q, n, p, frame)
  PROVE  queues' \in [Ports -> Seq(Frames)]
<1> DEFINE y == FarEnd[<<n, p>>]
<1>1. y \in Ports /\ (queues' = Longer(q, y, frame) \/ queues' = q)
  BY DEF Transmit, Longer
<1> HIDE DEF y
<1>2. CASE queues' = Longer(q, y, frame)
  <2>1. IsLonger(queues', q, y, frame)
    BY <1>1, <1>2, AppendKeeps
  <2> QED
    BY <2>1 DEF IsLonger
<1> QED
  BY <1>1, <1>2

LEMMA NetTypeIs ==
  ASSUME NetTypeOK
  PROVE  /\ queues \in [Ports -> Seq(Frames)] /\ sent \in [Flows -> 0..MaxPackets]
         /\ received \in [Flows -> Seq(1..MaxPackets)] /\ MaxPackets \in Nat
BY FlowsAssumption DEF NetTypeOK, Frames

LEMMA NetTypeStays ==
  ASSUME NetTypeOK, UNCHANGED <<files, output, lossy>>, queues' \in [Ports -> Seq(Frames)],
         sent' \in [Flows -> 0..MaxPackets], received' \in [Flows -> Seq(1..MaxPackets)]
  PROVE  NetTypeOK'
BY DEF NetTypeOK, Frames

\* What a step may do with a flow.
Carries(f) ==
  /\ InOrderIn(queues', f) /\ \A n \in UnderWay(f)' : n <= sent'[f]
  /\ Chan!Quiet(f) \/ Chan!ChanStep(f)

LEMMA OrderInvIs ==
  ASSUME OrderInv
  PROVE  /\ queues \in [Ports -> Seq(Frames)]
         /\ sent \in [Flows -> 0..MaxPackets] /\ received \in [Flows -> Seq(1..MaxPackets)]
         /\ MaxPackets \in Nat
         /\ \A f \in Flows : InOrderIn(queues, f) /\ \A n \in UnderWay(f) : n <= sent[f]
BY NetTypeIs DEF OrderInv

\* The sender's frames are numbered in their order.
LEMMA SendCarries ==
  ASSUME OrderInv, NEW g \in Flows, SendPacket(g)
  PROVE  NetTypeOK' /\ \A f \in Flows : Carries(f)
<1> DEFINE frame == <<g, sent'[g]>>
<1>1. /\ queues \in [Ports -> Seq(Frames)]
      /\ sent \in [Flows -> 0..MaxPackets] /\ MaxPackets \in Nat
      /\ received \in [Flows -> Seq(1..MaxPackets)]
      /\ \A f \in Flows : InOrderIn(queues, f) /\ \A n \in UnderWay(f) : n <= sent[f]
  BY OrderInvIs
<1>2. /\ sent[g] < MaxPackets /\ sent' = [sent EXCEPT ![g] = sent[g] + 1]
      /\ Transmit(queues, g[1], 1, frame) /\ UNCHANGED <<files, output, lossy, received>>
  BY DEF SendPacket
<1>3. /\ sent'[g] = sent[g] + 1 /\ sent[g] \in Nat /\ sent'[g] \in 1..MaxPackets
      /\ \A f \in Flows : f # g => sent'[f] = sent[f]
      /\ sent' \in [Flows -> 0..MaxPackets]
  BY <1>1, <1>2
<1>4. frame \in Frames /\ frame[1] = g /\ frame[2] = sent'[g]
  BY <1>3 DEF Frames
<1>5. FarEnd[<<g[1], 1>>] \in Ports
  BY FlowsAssumption, FirstLink
<1>6. NetTypeOK'
  <2>1. queues' \in [Ports -> Seq(Frames)]
    BY <1>1, <1>2, <1>4, <1>5, TransmitTyped
  <2>2. NetTypeOK
    BY DEF OrderInv
  <2> HIDE DEF frame
  <2> QED
    BY <1>1, <1>2, <1>3, <2>1, <2>2, NetTypeStays
<1>7. ASSUME NEW f \in Flows PROVE Carries(f)
  <2> DEFINE x == FirstPort(f)
  <2>1. \A z \in Ports, m \in 1..MaxPackets : Waits(queues, z, f, m) =>
          m <= sent[f] /\ z \in Route(f)
    BY <1>1, NumbersUnderWay DEF NumbersIn, InOrderIn
  <2>2. ASSUME frame[1] = f
        PROVE  FitsLast(queues, f, FarEnd[<<g[1], 1>>], frame[2])
    <3>1. x = FarEnd[<<g[1], 1>>] /\ g = f
      BY <1>4, <2>2 DEF FirstPort
    <3>2. x \in Route(f) /\ \A z \in Route(f) : z = x \/ z \in After(f, x)
      BY RouteIs
    <3>3. ASSUME NEW z \in Ports, NEW m \in 1..MaxPackets, Waits(queues, z, f, m)
          PROVE  z \in Route(f) /\ m < frame[2] /\ ~AheadOf(f, x, z)
      <4>1. z \in Route(f) /\ m <= sent[f]
        BY <2>1, <3>3
      <4>2. m < frame[2]
        BY <1>3, <1>4, <3>1, <4>1
      <4> HIDE DEF x, frame
      <4> QED
        BY <3>2, <4>1, <4>2 DEF AheadOf
    <3> HIDE DEF x, frame
    <3> QED
      BY <3>1, <3>2, <3>3 DEF FitsLast
  <2> HIDE DEF frame, x
  <2>3. InOrderIn(queues', f)
    BY <1>1, <1>2, <1>4, <1>5, <2>2, TransmitInOrder
  <2>4. /\ frame[1] = f =>
             NumbersIn(queues', f) \in {NumbersIn(queues, f), NumbersIn(queues, f) \cup {frame[2]}}
        /\ frame[1] # f => NumbersIn(queues', f) = NumbersIn(queues, f)
    <3>1. /\ queues \in [Ports -> Seq(Frames)] /\ FarEnd[<<g[1], 1>>] \in Ports
          /\ frame \in Frames /\ Transmit(queues, g[1], 1, frame)
      BY <1>1, <1>2, <1>4, <1>5
    <3> QED
      BY <3>1, TransmitNumbers
  <2>5. CASE g = f
    <3>1. UnderWay(f)' \in {UnderWay(f), UnderWay(f) \cup {sent'[f]}}
      BY <1>4, <2>4, <2>5, NumbersUnderWay
    <3>2. \A n \in UnderWay(f) : n < sent'[f] /\ n \in Nat
      <4>1. \A n \in UnderWay(f) : n \in Nat
        BY DEF UnderWay
      <4> QED
        BY <1>1, <1>3, <2>5, <4>1
    <3>3. \A n \in UnderWay(f)' : n <= sent'[f]
      BY <1>3, <2>5, <3>1, <3>2
    <3>4. sent'[f] = sent[f] + 1 /\ sent'[f] \in 1..MaxPackets /\ received'[f] = received[f]
      BY <1>2, <1>3, <2>5
    <3>5. Chan!ChanStep(f)
      BY <3>1, <3>2, <3>4, ChanSends
    <3> QED
      BY <2>3, <3>3, <3>5 DEF Carries
  <2>6. CASE g # f
    <3>1. UnderWay(f)' = UnderWay(f)
      BY <1>4, <2>4, <2>6, NumbersUnderWay
    <3>2. Chan!Quiet(f)
      BY <1>2, <1>3, <2>6, <3>1, ChanQuiet
    <3> QED
      BY <1>1, <1>3, <2>3, <2>6, <3>1, <3>2 DEF Carries
  <2> QED
    BY <2>5, <2>6
<1> QED
  BY <1>6, <1>7

\* A router takes the oldest frame of a queue and puts it behind all those of its flow
\* that it has let through before.
LEMMA ForwardCarries ==
  ASSUME OrderInv, NEW x \in Ports, x[1] \in Switches, ForwardFrame(x[1], x[2])
  PROVE  NetTypeOK' /\ \A f \in Flows : Carries(f)
<1> DEFINE s == x[1]
           frame == Head(queues[x])
           t == Taken(x)
           out == output[s][frame[1][2]]
           y == FarEnd[<<s, out>>]
<1>1. /\ queues \in [Ports -> Seq(Frames)] /\ sent \in [Flows -> 0..MaxPackets]
      /\ received \in [Flows -> Seq(1..MaxPackets)]
      /\ \A f \in Flows : InOrderIn(queues, f) /\ \A n \in UnderWay(f) : n <= sent[f]
  BY OrderInvIs
<1>2. x = <<x[1], x[2]>> /\ s \in Nodes
  BY DEF Ports
<1>3. /\ queues[x] # <<>>
      /\ IF out \in DOMAIN Neighbours[s] THEN Transmit(t, s, out, frame) ELSE queues' = t
      /\ UNCHANGED <<files, output, lossy, sent, received>>
  BY <1>2 DEF ForwardFrame
<1>4. t \in [Ports -> Seq(Frames)] /\ frame \in Frames
  BY <1>1, <1>3, TakenWaits
<1>5. frame = <<frame[1], frame[2]>> /\ frame[1] \in Flows /\ frame[2] \in 1..MaxPackets
  BY <1>4 DEF Frames
<1>6. out \in DOMAIN Neighbours[s] => y \in Ports
  BY <1>2, FarEndIs
<1>7. NetTypeOK'
  <2>1. queues' \in [Ports -> Seq(Frames)]
    <3> HIDE DEF frame, t, out, s
    <3> QED
      BY <1>3, <1>4, <1>6, TransmitTyped
  <2>2. NetTypeOK
    BY DEF OrderInv
  <2> QED
    BY <1>1, <1>3, <2>1, <2>2, NetTypeStays
<1>8. ASSUME NEW f \in Flows PROVE Carries(f)
  <2>1. /\ InOrderIn(t, f)
        /\ \A h \in 1..MaxPackets : frame = <<f, h>> => FitsFirst(t, f, x, h)
    BY <1>1, <1>3, TakenInOrder
  <2>2. IF frame[1] = f THEN NumbersIn(queues, f) = NumbersIn(t, f) \cup {frame[2]}
                        ELSE NumbersIn(queues, f) = NumbersIn(t, f)
    BY <1>1, <1>3, NumbersTaken
  <2>3. ASSUME out \in DOMAIN Neighbours[s], frame[1] = f
        PROVE  FitsLast(t, f, y, frame[2])
    <3>1. Leads(f, x) /\ y = NextPort(f, x)
      BY <2>3 DEF Leads, NextPort
    <3> HIDE DEF frame, t, out, y
    <3>2. FitsFirst(t, f, x, frame[2])
      BY <1>5, <2>1, <2>3
    <3> QED
      BY <3>1, <3>2, FitsNext
  <2> HIDE DEF frame, t, out, s
  <2>4. /\ InOrderIn(queues', f)
        /\ NumbersIn(queues', f) \in {NumbersIn(t, f), NumbersIn(queues, f)}
        /\ frame[1] # f => NumbersIn(queues', f) = NumbersIn(queues, f)
    <3>1. CASE out \in DOMAIN Neighbours[s]
      <4>1. Transmit(t, s, out, frame) /\ FarEnd[<<s, out>>] \in Ports
        BY <1>3, <1>6, <3>1
      <4>2. InOrderIn(queues', f)
        BY <1>4, <2>1, <2>3, <3>1, <4>1, TransmitInOrder
      <4>3. /\ frame[1] = f =>
                 NumbersIn(queues', f) \in {NumbersIn(t, f), NumbersIn(t, f) \cup {frame[2]}}
            /\ frame[1] # f => NumbersIn(queues', f) = NumbersIn(t, f)
        BY <1>4, <4>1, TransmitNumbers
      <4> QED
        BY <2>2, <4>2, <4>3
    <3>2. CASE out \notin DOMAIN Neighbours[s]
      BY <1>3, <2>1, <2>2, <3>2
    <3> QED
      BY <3>1, <3>2
  <2>5. sent'[f] = sent[f] /\ received'[f] = received[f]
    BY <1>3
  <2>6. CASE UnderWay(f)' = UnderWay(f)
    <3>1. Chan!Quiet(f)
      BY <2>5, <2>6, ChanQuiet
    <3> QED
      BY <1>1, <2>4, <2>5, <2>6, <3>1 DEF Carries
  <2>7. CASE UnderWay(f)' # UnderWay(f)
    <3>1. frame[2] \in UnderWay(f) /\ UnderWay(f)' = UnderWay(f) \ {frame[2]}
      BY <2>2, <2>4, <2>7, NumbersUnderWay
    <3>2. Chan!ChanStep(f)
      BY <2>5, <3>1, ChanLoses
    <3> QED
      BY <1>1, <2>4, <2>5, <3>1, <3>2 DEF Carries
  <2> QED
    BY <2>6, <2>7
<1> QED
  BY <1>7, <1>8

\* At a host the oldest frame of a flow is the one sent first of those under way.
LEMMA ReceiveCarries ==
  ASSUME OrderInv, NEW g \in Hosts, Receive(g)
  PROVE  NetTypeOK' /\ \A f \in Flows : Carries(f)
<1> DEFINE x == <<g, 1>>
           frame == Head(queues[x])
           h == frame[2]
           t == Taken(x)
<1>1. /\ queues \in [Ports -> Seq(Frames)] /\ sent \in [Flows -> 0..MaxPackets]
      /\ received \in [Flows -> Seq(1..MaxPackets)]
      /\ \A f \in Flows : InOrderIn(queues, f) /\ \A n \in UnderWay(f) : n <= sent[f]
  BY OrderInvIs
<1>2. x \in Ports /\ \A f : ~Leads(f, x)
  <2>1. g \in Nodes /\ 1 \in DOMAIN Neighbours[g] /\ g \notin Switches
    BY OneLink DEF Hosts, Switches
  <2> QED
    BY <2>1 DEF Ports, Leads
<1>3. /\ queues[x] # <<>> /\ queues' = t /\ UNCHANGED <<files, output, lossy, sent>>
      /\ received' = IF frame[1] \in Accepted[g]
                     THEN [received EXCEPT ![frame[1]] = Append(received[frame[1]], h)]
                     ELSE received
  BY DEF Receive
<1> HIDE DEF x
<1>4. frame \in Frames /\ t \in [Ports -> Seq(Frames)]
  BY <1>1, <1>2, <1>3, TakenWaits
<1>5. frame = <<frame[1], h>> /\ frame[1] \in Flows /\ h \in 1..MaxPackets
  BY <1>4 DEF Frames
<1>6. NetTypeOK'
  <2>1. Append(received[frame[1]], h) \in Seq(1..MaxPackets)
    BY <1>1, <1>5, AppendProperties
  <2>2. received' \in [Flows -> Seq(1..MaxPackets)]
    <3> HIDE DEF frame, h
    <3> QED
      BY <1>1, <1>3, <1>5, <2>1
  <2>3. NetTypeOK
    BY DEF OrderInv
  <2> HIDE DEF frame, h, t
  <2> QED
    BY <1>1, <1>3, <1>4, <2>2, <2>3, NetTypeStays
<1>7. ASSUME NEW f \in Flows PROVE Carries(f)
  <2>1. /\ InOrderIn(t, f)
        /\ \A n \in 1..MaxPackets : frame = <<f, n>> => FitsFirst(t, f, x, n)
    BY <1>1, <1>2, <1>3, TakenInOrder
  <2>2. IF frame[1] = f THEN NumbersIn(queues, f) = NumbersIn(t, f) \cup {h}
                        ELSE NumbersIn(queues, f) = NumbersIn(t, f)
    BY <1>1, <1>2, <1>3, NumbersTaken
  <2>3. sent'[f] = sent[f]
    BY <1>3
  <2> HIDE DEF frame, t, h
  <2>4. CASE frame[1] # f
    <3>1. UnderWay(f)' = UnderWay(f) /\ received'[f] = received[f]
      BY <1>1, <1>3, <2>2, <2>4, NumbersUnderWay
    <3>2. Chan!Quiet(f)
      BY <2>3, <3>1, ChanQuiet
    <3> QED
      BY <1>1, <1>3, <2>1, <3>1, <3>2 DEF Carries
  <2>5. CASE frame[1] = f
    <3>1. FitsFirst(t, f, x, h)
      BY <1>5, <2>1, <2>5
    \* After an interface of a host there is none, so all others come before it.
    <3>2. \A n \in NumbersIn(t, f) : h < n
      <4> SUFFICES ASSUME NEW z \in Ports, NEW n \in 1..MaxPackets, Waits(t, z, f, n)
                   PROVE  h < n
        BY DEF NumbersIn
      <4>1. /\ x \in Route(f) /\ z \in Route(f)
            /\ AheadOf(f, x, z) \/ (z = x /\ x \notin After(f, x)) => h < n
        BY <3>1 DEF FitsFirst
      <4>2. After(f, x) = {}
        BY <1>2 DEF After
      <4>3. z = x \/ x \in After(f, z)
        BY <4>1, <4>2, RouteIs
      <4> QED
        BY <4>1, <4>2, <4>3 DEF AheadOf
    <3>3. h \in UnderWay(f) /\ UnderWay(f)' = UnderWay(f) \ {h} /\ \A n \in UnderWay(f) : h <= n
      <4>1. h \in Nat /\ h \notin NumbersIn(t, f)
        BY <1>5, <3>2
      <4>2. UnderWay(f) = NumbersIn(t, f) \cup {h} /\ UnderWay(f)' = NumbersIn(t, f)
        BY <1>3, <2>2, <2>5, NumbersUnderWay
      <4>3. \A n \in NumbersIn(t, f) : n \in Nat
        BY DEF NumbersIn
      <4> QED
        BY <3>2, <4>1, <4>2, <4>3
    <3>4. Chan!ChanStep(f)
      <4>1. CASE f \notin Accepted[g]
        <5>1. received'[f] = received[f]
          BY <1>3, <2>5, <4>1
        <5> QED
          BY <2>3, <3>3, <5>1, ChanLoses
      <4>2. CASE f \in Accepted[g]
        <5>1. received'[f] = Append(received[f], h)
          BY <1>1, <1>3, <2>5, <4>2
        <5> QED
          BY <2>3, <3>3, <5>1, ChanDelivers
      <4> QED
        BY <4>1, <4>2
    <3> QED
      BY <1>1, <1>3, <2>1, <3>3, <3>4 DEF Carries
  <2> QED
    BY <2>4, <2>5
<1> QED
  BY <1>6, <1>7

\* At first no frame is under way.
LEMMA InitOrderInv == NetInit => OrderInv
<1> SUFFICES ASSUME NetInit PROVE OrderInv
  OBVIOUS
<1>1. NetTypeOK
  <2>1. <<>> \in Seq(Flows \X (1..MaxPackets)) /\ <<>> \in Seq(1..MaxPackets)
    BY EmptySeq
  <2> QED
    BY <2>1, FlowsAssumption DEF NetInit, NetTypeOK
<1>2. \A x \in Ports : queues[x] = <<>> /\ DOMAIN queues[x] = {}
  BY EmptySeq DEF NetInit
<1>3. \A x \in Ports : \A f, n : ~Waits(queues, x, f, n)
  BY <1>2 DEF Waits
<1>4. ASSUME NEW f \in Flows PROVE InOrderIn(queues, f) /\ UnderWay(f) = {}
  <2>1. UnderWay(f) = {}
    BY <1>2 DEF UnderWay
  <2>2. InOrderIn(queues, f)
    BY <1>2, <1>3 DEF InOrderIn
  <2> QED
    BY <2>1, <2>2
<1> QED
  BY <1>1, <1>4 DEF OrderInv

\* A step leaves the tables alone, and so the interfaces of a route.
LEMMA RouteStays ==
  ASSUME output' = output, NEW f
  PROVE  InOrderIn(queues, f)' <=> InOrderIn(queues', f)
<1>1. \A x : Leads(f, x)' = Leads(f, x) /\ NextPort(f, x)' = NextPort(f, x)
  BY DEF Leads, NextPort
<1>2. Closed(f)' = Closed(f)
  BY DEF Closed, Leads, NextPort
<1>3. Route(f)' = Route(f) /\ \A x : After(f, x)' = After(f, x)
  BY DEF Route, FirstPort, After, Reach, Closed, Leads, NextPort
<1> QED
  BY <1>3 DEF InOrderIn, AheadOf, Waits

\* Each step keeps every flow in order.
LEMMA StepOrderInv ==
  ASSUME OrderInv, NetNext
  PROVE  OrderInv' /\ \A f \in Flows : Chan!Quiet(f) \/ Chan!ChanStep(f)
<1>1. NetTypeOK' /\ output' = output /\ \A f \in Flows : Carries(f)
  <2>1. ASSUME NEW g \in Flows, SendPacket(g)
        PROVE  NetTypeOK' /\ output' = output /\ \A f \in Flows : Carries(f)
    BY <2>1, SendCarries DEF SendPacket
  <2>2. ASSUME NEW x \in Ports, x[1] \in Switches, ForwardFrame(x[1], x[2])
        PROVE  NetTypeOK' /\ output' = output /\ \A f \in Flows : Carries(f)
    BY <2>2, ForwardCarries DEF ForwardFrame
  <2>3. ASSUME NEW h \in Hosts, Receive(h)
        PROVE  NetTypeOK' /\ output' = output /\ \A f \in Flows : Carries(f)
    BY <2>3, ReceiveCarries DEF Receive
  <2> QED
    BY <2>1, <2>2, <2>3 DEF NetNext
<1>2. OrderInv'
  BY <1>1, RouteStays DEF OrderInv, Carries
<1> QED
  BY <1>1, <1>2 DEF Carries

\* The invariant of the order holds in every state, whatever the routes files say.
THEOREM OrderInvariant == NetSpec => []OrderInv
<1>1. ASSUME OrderInv, UNCHANGED netVars PROVE OrderInv'
  <2>1. UNCHANGED <<files, output, lossy, queues, sent, received>>
    BY <1>1 DEF netVars
  <2>2. NetTypeOK'
    BY <1>1, <2>1 DEF OrderInv, NetTypeOK
  <2>3. ASSUME NEW f \in Flows PROVE InOrderIn(queues, f)' /\ \A n \in UnderWay(f)' : n <= sent'[f]
    <3>1. InOrderIn(queues', f)
      BY <1>1, <2>1 DEF OrderInv
    <3>2. UnderWay(f)' = UnderWay(f)
      BY <2>1 DEF UnderWay
    <3> QED
      BY <1>1, <2>1, <3>1, <3>2, RouteStays DEF OrderInv
  <2> QED
    BY <2>2, <2>3 DEF OrderInv
<1>2. OrderInv /\ [NetNext]_netVars => OrderInv'
  BY <1>1, StepOrderInv
<1> QED
  BY <1>2, InitOrderInv, PTL DEF NetSpec

\* The network is a Channel for each of its flows, whatever the routes files, the wiring
\* and the addresses (the loop of process_thread, at every router).
THEOREM KeepsOrder == NetSpec => InOrder
<1>1. OrderInv /\ [NetNext]_netVars =>
        [\A f \in Flows : Chan!Quiet(f) \/ Chan!ChanStep(f)]_netVars
  BY StepOrderInv
<1> QED
  BY <1>1, OrderInvariant, PTL DEF NetSpec, InOrder

---------------------------------------------------------------------------------
(* The network: the checksums. *)

\* Any words whose sum is less than 2^32 match the checksum udp_csum
\* makes of them, also when the first fold carries again (udp_client_n.c:64).
THEOREM ChecksumMatches ==
  ASSUME NEW words, Total(words) \in Nat, Total(words) < 65536 * 65536
  PROVE  Checks(words, udp_csum(words))
<1> DEFINE sum == Total(words)
           high == sum \div 65536
           low == sum % 65536
           folded == high + low
           carry == folded \div 65536
           rest == (folded + carry) % 65536
<1>1. /\ high \in Nat /\ low \in Nat /\ high < 65536 /\ low < 65536
      /\ sum = 65536 * high + low /\ sum \in Nat
  BY SMT
<1>2. udp_csum(words) = 65535 - rest
  BY DEF udp_csum
<1> HIDE DEF sum, high, low
<1>3. carry \in {0, 1} /\ rest = folded + carry - 65536 * carry
  <2>1. CASE folded < 65536
    BY <1>1, <2>1
  <2>2. CASE ~(folded < 65536)
    BY <1>1, <2>2
  <2> QED
    BY <2>1, <2>2
<1> HIDE DEF carry, rest
<1>4. sum + (65535 - rest) = 65535 * (high + 1 + carry)
  BY <1>1, <1>3
<1>5. high + 1 + carry \in Nat
  BY <1>1, <1>3
<1>6. \A m \in Nat : (65535 * m) % 65535 = 0
  OBVIOUS
<1> QED
  BY <1>2, <1>4, <1>5, <1>6 DEF Checks, sum

---------------------------------------------------------------------------------
(* The network: what the routes files must say. *)

\* What a router looks up is an interface with the name in the last line about the
\* receiver.
LEMMA LookupLeads ==
  ASSUME NetInit, FilesLead
  PROVE  RoutesLead
<1> SUFFICES ASSUME NEW f \in Flows, Sound(f), NEW s \in Switches
             PROVE  /\ output[s][f[2]] \in DOMAIN Neighbours[s]
                    /\ Distance[f[2]][Neighbours[s][output[s][f[2]]]] < Distance[f[2]][s]
  BY DEF RoutesLead
<1> DEFINE lines == RoutesFiles[files][s]
           about == {k \in DOMAIN lines : WordAt(lines[k], 1) = Ip(f[2])}
           word(k) == WordAt(lines[k], AfterBlanks(lines[k]))
           named(k) == {p \in DOMAIN Neighbours[s] : RouterIntfNames[s][p] = word(k)}
           table == populate_routing_list(lines)
           names == RouterIntfNames[s]
<1>1. files \in DOMAIN RoutesFiles /\ output = Output[files] /\ f[2] \in Hosts
  BY FlowsAssumption DEF NetInit
<1>2. PICK k \in about :
        /\ \A j \in about : j <= k
        /\ named(k) # {}
        /\ \A p \in named(k) : Distance[f[2]][Neighbours[s][p]] < Distance[f[2]][s]
  BY <1>1 DEF FilesLead, Sound
<1>3. output[s][f[2]] = LookupRoute(table, names, Ip(f[2]))
  BY <1>1 DEF Output
<1>4. DOMAIN table = DOMAIN lines
      /\ \A j \in DOMAIN lines : table[j].ip_address = WordAt(lines[j], 1) /\ table[j].output_if = word(j)
  BY DEF populate_routing_list, ReadLine
<1>5. DOMAIN names = DOMAIN Neighbours[s]
  BY DEF RouterIntfNames
<1>6. DOMAIN lines \subseteq Nat
  <2>1. lines \in Seq(Seq(STRING))
    BY <1>1, TopologyAssumption
  <2> HIDE DEF lines
  <2> QED
    BY <2>1, LenProperties
<1>7. \A p \in DOMAIN Neighbours[s] : p \in Nat
  <2>1. s \in Nodes
    BY DEF Switches
  <2>2. DOMAIN Neighbours[s] = 1..Cardinality(LinksOf(s))
    BY <2>1, LinksOfNode
  <2> QED
    BY <2>2
<1> HIDE DEF lines, table, names, word
<1>8. {r \in DOMAIN table : table[r].ip_address = Ip(f[2])} = about
  BY <1>4
<1>9. Max(about) = k
  <2>1. about \subseteq Nat
    BY <1>6
  <2> HIDE DEF about
  <2>2. Max(about) \in about /\ \A j \in about : Max(about) >= j
    BY <1>2, <2>1 DEF Max
  <2>3. k \in about /\ \A j \in about : j <= k
    BY <1>2
  <2>4. Max(about) \in Nat /\ k \in Nat /\ Max(about) >= k /\ Max(about) <= k
    BY <2>1, <2>2, <2>3
  <2> QED
    BY <2>4
<1>10. table[k].output_if = word(k)
  BY <1>4
<1>11. {p \in DOMAIN names : names[p] = word(k)} = named(k)
  BY <1>5 DEF names
<1> DEFINE N == named(k)
<1>12. LookupRoute(table, names, Ip(f[2])) = Min(N)
  <2> HIDE DEF about, named
  <2>1. about # {} /\ N # {}
    BY <1>2
  <2> QED
    BY <1>8, <1>9, <1>10, <1>11, <2>1 DEF LookupRoute
<1>13. Min(N) \in N
  <2>1. N \in SUBSET Nat /\ N # {}
    BY <1>2, <1>7
  <2> HIDE DEF N
  <2>2. PICK p \in N : \A q \in N : p <= q
    BY <2>1, LeastNumber
  <2> QED
    BY <2>2 DEF Min
<1>14. output[s][f[2]] \in named(k)
  BY <1>3, <1>12, <1>13
<1> QED
  BY <1>2, <1>14

\* If at every router the last line about the receiver of a flow names an interface that
\* leads nearer, the packets are sent there: the other lines, and what they name, change
\* nothing (populate_routing_list and the scan of get_dst_sock_idx).
THEOREM FilesDecide == NetSpec /\ FilesLead => []RoutesLead
<1>1. NetInit /\ FilesLead => RoutesLead
  BY LookupLeads
<1>2. RoutesLead /\ [NetNext]_netVars => RoutesLead'
  <2> SUFFICES ASSUME RoutesLead, [NetNext]_netVars PROVE RoutesLead'
    OBVIOUS
  <2>1. files' = files /\ output' = output
    <3>1. ASSUME NEW f \in Flows, SendPacket(f) PROVE files' = files /\ output' = output
      BY <3>1, Zenon DEF SendPacket
    <3>2. ASSUME NEW s, NEW p, ForwardFrame(s, p) PROVE files' = files /\ output' = output
      BY <3>2, Zenon DEF ForwardFrame
    <3>3. ASSUME NEW h \in Hosts, Receive(h) PROVE files' = files /\ output' = output
      BY <3>3, Zenon DEF Receive
    <3>4. CASE UNCHANGED netVars
      BY <3>4 DEF netVars
    <3> QED
      BY <3>1, <3>2, <3>3, <3>4, Zenon DEF NetNext
  <2> QED
    BY <2>1, Zenon DEF RoutesLead, Sound
<1> QED
  BY <1>1, <1>2, PTL DEF NetSpec

---------------------------------------------------------------------------------
(* The orchestrator: the experiment progresses only when it is complete.   *)

LEMMA InitStageInv == ExperimentInit => StageInv
BY DEF ExperimentInit, StageInv, ExperimentTypeOK, Stage, Complete

\* As many of the programs as there are, are all of them.
LEMMA AllJoined ==
  ASSUME Cardinality(Joined) >= Cardinality(Programs)
  PROVE  Joined = Programs
<1>1. IsFiniteSet(Programs) /\ Joined \in SUBSET Programs
  BY ProgramsAssumption DEF Joined
<1>2. /\ Cardinality(Joined) \in Nat /\ Cardinality(Programs) \in Nat
      /\ Cardinality(Joined) <= Cardinality(Programs)
      /\ Cardinality(Programs) = Cardinality(Joined) => Programs = Joined
  BY <1>1, FS_Subset, FS_CardinalityType
<1> QED
  BY <1>2

\* Each step of main preserves the invariant.
LEMMA MainStageInv ==
  ASSUME StageInv, MainStep
  PROVE  StageInv'
<1> USE DEF StageInv, ExperimentTypeOK, Stage, Complete, Goto
<1>1. CASE InitializeExp
  BY <1>1 DEF InitializeExp
<1>2. CASE StartNet
  BY <1>2 DEF StartNet
<1>3. CASE StartHost
  BY <1>3 DEF StartHost
<1>4. CASE SeeProcess
  BY <1>4 DEF SeeProcess
<1>5. CASE ReadStatus
  <2>1. ToSet(HostNames) \subseteq Programs
    BY DEF Programs
  <2>2. procs' \subseteq Programs
    BY <1>5, <2>1 DEF ReadStatus
  <2> QED
    BY <1>5, <2>2 DEF ReadStatus
<1>6. CASE FindSwitches
  <2>1. procs' = Programs
    BY <1>6 DEF FindSwitches, Programs
  <2>2. epc' = CASE mode = "normal" -> "sleep"
                 [] mode = "VT" -> "dilate"
                 [] mode \in Timed -> "synchronize"
                 [] OTHER -> "stop net"
    BY <1>6 DEF FindSwitches
  <2>3. \/ mode \notin Timed /\ epc' \in {"sleep", "dilate", "stop net"}
        \/ mode \in Timed /\ epc' = "synchronize"
    BY <2>2 DEF Timed
  <2> QED
    BY <1>6, <2>1, <2>3 DEF FindSwitches
<1>7. CASE Sleep
  BY <1>7 DEF Sleep
<1>8. CASE Dilate
  BY <1>8 DEF Dilate
<1>9. CASE Synchronize
  <2>1. Joined = Programs
    BY <1>9, AllJoined DEF Synchronize
  <2>2. Joined' = Joined
    BY <1>9 DEF Synchronize, Joined
  <2> QED
    BY <1>9, <2>1, <2>2 DEF Synchronize
<1>10. CASE SetOwners
  BY <1>10 DEF SetOwners, Joined
<1>11. CASE Progress
  BY <1>11 DEF Progress
<1>12. CASE StopExp
  BY <1>12 DEF StopExp
<1>13. CASE StopNet
  BY <1>13 DEF StopNet
<1>14. CASE WriteStatistics
  BY <1>14 DEF WriteStatistics
<1> QED
  BY <1>1, <1>2, <1>3, <1>4, <1>5, <1>6, <1>7, <1>8, <1>9, <1>10, <1>11, <1>12, <1>13, <1>14
     DEF MainStep

\* So does what a program does by itself: one that is frozen does nothing.
LEMMA ProgramStageInv ==
  ASSUME StageInv, NEW p \in Programs, ProgramStep(p)
  PROVE  StageInv'
<1>1. /\ UNCHANGED <<mode, epc, net, procs, owners, exp>>
      /\ exp # "frozen"
      /\ \E state \in {"joined", "gone"} : prog' = [prog EXCEPT ![p] = state]
  BY DEF ProgramStep, Join, Exit
<1>2. epc \notin {"owners", "progress"}
  BY <1>1 DEF StageInv, Stage
<1>3. ExperimentTypeOK'
  BY <1>1 DEF StageInv, ExperimentTypeOK
<1>4. Stage'
  BY <1>1 DEF StageInv, Stage
<1>5. Complete'
  BY <1>1, <1>2 DEF StageInv, Complete
<1> QED
  BY <1>3, <1>4, <1>5 DEF StageInv

\* The invariant holds in every reachable state.
THEOREM StageInvariant == ExperimentSpec => []StageInv
<1>1. StageInv /\ UNCHANGED experimentVars => StageInv'
  BY DEF experimentVars, StageInv, ExperimentTypeOK, Stage, Complete, Joined
<1>2. StageInv /\ [ExperimentNext]_experimentVars => StageInv'
  BY <1>1, MainStageInv, ProgramStageInv DEF ExperimentNext, Idle
<1> QED
  BY <1>2, InitStageInv, PTL DEF ExperimentSpec

\* The experiment progresses only with every program registered, frozen and the owner
\* of its interfaces, however many there are and whenever they register or exit.
THEOREM ProgressesComplete == ExperimentSpec => ProgressComplete
<1> DEFINE Step == exp' = "progressed" /\ exp # "progressed" =>
                     exp = "frozen" /\ Joined = Programs /\ owners = Programs
<1>1. StageInv /\ [ExperimentNext]_experimentVars => Step
  <2> SUFFICES ASSUME StageInv, [ExperimentNext]_experimentVars, exp' = "progressed", exp # "progressed"
               PROVE  exp = "frozen" /\ Joined = Programs /\ owners = Programs
    OBVIOUS
  <2>1. Progress
    BY DEF ExperimentNext, MainStep, Idle, ProgramStep, experimentVars, InitializeExp, StartNet, StartHost,
           SeeProcess, ReadStatus, FindSwitches, Sleep, Dilate, Synchronize, SetOwners,
           WriteStatistics, StopExp, StopNet, Join, Exit
  <2> QED
    BY <2>1 DEF Progress, StageInv, Stage, Complete
<1>2. StageInv /\ [ExperimentNext]_experimentVars => [Step]_experimentVars
  BY <1>1
<1> QED
  BY <1>2, StageInvariant, PTL DEF ExperimentSpec, ProgressComplete

=================================================================================
