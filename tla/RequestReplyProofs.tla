---------------------------- MODULE RequestReplyProofs ----------------------------
(***************************************************************************)
(* Proofs about RequestReply, for any number of datagrams doubled and of   *)
(* receptions failed, and whether or not the network loses datagrams.      *)
(***************************************************************************)
EXTENDS RequestReply, SequenceTheorems, TLAPS

---------------------------------------------------------------------------------
(* What sending a datagram does to the queue of a socket. *)

\* A datagram sent once leaves a queue at most one longer, and adds nothing else.
LEMMA ArrivesOnce ==
  ASSUME NEW q \in Seq(Nat), NEW m \in Nat, NEW r \in Arrives(q, m)
  PROVE  /\ r \in Seq(Nat) /\ Len(r) <= Len(q) + 1
         /\ \A k \in DOMAIN r : r[k] = m \/ (k \in DOMAIN q /\ r[k] = q[k])
<1>1. r = q \/ r = Append(q, m)
  BY DEF Arrives
<1>2. Len(q) \in Nat /\ DOMAIN q = 1..Len(q)
  BY LenProperties
<1>3. /\ Append(q, m) \in Seq(Nat) /\ Len(Append(q, m)) = Len(q) + 1
      /\ \A k \in 1..Len(q) : Append(q, m)[k] = q[k]
      /\ Append(q, m)[Len(q) + 1] = m
  BY AppendProperties
<1>4. DOMAIN Append(q, m) = 1..(Len(q) + 1)
  BY <1>3, LenProperties
<1>5. CASE r = q
  BY <1>2, <1>5
<1>6. CASE r = Append(q, m)
  <2>1. ASSUME NEW k \in 1..(Len(q) + 1), k # Len(q) + 1 PROVE k \in 1..Len(q)
    BY <1>2, <2>1
  <2> QED
    BY <1>2, <1>3, <1>4, <1>6, <2>1
<1> QED
  BY <1>1, <1>5, <1>6

\* One that arrives twice leaves it two longer.
LEMMA ArrivesDoubled ==
  ASSUME NEW q \in Seq(Nat), NEW m \in Nat
  PROVE  /\ ArrivesTwice(q, m) \in Seq(Nat)
         /\ Len(ArrivesTwice(q, m)) = Len(q) + 2
<1>1. Append(q, m) \in Seq(Nat) /\ Len(Append(q, m)) = Len(q) + 1 /\ Len(q) \in Nat
  BY AppendProperties, LenProperties
<1> QED
  BY <1>1, AppendProperties DEF ArrivesTwice

\* A datagram read was the first of its queue; the others stay as they are.
LEMMA ReadFirst ==
  ASSUME NEW q \in Seq(Nat), q # <<>>
  PROVE  /\ 1 \in DOMAIN q /\ Head(q) = q[1] /\ Head(q) \in Nat
         /\ Tail(q) \in Seq(Nat) /\ Len(Tail(q)) = Len(q) - 1 /\ Len(q) \in Nat \ {0}
         /\ \A k \in DOMAIN Tail(q) : k + 1 \in DOMAIN q /\ Tail(q)[k] = q[k + 1]
<1>1. Len(q) \in Nat \ {0} /\ DOMAIN q = 1..Len(q)
  BY EmptySeq, LenProperties
<1>2. /\ Head(q) \in Nat /\ Tail(q) \in Seq(Nat) /\ Len(Tail(q)) = Len(q) - 1
      /\ \A k \in 1..Len(Tail(q)) : Tail(q)[k] = q[k + 1]
  BY HeadTailProperties
<1>3. DOMAIN Tail(q) = 1..Len(Tail(q))
  BY <1>2, LenProperties
<1> QED
  BY <1>1, <1>2, <1>3

---------------------------------------------------------------------------------
(* The invariant. *)

LEMMA InitRRInv == RRInit => RRInv
<1> SUFFICES ASSUME RRInit PROVE RRInv
  OBVIOUS
<1>1. Len(<<>>) = 0 /\ <<>> \in Seq(Nat) /\ DOMAIN <<>> = {}
  BY EmptySeq
<1> QED
  BY <1>1 DEF RRInit, RRInv, RRTypeOK, BacklogBounded, Backlog, OneExchange

\* While the client has no request of its own under way and nothing went wrong, both
\* sockets are empty and the server waits; while it has one, there is one place for it.
LEMMA OnePlace ==
  ASSUME RRInv, extras = 0
  PROVE  /\ Len(at_server) \in Nat /\ Len(at_client) \in Nat
         /\ cpc = "send" => at_server = <<>> /\ at_client = <<>> /\ spc = "recv"
         /\ at_client # <<>> => at_server = <<>> /\ spc = "recv" /\ Len(at_client) = 1
<1>1. Len(at_server) \in Nat /\ Len(at_client) \in Nat
  BY LenProperties DEF RRInv, RRTypeOK
<1>2. /\ Len(at_server) = 0 <=> at_server = <<>>
      /\ Len(at_client) = 0 <=> at_client = <<>>
  BY EmptySeq DEF RRInv, RRTypeOK
<1>3. Len(at_server) + Len(at_client) + (IF spc = "send" THEN 1 ELSE 0)
        <= (IF cpc = "recv" THEN 1 ELSE 0)
  BY DEF RRInv, RRTypeOK, BacklogBounded, Backlog
<1>4. spc \in {"send", "recv"} /\ cpc \in {"send", "recv"}
  BY DEF RRInv, RRTypeOK
<1>5. ASSUME cpc = "send"
      PROVE  Len(at_server) = 0 /\ Len(at_client) = 0 /\ spc = "recv"
  BY <1>1, <1>3, <1>4, <1>5
<1>6. ASSUME Len(at_client) # 0
      PROVE  Len(at_server) = 0 /\ Len(at_client) = 1 /\ spc = "recv"
  <2>1. Len(at_client) >= 1
    BY <1>1, <1>6
  <2>2. cpc = "recv"
    BY <1>1, <1>3, <1>4, <2>1
  <2> QED
    BY <1>1, <1>3, <1>4, <2>1, <2>2
<1> QED
  BY <1>1, <1>2, <1>5, <1>6

\* Each call of the client, and what the network makes of it, preserves the invariant.
LEMMA ClientRRInv ==
  ASSUME RRInv, ClientStep
  PROVE  RRInv'
<1>0. Len(at_server) \in Nat /\ Len(at_client) \in Nat
  BY LenProperties DEF RRInv, RRTypeOK
<1> USE DEF RRInv, RRTypeOK, BacklogBounded, Backlog, clientVars, serverVars
<1>1. CASE ClientSend
  <2>1. CASE at_server' \in Arrives(at_server, pkt_no + 1) /\ UNCHANGED extras
    <3>1. /\ at_server' \in Seq(Nat) /\ Len(at_server') <= Len(at_server) + 1
          /\ \A k \in DOMAIN at_server' :
               at_server'[k] = pkt_no + 1
               \/ (k \in DOMAIN at_server /\ at_server'[k] = at_server[k])
      BY <2>1, ArrivesOnce
    <3>2. Len(at_server') \in Nat
      BY <3>1, LenProperties
    <3>3. OneExchange'
      BY <1>1, <2>1, <3>1 DEF ClientSend, OneExchange
    <3> QED
      BY <1>0, <1>1, <2>1, <3>1, <3>2, <3>3 DEF ClientSend
  <2>2. CASE at_server' = ArrivesTwice(at_server, pkt_no + 1) /\ Extra
    <3>1. at_server' \in Seq(Nat) /\ Len(at_server') = Len(at_server) + 2
      BY <2>2, ArrivesDoubled
    <3>2. extras' = extras + 1
      BY <2>2 DEF Extra
    <3>3. OneExchange'
      BY <3>2 DEF OneExchange
    <3> QED
      BY <1>0, <1>1, <3>1, <3>2, <3>3 DEF ClientSend
  <2> QED
    BY <1>1, <2>1, <2>2 DEF ClientSend
<1>2. CASE ClientRecv
  <2>1. /\ at_client' \in Seq(Nat) /\ Len(at_client') = Len(at_client) - 1
        /\ Len(at_client) \in Nat \ {0}
    BY <1>2, ReadFirst DEF ClientRecv
  <2>2. OneExchange'
    <3> SUFFICES ASSUME extras = 0 PROVE OneExchange'
      BY <1>2 DEF ClientRecv, OneExchange
    <3>1. at_server = <<>> /\ spc = "recv" /\ Len(at_client) = 1
      BY <1>2, OnePlace DEF ClientRecv
    <3>2. at_client' = <<>>
      BY <2>1, <3>1, EmptySeq
    <3> QED
      BY <1>2, <3>1, <3>2 DEF ClientRecv, OneExchange
  <2> QED
    BY <1>0, <1>2, <2>1, <2>2 DEF ClientRecv
<1>3. CASE ClientRecvFails
  BY <1>0, <1>3 DEF ClientRecvFails, Extra, OneExchange
<1> QED
  BY <1>1, <1>2, <1>3 DEF ClientStep

\* So does each call of the server.
LEMMA ServerRRInv ==
  ASSUME RRInv, ServerStep
  PROVE  RRInv'
<1>0. Len(at_server) \in Nat /\ Len(at_client) \in Nat
  BY LenProperties DEF RRInv, RRTypeOK
<1> USE DEF RRInv, RRTypeOK, BacklogBounded, Backlog, clientVars, serverVars
<1>1. CASE ServerRecv
  <2>1. /\ 1 \in DOMAIN at_server /\ peer' = at_server[1] /\ peer' \in Nat
        /\ at_server' \in Seq(Nat) /\ Len(at_server') = Len(at_server) - 1
        /\ \A k \in DOMAIN at_server' :
             k + 1 \in DOMAIN at_server /\ at_server'[k] = at_server[k + 1]
    BY <1>1, ReadFirst DEF ServerRecv
  <2>2. OneExchange'
    BY <1>1, <2>1 DEF ServerRecv, OneExchange
  <2> QED
    BY <1>0, <1>1, <2>1, <2>2 DEF ServerRecv
<1>2. CASE ServerRecvFails
  BY <1>0, <1>2 DEF ServerRecvFails, Extra, OneExchange
<1>3. CASE ServerSend
  <2>1. CASE UNCHANGED <<at_client, extras>>
    BY <1>0, <1>3, <2>1 DEF ServerSend, OneExchange
  <2>2. CASE at_client' \in Arrives(at_client, peer) /\ UNCHANGED extras
    <3>1. /\ at_client' \in Seq(Nat) /\ Len(at_client') <= Len(at_client) + 1
          /\ \A k \in DOMAIN at_client' :
               at_client'[k] = peer
               \/ (k \in DOMAIN at_client /\ at_client'[k] = at_client[k])
      BY <2>2, ArrivesOnce
    <3>2. Len(at_client') \in Nat
      BY <3>1, LenProperties
    <3>3. OneExchange'
      BY <1>3, <2>2, <3>1 DEF ServerSend, OneExchange
    <3> QED
      BY <1>0, <1>3, <2>2, <3>1, <3>2, <3>3 DEF ServerSend
  <2>3. CASE at_client' = ArrivesTwice(at_client, peer) /\ Extra
    <3>1. at_client' \in Seq(Nat) /\ Len(at_client') = Len(at_client) + 2
      BY <2>3, ArrivesDoubled
    <3>2. extras' = extras + 1
      BY <2>3 DEF Extra
    <3>3. OneExchange'
      BY <3>2 DEF OneExchange
    <3> QED
      BY <1>0, <1>3, <3>1, <3>2, <3>3 DEF ServerSend
  <2> QED
    BY <1>3, <2>1, <2>2, <2>3 DEF ServerSend
<1> QED
  BY <1>1, <1>2, <1>3 DEF ServerStep

\* The invariant holds in every reachable state (client_n.c with server_n.c).
THEOREM ExchangeInvariant == RRSpec => []RRInv
<1>1. RRInv /\ UNCHANGED rrVars => RRInv'
  BY DEF rrVars, RRInv, RRTypeOK, BacklogBounded, Backlog, OneExchange
<1>2. RRInv /\ [ClientStep \/ ServerStep]_rrVars => RRInv'
  BY <1>1, ClientRRInv, ServerRRInv
<1> QED
  BY <1>2, InitRRInv, PTL DEF RRSpec

\* What is under way never exceeds the one request of the client and one datagram for
\* each doubled or reception failed (client_n.c's unexamined recvfrom).
THEOREM Bounded == RRSpec => []BacklogBounded
<1>1. RRInv => BacklogBounded
  BY DEF RRInv
<1> QED
  BY <1>1, ExchangeInvariant, PTL

\* Until then each reply on the client's socket answers the request it waits for.
THEOREM Answers == RRSpec => []ReplyAnswersRequest
<1>1. RRInv => ReplyAnswersRequest
  <2> SUFFICES ASSUME RRInv, extras = 0
               PROVE  /\ \A k \in DOMAIN at_client : at_client[k] = pkt_no + 1 /\ cpc = "recv"
                      /\ \A k \in DOMAIN at_server : at_server[k] = pkt_no + 1 /\ cpc = "recv"
    BY DEF ReplyAnswersRequest
  <2>1. cpc = "send" => DOMAIN at_client = {} /\ DOMAIN at_server = {}
    BY OnePlace
  <2> QED
    BY <2>1 DEF RRInv, RRTypeOK, OneExchange
<1> QED
  BY <1>1, ExchangeInvariant, PTL

=================================================================================
