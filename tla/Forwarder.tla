-------------------------------- MODULE Forwarder --------------------------------
(***************************************************************************)
(* What a router promises for its packets: those of an interface leave in  *)
(* the order they came, each by the interface the table gives its          *)
(* destination; one without a route is dropped, and one whose transmission *)
(* fails is lost.  A packet is queued for its interface only, but for one  *)
(* that comes while a socket is not yet bound.                             *)
(***************************************************************************)
EXTENDS Integers, Sequences

CONSTANTS
  Interfaces,   \* the router's interfaces
  Packets,      \* what can arrive: a packet came in on an interface, in, has a
                \* destination, dst, and came early or not
  Table,        \* destination -> interface, or NoRoute
  NoRoute

VARIABLES
  inq,    \* per interface, the packets received and not yet dealt with
  outq    \* per interface, the packets sent, in order

FwdInit == inq = [i \in Interfaces |-> <<>>] /\ outq = [i \in Interfaces |-> <<>>]

\* A packet is received on the socket of its interface, if that is open, and one that
\* comes early on the one being opened.
Receive(S, p) ==
  /\ IF p.early THEN \E k \in S : S \subseteq {p.in, k} ELSE S \subseteq {p.in}
  /\ inq' = [i \in Interfaces |-> IF i \in S THEN Append(inq[i], p) ELSE inq[i]]
  /\ UNCHANGED outq

Take(i) == inq[i] # <<>> /\ inq' = [inq EXCEPT ![i] = Tail(@)]

Forward(i) ==
  /\ Take(i)
  /\ Table[Head(inq[i]).dst] # NoRoute
  /\ outq' = [outq EXCEPT ![Table[Head(inq[i]).dst]] = Append(@, Head(inq[i]))]

\* The packet has no route, or is lost in its transmission.
Drop(i) == Take(i) /\ UNCHANGED outq

FwdNext ==
  \/ \E S \in SUBSET Interfaces, p \in Packets : Receive(S, p)
  \/ \E i \in Interfaces : Forward(i) \/ Drop(i)

FwdSpec == FwdInit /\ [][FwdNext]_<<inq, outq>>

=================================================================================
