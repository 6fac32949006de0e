-------------------------------- MODULE RequestReply --------------------------------
(***************************************************************************)
(* The plain client and server of the experiments (client_n.c, server_n.c) *)
(* over UDP.  The client sends a numbered request and waits for a reply,   *)
(* without a timeout, before it sends the next; the server answers each    *)
(* datagram with a buffer of 'A's, so that nothing in a reply tells which  *)
(* request it answers.  The model keeps the number of the request with its *)
(* reply, for the properties only.                                         *)
(*                                                                         *)
(* The network is a single path, which keeps the order but may lose a      *)
(* datagram, and may double one: a router whose sockets are being bound    *)
(* does (RouterVT).                                                        *)
(***************************************************************************)
EXTENDS Integers, Sequences

CONSTANTS
  MaxExtras,   \* how often a datagram is doubled or recvfrom fails
  MayLose      \* the network may lose datagrams

VARIABLES
  cpc,         \* the client's next call: "send" or "recv"
  pkt_no,      \* replies the client has counted
  at_server,   \* requests on the server's socket
  spc,         \* the server's next call: "recv" or "send"
  peer,        \* serverStorage: the last request received, 0 before the first
  at_client,   \* replies on the client's socket
  extras       \* datagrams doubled and receptions failed so far

clientVars == <<cpc, pkt_no>>
serverVars == <<spc, peer>>
rrVars == <<cpc, pkt_no, at_server, spc, peer, at_client, extras>>

RRInit ==
  /\ cpc = "send" /\ pkt_no = 0 /\ at_client = <<>>
  /\ spc = "recv" /\ peer = 0 /\ at_server = <<>>
  /\ extras = 0

(***************************************************************************)
(* A datagram m sent to a socket that holds q: it arrives, is lost, or     *)
(* arrives twice.                                                          *)
(***************************************************************************)
Arrives(q, m) == {Append(q, m)} \cup (IF MayLose THEN {q} ELSE {})
ArrivesTwice(q, m) == Append(Append(q, m), m)

Extra == extras < MaxExtras /\ extras' = extras + 1

---------------------------------------------------------------------------------

ClientSend ==
  /\ cpc = "send"
  /\ \/ at_server' \in Arrives(at_server, pkt_no + 1) /\ UNCHANGED extras
     \/ at_server' = ArrivesTwice(at_server, pkt_no + 1) /\ Extra
  /\ cpc' = "recv"
  /\ UNCHANGED <<pkt_no, at_client, serverVars>>

ClientRecv ==
  /\ cpc = "recv"
  /\ at_client # <<>>
  /\ at_client' = Tail(at_client)
  /\ pkt_no' = pkt_no + 1
  /\ cpc' = "send"
  /\ UNCHANGED <<at_server, serverVars, extras>>

\* recvfrom fails: nothing is counted, and the same number is sent again.
ClientRecvFails ==
  /\ cpc = "recv"
  /\ Extra
  /\ cpc' = "send"
  /\ UNCHANGED <<pkt_no, at_client, at_server, serverVars>>

ServerRecv ==
  /\ spc = "recv"
  /\ at_server # <<>>
  /\ at_server' = Tail(at_server)
  /\ peer' = Head(at_server)
  /\ spc' = "send"
  /\ UNCHANGED <<clientVars, at_client, extras>>

\* recvfrom fails and returns -1, which if(nBytes) takes for a request: the last
\* client is sent another reply.
ServerRecvFails ==
  /\ spc = "recv"
  /\ Extra
  /\ spc' = "send"
  /\ UNCHANGED <<clientVars, at_client, at_server, peer>>

\* A reply to nobody, before the first request, goes nowhere.
ServerSend ==
  /\ spc = "send"
  /\ IF peer = 0 THEN UNCHANGED <<at_client, extras>>
     ELSE \/ at_client' \in Arrives(at_client, peer) /\ UNCHANGED extras
          \/ at_client' = ArrivesTwice(at_client, peer) /\ Extra
  /\ spc' = "recv"
  /\ UNCHANGED <<clientVars, at_server, peer>>

ClientStep == ClientSend \/ ClientRecv \/ ClientRecvFails
ServerStep == ServerRecv \/ ServerRecvFails \/ ServerSend

RRSpec == RRInit /\ [][ClientStep \/ ServerStep]_rrVars

---------------------------------------------------------------------------------

\* Requests and replies under way: on a socket, or in the server's hands.
Backlog == Len(at_server) + Len(at_client) + (IF spc = "send" THEN 1 ELSE 0)

\* The client has at most one request under way, and one more reply for each
\* datagram doubled or reception failed: such a reply never leaves the queue, so
\* that from then on the client takes each reply for that of the next request
\* (the recvfrom of client_n.c:167, whose reply is not looked at).
BacklogBounded == Backlog <= (IF cpc = "recv" THEN 1 ELSE 0) + extras

\* As long as none was doubled and no reception failed, the reply the client
\* waits for answers the request it has sent: the transit time it computes is
\* that of one packet.
ReplyAnswersRequest ==
  extras = 0 =>
    /\ \A k \in DOMAIN at_client : at_client[k] = pkt_no + 1 /\ cpc = "recv"
    /\ \A k \in DOMAIN at_server : at_server[k] = pkt_no + 1 /\ cpc = "recv"

---------------------------------------------------------------------------------
(***************************************************************************)
(* Why these hold: as long as nothing was doubled and no reception failed, *)
(* the one request under way is in one place, a queue or the server's      *)
(* hands, and carries the number the client waits for.                     *)
(***************************************************************************)
RRTypeOK ==
  /\ cpc \in {"send", "recv"} /\ spc \in {"send", "recv"}
  /\ pkt_no \in Nat /\ peer \in Nat /\ extras \in Nat
  /\ at_server \in Seq(Nat) /\ at_client \in Seq(Nat)

OneExchange ==
  extras = 0 =>
    /\ \A k \in DOMAIN at_client : at_client[k] = pkt_no + 1
    /\ \A k \in DOMAIN at_server : at_server[k] = pkt_no + 1
    /\ spc = "send" => peer = pkt_no + 1

\* The invariant that every step preserves.
RRInv == RRTypeOK /\ BacklogBounded /\ OneExchange

=================================================================================
