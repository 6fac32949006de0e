---------------------------------- MODULE ClientVT ----------------------------------
(***************************************************************************)
(* The client under virtual time (client_n_vt.c): the loop of the plain    *)
(* client as the worker of VTProtocol, against the server and the network  *)
(* of RequestReply.  It sleeps once before its first request, and blocks   *)
(* for each reply.                                                         *)
(*                                                                         *)
(* rpc names the next call the worker makes once VTProtocol has it at      *)
(* "run".                                                                  *)
(***************************************************************************)
EXTENDS VTProtocol

CONSTANTS
  FuncTimes,   \* the cost of each function the client registers
  MaxExtras, MayLose

ASSUME FuncTimesAssumption ==
  FuncTimes \in [{"sendto", "flush_buffer", "computation"} -> Costs]
ASSUME NetworkAssumption == MaxExtras \in Nat /\ MayLose \in BOOLEAN

VARIABLES
  rpc,         \* the next call of process_thread
  pkt_no,      \* replies counted
  at_client,   \* replies on the client's socket
  at_server, spc, peer, extras   \* the server and the network

clientVTVars == <<rpc, pkt_no, at_client, at_server, spc, peer, extras>>
envVars == <<at_server, spc, peer, extras>>

\* The worker has sent a request and not yet returned from recvfrom.
Waits == rpc \in {"flush again", "block", "sleep"}

\* The plain client counts a reply when it reads it, this one after the grant.
Plain == INSTANCE RequestReply WITH
           cpc <- IF Waits THEN "recv" ELSE "send",
           pkt_no <- IF rpc = "count" THEN pkt_no + 1 ELSE pkt_no

ClientInit ==
  /\ VTInit
  /\ rpc = "doze" /\ pkt_no = 0 /\ at_client = <<>>
  /\ at_server = <<>> /\ spc = "recv" /\ peer = 0 /\ extras = 0

Charge(name) == Call(FuncTimes[name])

---------------------------------------------------------------------------------

\* The sleep of a second before the first request: a block like the others.
Doze ==
  /\ rpc = "doze"
  /\ RaiseBlocked
  /\ rpc' = "dozing"
  /\ UNCHANGED <<pkt_no, at_client, envVars>>

Rise ==
  /\ rpc = "dozing"
  /\ Wakeup
  /\ rpc' = "loop"
  /\ UNCHANGED <<pkt_no, at_client, envVars>>

\* The head of the loop, where stop is tested.
Loop ==
  /\ rpc = "loop"
  /\ CallUncharged
  /\ rpc' = "flush"
  /\ UNCHANGED <<pkt_no, at_client, envVars>>

FlushBuffer ==
  /\ \/ rpc = "flush" /\ rpc' = "send"
     \/ rpc = "flush again" /\ rpc' = "block"
  /\ Charge("flush_buffer")
  /\ UNCHANGED <<pkt_no, at_client, envVars>>

\* sendto, and update_stub for "send_to", which is not registered: no charge.
SendRequest ==
  /\ rpc = "send"
  /\ \/ at_server' \in Plain!Arrives(at_server, pkt_no + 1) /\ UNCHANGED extras
     \/ at_server' = Plain!ArrivesTwice(at_server, pkt_no + 1) /\ Plain!Extra
  /\ CallUncharged
  /\ rpc' = "flush again"
  /\ UNCHANGED <<pkt_no, at_client, spc, peer>>

\* Faulty: main is not told that the worker blocks.
BlockSilently ==
  /\ rpc = "block"
  /\ wpc = "run" /\ wpc' = "asleep"
  /\ UNCHANGED <<mainVars, stop, is_blocked, m2t, t2m, curr, used, idle>>
  /\ rpc' = "sleep"
  /\ UNCHANGED <<pkt_no, at_client, envVars>>

Block ==
  /\ rpc = "block"
  /\ RaiseBlocked
  /\ rpc' = "sleep"
  /\ UNCHANGED <<pkt_no, at_client, envVars>>

\* recvfrom returns a reply.
RecvReply ==
  /\ rpc = "sleep"
  /\ at_client # <<>>
  /\ at_client' = Tail(at_client)
  /\ Wakeup
  /\ rpc' = "count"
  /\ UNCHANGED <<pkt_no, envVars>>

\* Faulty: the next request is sent though the reply has not come.
RecvGivesUp ==
  /\ rpc = "sleep"
  /\ Wakeup
  /\ rpc' = "loop"
  /\ UNCHANGED <<pkt_no, at_client, at_server, spc, peer, extras>>

\* recvfrom fails: the loop goes on with the same number.
RecvFails ==
  /\ rpc = "sleep"
  /\ Plain!Extra
  /\ Wakeup
  /\ rpc' = "loop"
  /\ UNCHANGED <<pkt_no, at_client, at_server, spc, peer>>

\* Faulty: the number is not advanced.
CountLost ==
  /\ rpc = "count"
  /\ Charge("computation")
  /\ UNCHANGED pkt_no
  /\ rpc' = "loop"
  /\ UNCHANGED <<at_client, envVars>>

\* The reply is counted, and the statistics charged as "computation".
Count ==
  /\ rpc = "count"
  /\ Charge("computation")
  /\ pkt_no' = pkt_no + 1
  /\ rpc' = "loop"
  /\ UNCHANGED <<at_client, envVars>>

---------------------------------------------------------------------------------

Server ==
  /\ UNCHANGED <<vars, rpc, pkt_no>>
  /\ Plain!ServerStep

\* The client's main is that of the router; its update_stub too.
Protocol ==
  /\ \/ MainStep
     \/ OpenSockets \/ ReadFirstCommand \/ SendReply \/ ReadGrant \/ TestStop
     \/ SendBlocked
     \/ Ended
  /\ UNCHANGED clientVTVars

ClientStep ==
  Doze \/ Rise \/ Loop \/ FlushBuffer \/ SendRequest \/ Block \/ RecvReply \/ RecvFails \/ Count

ClientNext == Protocol \/ ClientStep \/ Server

\* Both threads are scheduled; no reply need come.
WorkerProtocol ==
  /\ OpenSockets \/ ReadFirstCommand \/ SendReply \/ ReadGrant \/ TestStop \/ SendBlocked
  /\ UNCHANGED clientVTVars

allVars == <<vars, clientVTVars>>

ClientSpec == ClientInit /\ [][ClientNext]_allVars

ClientFairSpec ==
  /\ ClientSpec
  /\ WF_allVars(MainStep /\ UNCHANGED clientVTVars)
  /\ WF_allVars(WorkerProtocol \/ ClientStep)

---------------------------------------------------------------------------------

\* The worker makes no step VTProtocol does not allow.
ProtocolRefined == VTSpec

\* Under virtual time the client is the plain client: whatever rounds end in
\* between, it sends, waits and counts as client_n.c does (the experiments compare
\* the two).
PlainClient == Plain!RRSpec

\* The same of its requests and replies as for the plain client.
BacklogBounded == Plain!BacklogBounded
ReplyAnswersRequest == Plain!ReplyAnswersRequest

\* init_func_times registers the cost of "sendto" (client_n_vt.c:202): sending a
\* request should take that long.  It takes no time, for the name charged is not
\* the name registered.
RequestPaid == [][SendRequest => used' = used + FuncTimes["sendto"]]_allVars

=================================================================================
