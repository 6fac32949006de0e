---------------------------------- MODULE ServerVT ----------------------------------
(***************************************************************************)
(* The server under virtual time (server_n_vt.c): the loop of the plain    *)
(* server as the worker of VTProtocol, against the client and the network  *)
(* of RequestReply.  It blocks for each request and is charged for filling *)
(* and sending the reply.                                                  *)
(*                                                                         *)
(* rpc names the next call the worker makes once VTProtocol has it at      *)
(* "run".                                                                  *)
(***************************************************************************)
EXTENDS VTProtocol

CONSTANTS
  FuncTimes,   \* the cost of each function the server registers
  MaxExtras, MayLose

ASSUME FuncTimesAssumption ==
  FuncTimes \in [{"sendto", "flush_buffer", "fill_buffer"} -> Costs]
ASSUME NetworkAssumption == MaxExtras \in Nat /\ MayLose \in BOOLEAN

VARIABLES
  rpc,         \* the next call of process_thread
  peer,        \* serverStorage: the last request received, 0 before the first
  at_server,   \* requests on the server's socket
  at_client, cpc, pkt_no, extras   \* the client and the network

serverVTVars == <<rpc, peer, at_server, at_client, cpc, pkt_no, extras>>
envVars == <<at_client, cpc, pkt_no, extras>>
allVars == <<vars, serverVTVars>>

Plain == INSTANCE RequestReply WITH
           spc <- IF rpc \in {"fill", "send"} THEN "send" ELSE "recv"

ServerInit ==
  /\ VTInit
  /\ rpc = "loop" /\ peer = 0 /\ at_server = <<>>
  /\ at_client = <<>> /\ cpc = "send" /\ pkt_no = 0 /\ extras = 0

Charge(name) == Call(FuncTimes[name])

---------------------------------------------------------------------------------

\* The head of the loop, where stop is tested.
Loop ==
  /\ rpc = "loop"
  /\ CallUncharged
  /\ rpc' = "flush"
  /\ UNCHANGED <<peer, at_server, envVars>>

FlushBuffer ==
  /\ rpc = "flush"
  /\ Charge("flush_buffer")
  /\ rpc' = "block"
  /\ UNCHANGED <<peer, at_server, envVars>>

\* Faulty: main is not told that the worker blocks.
BlockSilently ==
  /\ rpc = "block"
  /\ wpc = "run" /\ wpc' = "asleep"
  /\ UNCHANGED <<mainVars, stop, is_blocked, m2t, t2m, curr, used, idle>>
  /\ rpc' = "sleep"
  /\ UNCHANGED <<peer, at_server, envVars>>

Block ==
  /\ rpc = "block"
  /\ RaiseBlocked
  /\ rpc' = "sleep"
  /\ UNCHANGED <<peer, at_server, envVars>>

RecvRequest ==
  /\ rpc = "sleep"
  /\ at_server # <<>>
  /\ at_server' = Tail(at_server)
  /\ peer' = Head(at_server)
  /\ Wakeup
  /\ rpc' = "fill"
  /\ UNCHANGED envVars

\* recvfrom returns -1, which if(nBytes) takes for a request.
RecvFails ==
  /\ rpc = "sleep"
  /\ Plain!Extra
  /\ Wakeup
  /\ rpc' = "fill"
  /\ UNCHANGED <<peer, at_server, at_client, cpc, pkt_no>>

FillBuffer ==
  /\ rpc = "fill"
  /\ Charge("fill_buffer")
  /\ rpc' = "send"
  /\ UNCHANGED <<peer, at_server, envVars>>

\* Faulty: the loop may send the reply again.
SendReplyAgain ==
  /\ rpc = "send"
  /\ IF peer = 0 THEN UNCHANGED <<at_client, extras>>
     ELSE at_client' \in Plain!Arrives(at_client, peer) /\ UNCHANGED extras
  /\ Charge("sendto")
  /\ rpc' \in {"loop", "send"}
  /\ UNCHANGED <<peer, at_server, cpc, pkt_no>>

\* sendto, registered and charged here.
SendToClient ==
  /\ rpc = "send"
  /\ IF peer = 0 THEN UNCHANGED <<at_client, extras>>
     ELSE \/ at_client' \in Plain!Arrives(at_client, peer) /\ UNCHANGED extras
          \/ at_client' = Plain!ArrivesTwice(at_client, peer) /\ Plain!Extra
  /\ Charge("sendto")
  /\ rpc' = "loop"
  /\ UNCHANGED <<peer, at_server, cpc, pkt_no>>

---------------------------------------------------------------------------------

Client ==
  /\ UNCHANGED <<vars, rpc>>
  /\ Plain!ClientStep

\* The server's main is that of the router; its update_stub too.
Protocol ==
  /\ \/ MainStep
     \/ OpenSockets \/ ReadFirstCommand \/ SendReply \/ ReadGrant \/ TestStop
     \/ SendBlocked
     \/ Ended
  /\ UNCHANGED serverVTVars

ServerStep ==
  Loop \/ FlushBuffer \/ Block \/ RecvRequest \/ RecvFails \/ FillBuffer \/ SendToClient

ServerNext == Protocol \/ ServerStep \/ Client

ServerSpec == ServerInit /\ [][ServerNext]_allVars

\* Both threads are scheduled; no request need come.
WorkerProtocol ==
  /\ OpenSockets \/ ReadFirstCommand \/ SendReply \/ ReadGrant \/ TestStop \/ SendBlocked
  /\ UNCHANGED serverVTVars

ServerFairSpec ==
  /\ ServerSpec
  /\ WF_allVars(MainStep /\ UNCHANGED serverVTVars)
  /\ WF_allVars(WorkerProtocol \/ ServerStep)

---------------------------------------------------------------------------------

\* The worker makes no step VTProtocol does not allow.
ProtocolRefined == VTSpec

\* Under virtual time the server is the plain server: it answers each datagram
\* once, whatever rounds end between the request and the reply (server_n.c).
PlainServer == Plain!RRSpec

\* A client of this server has no more replies under way than requests, doubled
\* datagrams and failed receptions account for.
BacklogBounded == Plain!BacklogBounded

=================================================================================
