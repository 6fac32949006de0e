------------------------------ MODULE ServerVTProofs ------------------------------
(***************************************************************************)
(* Proofs about ServerVT, for any costs and any number of datagrams lost,  *)
(* doubled and receptions failed: the server is a worker of VTProtocol and *)
(* implements the plain server, so that what VTProtocolProofs and          *)
(* RequestReplyProofs show holds of it.                                    *)
(***************************************************************************)
EXTENDS ServerVT, VTProtocolProofs

\* The theorems about the plain server, of the state Plain sees.
PlainProofs == INSTANCE RequestReplyProofs WITH
                 spc <- IF rpc \in {"fill", "send"} THEN "send" ELSE "recv"

---------------------------------------------------------------------------------
(* The server as a worker of the protocol. *)

\* Each step of process_thread is one of the protocol, or none.
LEMMA ServerStepsProtocol ==
  ASSUME ServerNext
  PROVE  VTNext \/ UNCHANGED vars
<1> USE DEF VTNext
<1>1. CASE Protocol
  BY <1>1 DEF Protocol, ThreadStep
<1>2. CASE ServerStep
  <2>1. {FuncTimes["flush_buffer"], FuncTimes["fill_buffer"], FuncTimes["sendto"]} \subseteq Costs
    BY FuncTimesAssumption
  <2>2. CASE FlushBuffer \/ FillBuffer \/ SendToClient
    BY <2>1, <2>2 DEF FlushBuffer, FillBuffer, SendToClient, Charge, ThreadStep
  <2>3. CASE Loop \/ Block
    BY <2>3 DEF Loop, Block, ThreadStep
  <2>4. CASE RecvRequest \/ RecvFails
    BY <2>4 DEF RecvRequest, RecvFails
  <2> QED
    BY <1>2, <2>2, <2>3, <2>4 DEF ServerStep
<1>3. CASE Client
  BY <1>3 DEF Client, vars
<1> QED
  BY <1>1, <1>2, <1>3 DEF ServerNext

\* The server's worker makes no step VTProtocol does not allow.
THEOREM ImplementsProtocol == ServerSpec => ProtocolRefined
<1>1. ServerInit => VTInit
  BY DEF ServerInit
<1>2. [ServerNext]_allVars => [VTNext]_vars
  BY ServerStepsProtocol DEF allVars
<1> QED
  BY <1>1, <1>2, PTL DEF ServerSpec, ProtocolRefined, VTSpec

\* So the server's main never grants a round to a server that waits for a request,
\* its clock is exact, and it makes no call after the stop (server_n_vt.c).
THEOREM ServerKeepsTime ==
  ServerSpec => [](GrantFindsReader /\ ClockAccounted /\ NoCallAfterStop)
BY ImplementsProtocol, GrantsFindReaders, ClockExact, StopIsFinal, PTL DEF ProtocolRefined

---------------------------------------------------------------------------------
(* The server under virtual time as the plain server. *)

\* The steps that neither take nor send a datagram are none of the plain server, for
\* which filling the buffer is part of sending it.
LEMMA QuietSteps ==
  ASSUME Loop \/ FlushBuffer \/ Block \/ FillBuffer
  PROVE  UNCHANGED Plain!rrVars
BY DEF Loop, FlushBuffer, Block, FillBuffer, envVars, Plain!rrVars

\* The others are each one call of the plain server.
LEMMA CallSteps ==
  ASSUME RecvRequest \/ RecvFails \/ SendToClient
  PROVE  Plain!ServerStep
<1> USE DEF envVars, Plain!ServerStep, Plain!clientVars, Plain!Extra
<1>1. CASE RecvRequest
  BY <1>1 DEF RecvRequest, Plain!ServerRecv
<1>2. CASE RecvFails
  BY <1>2 DEF RecvFails, Plain!ServerRecvFails
<1>3. CASE SendToClient
  BY <1>3 DEF SendToClient, Plain!ServerSend
<1> QED
  BY <1>1, <1>2, <1>3

\* Whatever rounds end between a request and its reply, the server answers as the
\* plain server does (server_n_vt.c against server_n.c).
THEOREM ImplementsPlain == ServerSpec => PlainServer
<1>1. ServerInit => Plain!RRInit
  BY DEF ServerInit, Plain!RRInit
<1>2. [ServerNext]_allVars => [Plain!ClientStep \/ Plain!ServerStep]_(Plain!rrVars)
  <2>1. UNCHANGED serverVTVars => UNCHANGED Plain!rrVars
    BY DEF serverVTVars, Plain!rrVars
  <2> QED
    BY <2>1, QuietSteps, CallSteps DEF ServerNext, Protocol, ServerStep, Client, allVars
<1> QED
  BY <1>1, <1>2, PTL DEF ServerSpec, PlainServer, Plain!RRSpec

\* The plain server of ServerVT is the one PlainProofs is about.
LEMMA SamePlain == PlainServer <=> PlainProofs!RRSpec
<1>1. Plain!RRInit <=> PlainProofs!RRInit
  BY DEF Plain!RRInit, PlainProofs!RRInit
<1>2. Plain!rrVars = PlainProofs!rrVars /\ Plain!rrVars' = PlainProofs!rrVars'
  BY DEF Plain!rrVars, PlainProofs!rrVars
<1>3. Plain!ClientStep <=> PlainProofs!ClientStep
  BY DEF Plain!ClientStep, PlainProofs!ClientStep, Plain!ClientSend, PlainProofs!ClientSend,
         Plain!ClientRecv, PlainProofs!ClientRecv, Plain!ClientRecvFails,
         PlainProofs!ClientRecvFails, Plain!Arrives, PlainProofs!Arrives,
         Plain!ArrivesTwice, PlainProofs!ArrivesTwice, Plain!Extra, PlainProofs!Extra,
         Plain!serverVars, PlainProofs!serverVars
<1>4. Plain!ServerStep <=> PlainProofs!ServerStep
  BY DEF Plain!ServerStep, PlainProofs!ServerStep, Plain!ServerRecv, PlainProofs!ServerRecv,
         Plain!ServerRecvFails, PlainProofs!ServerRecvFails, Plain!ServerSend,
         PlainProofs!ServerSend, Plain!Arrives, PlainProofs!Arrives, Plain!ArrivesTwice,
         PlainProofs!ArrivesTwice, Plain!Extra, PlainProofs!Extra, Plain!clientVars,
         PlainProofs!clientVars
<1>5. [Plain!ClientStep \/ Plain!ServerStep]_(Plain!rrVars)
        <=> [PlainProofs!ClientStep \/ PlainProofs!ServerStep]_(PlainProofs!rrVars)
  BY <1>2, <1>3, <1>4
<1> QED
  BY <1>1, <1>5, PTL DEF PlainServer, Plain!RRSpec, PlainProofs!RRSpec

\* A client of this server has no more datagrams under way than one of the plain server.
THEOREM ServerBacklog == ServerSpec => []BacklogBounded
<1>1. PlainProofs!BacklogBounded => BacklogBounded
  BY DEF BacklogBounded, Plain!BacklogBounded, Plain!Backlog, PlainProofs!BacklogBounded,
         PlainProofs!Backlog
<1>2. PlainProofs!RRSpec => []PlainProofs!BacklogBounded
  BY PlainProofs!Bounded
<1> QED
  BY <1>1, <1>2, ImplementsPlain, SamePlain, PTL

=================================================================================
