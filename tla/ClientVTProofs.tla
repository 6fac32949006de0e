------------------------------ MODULE ClientVTProofs ------------------------------
(***************************************************************************)
(* Proofs about ClientVT, for any costs and any number of datagrams lost,  *)
(* doubled and receptions failed: the client is a worker of VTProtocol and *)
(* implements the plain client, so that what VTProtocolProofs and          *)
(* RequestReplyProofs show holds of it.                                    *)
(***************************************************************************)
EXTENDS ClientVT, VTProtocolProofs

\* The theorems about the plain client, of the state Plain sees.
PlainProofs == INSTANCE RequestReplyProofs WITH
                 cpc <- IF Waits THEN "recv" ELSE "send",
                 pkt_no <- IF rpc = "count" THEN pkt_no + 1 ELSE pkt_no

---------------------------------------------------------------------------------
(* The client as a worker of the protocol. *)

\* Each step of process_thread is one of the protocol, or none.
LEMMA ClientStepsProtocol ==
  ASSUME ClientNext
  PROVE  VTNext \/ UNCHANGED vars
<1> USE DEF VTNext
<1>1. CASE Protocol
  BY <1>1 DEF Protocol, ThreadStep
<1>2. CASE ClientStep
  <2>1. FuncTimes["flush_buffer"] \in Costs /\ FuncTimes["computation"] \in Costs
    BY FuncTimesAssumption
  <2>2. CASE FlushBuffer \/ Count
    BY <2>1, <2>2 DEF FlushBuffer, Count, Charge, ThreadStep
  <2>3. CASE Loop \/ SendRequest
    BY <2>3 DEF Loop, SendRequest, ThreadStep
  <2>4. CASE Doze \/ Block
    BY <2>4 DEF Doze, Block, ThreadStep
  <2>5. CASE Rise \/ RecvReply \/ RecvFails
    BY <2>5 DEF Rise, RecvReply, RecvFails
  <2> QED
    BY <1>2, <2>2, <2>3, <2>4, <2>5 DEF ClientStep
<1>3. CASE Server
  BY <1>3 DEF Server, vars
<1> QED
  BY <1>1, <1>2, <1>3 DEF ClientNext

\* The client's worker makes no step VTProtocol does not allow.
THEOREM ImplementsProtocol == ClientSpec => ProtocolRefined
<1>1. ClientInit => VTInit
  BY DEF ClientInit
<1>2. [ClientNext]_allVars => [VTNext]_vars
  BY ClientStepsProtocol DEF allVars
<1> QED
  BY <1>1, <1>2, PTL DEF ClientSpec, ProtocolRefined, VTSpec

\* So the client's main never grants a round to a client that waits for its reply,
\* its clock is exact, and it makes no call after the stop (client_n_vt.c).
THEOREM ClientKeepsTime ==
  ClientSpec => [](GrantFindsReader /\ ClockAccounted /\ NoCallAfterStop)
BY ImplementsProtocol, GrantsFindReaders, ClockExact, StopIsFinal, PTL DEF ProtocolRefined

---------------------------------------------------------------------------------
(* The client under virtual time as the plain client. *)

\* The steps of the client that neither send nor take a datagram are none of the
\* plain client: where it waits, and what it has counted, stay as they are.
LEMMA QuietSteps ==
  ASSUME Doze \/ Rise \/ Loop \/ FlushBuffer \/ Block \/ Count
  PROVE  UNCHANGED Plain!rrVars
<1> USE DEF envVars, Plain!rrVars, Waits
<1>1. CASE Doze \/ Rise \/ Loop
  BY <1>1 DEF Doze, Rise, Loop
<1>2. CASE FlushBuffer \/ Block
  BY <1>2 DEF FlushBuffer, Block
<1>3. CASE Count
  BY <1>3 DEF Count
<1> QED
  BY <1>1, <1>2, <1>3

\* The others are each one call of the plain client.
LEMMA CallSteps ==
  ASSUME SendRequest \/ RecvReply \/ RecvFails
  PROVE  Plain!ClientStep
<1> USE DEF envVars, Plain!ClientStep, Plain!serverVars, Plain!Extra, Waits
<1>1. CASE SendRequest
  BY <1>1 DEF SendRequest, Plain!ClientSend
<1>2. CASE RecvReply
  BY <1>2 DEF RecvReply, Plain!ClientRecv
<1>3. CASE RecvFails
  BY <1>3 DEF RecvFails, Plain!ClientRecvFails
<1> QED
  BY <1>1, <1>2, <1>3

\* Whatever rounds end between its calls, the client sends, waits and counts as the
\* plain client does (client_n_vt.c against client_n.c).
THEOREM ImplementsPlain == ClientSpec => PlainClient
<1>1. ClientInit => Plain!RRInit
  BY DEF ClientInit, Plain!RRInit, Waits
<1>2. [ClientNext]_allVars => [Plain!ClientStep \/ Plain!ServerStep]_(Plain!rrVars)
  <2>1. UNCHANGED clientVTVars => UNCHANGED Plain!rrVars
    BY DEF clientVTVars, Plain!rrVars, Waits
  <2> QED
    BY <2>1, QuietSteps, CallSteps DEF ClientNext, Protocol, ClientStep, Server, allVars
<1> QED
  BY <1>1, <1>2, PTL DEF ClientSpec, PlainClient, Plain!RRSpec

\* The plain client of ClientVT is the one PlainProofs is about.
LEMMA SamePlain == PlainClient <=> PlainProofs!RRSpec
<1>1. Plain!RRInit <=> PlainProofs!RRInit
  BY DEF Plain!RRInit, PlainProofs!RRInit
<1>2. Plain!rrVars = PlainProofs!rrVars /\ Plain!rrVars' = PlainProofs!rrVars'
  BY DEF Plain!rrVars, PlainProofs!rrVars
<1>3. Plain!ClientStep <=> PlainProofs!ClientStep
  BY DEF Plain!ClientStep, PlainProofs!ClientStep, Plain!ClientSend, PlainProofs!ClientSend,
         Plain!ClientRecv, PlainProofs!ClientRecv, Plain!ClientRecvFails,
         PlainProofs!ClientRecvFails, Plain!Arrives, PlainProofs!Arrives,
         Plain!ArrivesTwice, PlainProofs!ArrivesTwice, Plain!Extra, PlainProofs!Extra,
         Plain!serverVars, PlainProofs!serverVars
<1>4. Plain!ServerStep <=> PlainProofs!ServerStep
  BY DEF Plain!ServerStep, PlainProofs!ServerStep, Plain!ServerRecv, PlainProofs!ServerRecv,
         Plain!ServerRecvFails, PlainProofs!ServerRecvFails, Plain!ServerSend,
         PlainProofs!ServerSend, Plain!Arrives, PlainProofs!Arrives, Plain!ArrivesTwice,
         PlainProofs!ArrivesTwice, Plain!Extra, PlainProofs!Extra, Plain!clientVars,
         PlainProofs!clientVars
<1>5. [Plain!ClientStep \/ Plain!ServerStep]_(Plain!rrVars)
        <=> [PlainProofs!ClientStep \/ PlainProofs!ServerStep]_(PlainProofs!rrVars)
  BY <1>2, <1>3, <1>4
<1> QED
  BY <1>1, <1>5, PTL DEF PlainClient, Plain!RRSpec, PlainProofs!RRSpec

\* A client under virtual time has no more datagrams under way than the plain one.
THEOREM ClientBacklog == ClientSpec => []BacklogBounded
<1>1. PlainProofs!BacklogBounded => BacklogBounded
  BY DEF BacklogBounded, Plain!BacklogBounded, Plain!Backlog, PlainProofs!BacklogBounded,
         PlainProofs!Backlog
<1>2. PlainProofs!RRSpec => []PlainProofs!BacklogBounded
  BY PlainProofs!Bounded
<1> QED
  BY <1>1, <1>2, ImplementsPlain, SamePlain, PTL

\* Its replies answer its requests as long as those of the plain one do.
THEOREM ClientAnswers == ClientSpec => []ReplyAnswersRequest
<1>1. PlainProofs!ReplyAnswersRequest => ReplyAnswersRequest
  BY DEF ReplyAnswersRequest, Plain!ReplyAnswersRequest, PlainProofs!ReplyAnswersRequest
<1>2. PlainProofs!RRSpec => []PlainProofs!ReplyAnswersRequest
  BY PlainProofs!Answers
<1> QED
  BY <1>1, <1>2, ImplementsPlain, SamePlain, PTL

=================================================================================
