----------------------------- MODULE VTProtocolProofs -----------------------------
(***************************************************************************)
(* Proofs about VTProtocol, for every set of advances and costs, any       *)
(* number of rounds, and workers that may fail.  Everything rests on       *)
(* TurnInv, which each of the protocol's steps preserves.                  *)
(***************************************************************************)
EXTENDS VTProtocol, FiniteSetTheorems, TLAPS

\* A set of numbers has a least one.  (The intervals from 0 to each of them are finite
\* sets, of which one contains no other strictly.)
LEMMA LeastNumber ==
  ASSUME NEW T \in SUBSET Nat, T # {}
  PROVE  \E m \in T : \A k \in T : m <= k
<1> DEFINE F == {0..n : n \in T}
<1>1. \A n \in T : IsFiniteSet(0..n) /\ 0..n \in SUBSET Nat
  BY FS_Interval
<1>2. F \subseteq FiniteSubsetsOf(Nat) /\ F # {}
  BY <1>1 DEF FiniteSubsetsOf
<1>3. PICK x \in F : \A y \in F : <<y, x>> \notin StrictSubsetOrdering(Nat)
  <2> HIDE DEF F
  <2> QED
    BY <1>2, FS_StrictSubsetOrderingWellFounded, WFMin
<1>4. PICK m \in T : x = 0..m
  OBVIOUS
<1>5. ASSUME NEW k \in T, ~(m <= k) PROVE FALSE
  <2>1. 0..k \subseteq 0..m /\ m \in 0..m /\ m \notin 0..k
    BY <1>5
  <2>2. 0..k \in SUBSET Nat /\ 0..m \in SUBSET Nat /\ 0..k # 0..m
    BY <2>1
  <2>3. <<0..k, 0..m>> \in StrictSubsetOrdering(Nat)
    BY <2>1, <2>2 DEF StrictSubsetOrdering
  <2> QED
    BY <1>3, <1>4, <2>3
<1> QED
  BY <1>5

\* A message written to an empty pipe is what the next read returns
\* (pipe_send, pipe_read).
LEMMA SoleMessage ==
  ASSUME NEW m
  PROVE  pipe_send(<<>>, m) = <<m>> /\ pipe_read(<<m>>) = m /\ <<m>> # <<>>
BY DEF pipe_send, pipe_read

\* The overshoots of a round are naturals (the argument of pipe_send in update_stub).
LEMMA OvershootsNat == Clock!Overshoots \subseteq Nat
BY CostsAssumption DEF Clock!Overshoots

\* A charge that uses up a round overshoots it by no more than the charge.
LEMMA ChargeOvershoots ==
  ASSUME NEW c \in Costs, NEW left \in Nat, left - c <= 0
  PROVE  -(left - c) \in Clock!Overshoots
<1>1. c \in Nat
  BY CostsAssumption
<1>2. -(left - c) \in 0..c
  BY <1>1
<1> QED
  BY <1>2 DEF Clock!Overshoots

\* The invariant holds initially (the first statements of main and of the worker).
LEMMA InitTurnInv == VTInit => TurnInv
BY AdvancesAssumption, MaxRoundsAssumption
   DEF VTInit, TurnInv, TypeOK, Flags, BetweenRounds, Waiting

\* Each step of the main thread preserves the invariant.
LEMMA MainTurnInv ==
  ASSUME TurnInv, MainStep
  PROVE  TurnInv'
<1> USE AdvancesAssumption, MaxRoundsAssumption DEF threadVars, TypeOK, Flags, Waiting, THREAD_BLOCKED, THREAD_EXITING
<1>1. ASSUME NEW a \in Advances, TakeCommand(a) PROVE TurnInv'
  BY <1>1 DEF TakeCommand, TurnInv, BetweenRounds, Granted, UnderWay, Answered
<1>2. CASE TakeStop
  BY <1>2 DEF TakeStop, TurnInv, BetweenRounds, Granted, UnderWay, Answered
<1>3. CASE SendStop
  <2>1. BetweenRounds /\ m2t = <<>>
    BY <1>3 DEF SendStop, TurnInv, BetweenRounds, Granted, UnderWay, Answered
  <2>2. m2t' = <<THREAD_EXITING>>
    BY <1>3, <2>1, SoleMessage DEF SendStop
  <2>3. m2t' \in Seq(Advances \cup {THREAD_EXITING})
    BY <2>2
  <2> QED
    BY <1>3, <2>1, <2>2, <2>3 DEF SendStop, TurnInv, BetweenRounds
<1>4. CASE FindRunnable
  BY <1>4 DEF FindRunnable, TurnInv, BetweenRounds, Granted, UnderWay, Answered
<1>5. CASE FindBlocked
  BY <1>5 DEF FindBlocked, TurnInv, BetweenRounds, Granted, UnderWay, Answered
<1>6. CASE SendGrant
  <2>1. BetweenRounds /\ m2t = <<>> /\ is_blocked = 0 /\ adv \in Advances
    BY <1>6 DEF SendGrant, TurnInv, BetweenRounds, Granted, UnderWay, Answered
  <2>2. m2t' = <<adv>>
    BY <1>6, <2>1, SoleMessage DEF SendGrant
  <2>3. m2t' \in Seq(Advances \cup {THREAD_EXITING})
    BY <2>1, <2>2
  <2> QED
    BY <1>6, <2>1, <2>2, <2>3 DEF SendGrant, TurnInv, BetweenRounds, Granted
<1>7. CASE ReadReply
  <2>1. Answered
    BY <1>7 DEF ReadReply, TurnInv, BetweenRounds, Granted, UnderWay
  <2>2. PICK answer \in Clock!Overshoots \cup {THREAD_BLOCKED} :
          /\ t2m = <<answer>>
          /\ used + idle =
               time_elapsed + adv + (IF answer = THREAD_BLOCKED THEN 0 ELSE answer)
    BY <2>1 DEF Answered
  <2>3. pipe_read(t2m) = answer
    BY <2>2, SoleMessage
  <2>4. answer \in Nat \/ answer = THREAD_BLOCKED
    BY OvershootsNat
  <2>5. adv \in Nat /\ time_elapsed \in Nat /\ used \in Nat /\ idle \in Nat
    BY <1>7 DEF ReadReply, TurnInv
  <2>6. time_elapsed' = used + idle /\ ret' \in Nat
    BY <2>2, <2>3, <2>4, <2>5, <1>7 DEF ReadReply
  <2> QED
    BY <2>1, <2>6, <1>7 DEF ReadReply, TurnInv, BetweenRounds, Answered
<1>8. CASE Join
  BY <1>8 DEF Join, TurnInv, BetweenRounds, Granted, UnderWay, Answered
<1> QED
  BY <1>1, <1>2, <1>3, <1>4, <1>5, <1>6, <1>7, <1>8 DEF MainStep


\* Each step of the worker, its sleep and its failures included, preserves the
\* invariant.
LEMMA WorkerTurnInv ==
  ASSUME TurnInv, ThreadStep \/ Wakeup \/ Fail
  PROVE  TurnInv'
<1> USE AdvancesAssumption, MaxRoundsAssumption
    DEF mainVars, TypeOK, Flags, Waiting, THREAD_BLOCKED, THREAD_EXITING
<1>1. CASE OpenSockets
  BY <1>1 DEF OpenSockets, TurnInv, BetweenRounds, Granted, UnderWay, Answered
<1>2. CASE ReadFirstCommand
  <2>1. BetweenRounds \/ Granted
    BY <1>2 DEF ReadFirstCommand, TurnInv, UnderWay, Answered
  <2>2. CASE BetweenRounds
    <3>1. m2t = <<THREAD_EXITING>>
      BY <1>2, <2>2 DEF ReadFirstCommand, BetweenRounds
    <3>2. curr' = THREAD_EXITING
      BY <1>2, <3>1, SoleMessage DEF ReadFirstCommand
    <3> QED
      BY <1>2, <2>2, <3>2 DEF ReadFirstCommand, TurnInv, BetweenRounds
  <2>3. CASE Granted
    <3>1. curr' = adv
      BY <1>2, <2>3, SoleMessage DEF ReadFirstCommand, Granted
    <3>2. adv \in Nat
      BY <2>3 DEF Granted, TurnInv
    <3> QED
      BY <1>2, <2>3, <3>1, <3>2 DEF ReadFirstCommand, TurnInv, Granted, UnderWay
  <2> QED
    BY <2>1, <2>2, <2>3
<1>3. ASSUME NEW c \in Costs, Call(c) PROVE TurnInv'
  <2>1. UnderWay /\ wpc = "run"
    BY <1>3 DEF Call, TurnInv, BetweenRounds, Granted, Answered
  <2>2. c \in Nat /\ curr \in Nat
    BY <2>1, CostsAssumption DEF UnderWay, TurnInv
  <2>3. curr' = curr - c /\ used' = used + c
    BY <1>3 DEF Call
  <2>4. wpc' = "reply" => -curr' \in Clock!Overshoots
    BY <1>3, <2>2, <2>3, ChargeOvershoots DEF Call
  <2>5. adv \in Int /\ time_elapsed \in Nat /\ used \in Nat /\ idle \in Nat
    BY DEF TurnInv
  <2>6. used' + idle = time_elapsed + adv - curr'
    BY <2>1, <2>2, <2>3, <2>5 DEF UnderWay
  <2> QED
    BY <1>3, <2>1, <2>2, <2>3, <2>4, <2>6 DEF Call, TurnInv, UnderWay
<1>4. CASE CallUncharged
  BY <1>4 DEF CallUncharged, TurnInv, BetweenRounds, Granted, UnderWay, Answered
<1>5. CASE SendReply
  <2>1. UnderWay /\ wpc = "reply"
    BY <1>5 DEF SendReply, TurnInv, BetweenRounds, Granted, Answered
  <2>2. t2m' = <<-curr>> /\ -curr \in Clock!Overshoots
    BY <1>5, <2>1, SoleMessage DEF SendReply, UnderWay
  <2>3. -curr \in Nat
    BY <2>2, OvershootsNat
  <2>4. t2m' \in Seq(Nat \cup {THREAD_BLOCKED})
    BY <2>2, <2>3
  <2>5. adv \in Int /\ time_elapsed \in Nat /\ used \in Nat /\ idle \in Nat /\ curr \in Int
    BY DEF TurnInv
  <2>6. used + idle = time_elapsed + adv + (-curr)
    BY <2>1, <2>5 DEF UnderWay
  <2>7. Answered'
    BY <1>5, <2>1, <2>2, <2>3, <2>6 DEF SendReply, UnderWay, Answered
  <2> QED
    BY <1>5, <2>1, <2>4, <2>7 DEF SendReply, TurnInv
<1>6. CASE ReadGrant
  <2>1. BetweenRounds \/ Granted
    BY <1>6 DEF ReadGrant, TurnInv, UnderWay, Answered
  <2>2. CASE BetweenRounds
    <3>1. m2t = <<THREAD_EXITING>>
      BY <1>6, <2>2 DEF ReadGrant, BetweenRounds
    <3>2. curr' = THREAD_EXITING
      BY <1>6, <3>1, SoleMessage DEF ReadGrant
    <3> QED
      BY <1>6, <2>2, <3>2 DEF ReadGrant, TurnInv, BetweenRounds
  <2>3. CASE Granted
    <3>1. curr' = adv
      BY <1>6, <2>3, SoleMessage DEF ReadGrant, Granted
    <3>2. adv \in Nat
      BY <2>3 DEF Granted, TurnInv
    <3> QED
      BY <1>6, <2>3, <3>1, <3>2 DEF ReadGrant, TurnInv, Granted, UnderWay
  <2> QED
    BY <2>1, <2>2, <2>3
<1>7. CASE TestStop
  BY <1>7 DEF TestStop, TurnInv, BetweenRounds, Granted, UnderWay, Answered
<1>8. CASE RaiseBlocked
  <2>1. UnderWay /\ wpc = "run"
    BY <1>8 DEF RaiseBlocked, TurnInv, BetweenRounds, Granted, Answered
  <2>2. adv \in Int /\ time_elapsed \in Nat /\ used \in Nat /\ idle \in Nat /\ curr \in Nat
    BY <2>1 DEF UnderWay, TurnInv
  <2>3. used + (idle + curr) = time_elapsed + adv
    BY <2>1, <2>2 DEF UnderWay
  <2> QED
    BY <1>8, <2>1, <2>2, <2>3 DEF RaiseBlocked, TurnInv, UnderWay
<1>9. CASE SendBlocked
  <2>1. UnderWay /\ wpc = "notify"
    BY <1>9 DEF SendBlocked, TurnInv, BetweenRounds, Granted, Answered
  <2>2. t2m' = <<THREAD_BLOCKED>>
    BY <1>9, <2>1, SoleMessage DEF SendBlocked, UnderWay
  <2>3. t2m' \in Seq(Nat \cup {THREAD_BLOCKED})
    BY <2>2
  <2>4. used + idle = time_elapsed + adv + 0
    BY <2>1 DEF UnderWay, TurnInv
  <2>5. Answered'
    BY <1>9, <2>1, <2>2, <2>4 DEF SendBlocked, UnderWay, Answered
  <2> QED
    BY <1>9, <2>1, <2>3, <2>5 DEF SendBlocked, TurnInv
<1>10. CASE Wakeup
  <2>1. BetweenRounds \/ Answered
    BY <1>10 DEF Wakeup, TurnInv, Granted, UnderWay
  <2>2. BetweenRounds => BetweenRounds'
    BY <1>10 DEF Wakeup, BetweenRounds
  <2>3. Answered => Answered'
    BY <1>10 DEF Wakeup, Answered
  <2>4. TypeOK' /\ Flags'
    BY <1>10, <2>1 DEF Wakeup, TurnInv, BetweenRounds, Answered
  <2> QED
    BY <2>1, <2>2, <2>3, <2>4 DEF TurnInv
<1>11. CASE Fail
  BY <1>11 DEF Fail, TurnInv, BetweenRounds, Granted, UnderWay, Answered
<1> QED
  BY <1>1, <1>2, <1>3, <1>4, <1>5, <1>6, <1>7, <1>8, <1>9, <1>10, <1>11 DEF ThreadStep


\* A stuttering step preserves the invariant.
LEMMA StutterTurnInv ==
  ASSUME TurnInv, UNCHANGED vars
  PROVE  TurnInv'
BY DEF vars, TurnInv, TypeOK, Flags, BetweenRounds, Granted, UnderWay, Answered

\* The turns alternate in every reachable state: grant, work, answer, account
\* (main's loop with update_stub and the blocking code of the workers).
THEOREM TurnsAlternate == VTSpec => []TurnInv
<1>1. VTInit => TurnInv
  BY InitTurnInv
<1>2. TurnInv /\ [VTNext]_vars => TurnInv'
  BY MainTurnInv, WorkerTurnInv, StutterTurnInv DEF VTNext, Ended
<1> QED
  BY <1>1, <1>2, PTL DEF VTSpec

\* The types of the protocol's variables; ret is never THREAD_BLOCKED when it is
\* reported (ack_and_get_next_command's advance_err).
THEOREM TypeCorrect == VTSpec => []TypeOK
<1>1. TurnInv => TypeOK
  BY DEF TurnInv
<1> QED
  BY <1>1, TurnsAlternate, PTL

\* The pipes hold at most one message between them, so that pipe_read, which
\* cannot tell one message from the next, never has to.
THEOREM Framing == VTSpec => []OneMessage
<1>1. TurnInv => OneMessage
  <2> SUFFICES ASSUME TurnInv PROVE OneMessage
    OBVIOUS
  <2>1. \/ m2t = <<>> /\ t2m = <<>>
        \/ t2m = <<>> /\ \E m : m2t = <<m>>
        \/ m2t = <<>> /\ \E m : t2m = <<m>>
    BY DEF TurnInv, BetweenRounds, Granted, UnderWay, Answered
  <2>2. Len(<<>>) = 0
    OBVIOUS
  <2>3. ASSUME NEW m PROVE Len(<<m>>) = 1
    OBVIOUS
  <2>4. CASE m2t = <<>> /\ t2m = <<>>
    BY <2>4, <2>2 DEF OneMessage
  <2>5. CASE t2m = <<>> /\ \E m : m2t = <<m>>
    <3>1. PICK m : m2t = <<m>>
      BY <2>5
    <3>2. Len(m2t) = 1 /\ Len(t2m) = 0
      BY <2>5, <3>1, <2>2, <2>3
    <3> QED
      BY <3>2 DEF OneMessage
  <2>6. CASE m2t = <<>> /\ \E m : t2m = <<m>>
    <3>1. PICK m : t2m = <<m>>
      BY <2>6
    <3>2. Len(t2m) = 1 /\ Len(m2t) = 0
      BY <2>6, <3>1, <2>2, <2>3
    <3> QED
      BY <3>2 DEF OneMessage
  <2> QED
    BY <2>1, <2>4, <2>5, <2>6
<1> QED
  BY <1>1, TurnsAlternate, PTL

\* Main never grants a round to a worker that sleeps, whatever the interleaving
\* of its test of args.is_blocked with the worker's writes of it.
THEOREM GrantsFindReaders == VTSpec => []GrantFindsReader
<1>1. TurnInv => GrantFindsReader
  BY DEF TurnInv, Flags, BetweenRounds, Granted, UnderWay, Answered, Waiting, GrantFindsReader
<1> QED
  BY <1>1, TurnsAlternate, PTL

\* time_elapsed is the time charged and the time blocked, to the microsecond.
THEOREM ClockExact == VTSpec => []ClockAccounted
<1>1. TurnInv => ClockAccounted
  BY DEF TurnInv, BetweenRounds, Granted, UnderWay, Answered, ClockAccounted
<1> QED
  BY <1>1, TurnsAlternate, PTL

\* After args.stop is set the worker makes no further call.
THEOREM StopIsFinal == VTSpec => []NoCallAfterStop
<1>1. TurnInv => NoCallAfterStop
  BY DEF TurnInv, Flags, BetweenRounds, Granted, UnderWay, Answered, Waiting, NoCallAfterStop
<1> QED
  BY <1>1, TurnsAlternate, PTL


---------------------------------------------------------------------------------
(* The two threads implement the clock TimeKeeper sees. *)

\* A worker step leaves the clock alone.
LEMMA WorkerLeavesClock ==
  ASSUME ThreadStep \/ Wakeup \/ Fail
  PROVE  UNCHANGED Clock!clockVars
BY DEF ThreadStep, Wakeup, Fail, OpenSockets, ReadFirstCommand, Call, CallUncharged,
       SendReply, ReadGrant, TestStop, RaiseBlocked, SendBlocked, mainVars,
       Clock!clockVars

\* A step of main is a round of the clock, its stop, or no step of it.
LEMMA MainStepsClock ==
  ASSUME TurnInv, MainStep
  PROVE  [Clock!ClockNext]_(Clock!clockVars)
<1> USE DEF Clock!clockVars
<1>1. CASE \E a \in Advances : TakeCommand(a)
  BY <1>1 DEF TakeCommand
<1>2. CASE TakeStop
  <2>1. stop = 0
    BY <1>2 DEF TakeStop, TurnInv, TypeOK, Flags
  <2> QED
    BY <1>2, <2>1 DEF TakeStop, Clock!ClockNext, Clock!Stop
<1>3. CASE SendStop \/ FindRunnable \/ SendGrant \/ Join
  BY <1>3 DEF SendStop, FindRunnable, SendGrant, Join
<1>4. CASE FindBlocked
  <2>1. stop = 0 /\ adv \in Advances
    BY <1>4 DEF FindBlocked, TurnInv, TypeOK, Flags
  <2>2. 0 \in Clock!Overshoots
    BY DEF Clock!Overshoots
  <2>3. time_elapsed' = time_elapsed + adv + 0
    BY <1>4, <2>1, AdvancesAssumption DEF FindBlocked, TurnInv, TypeOK
  <2>4. Clock!Round(adv, 0)
    BY <1>4, <2>1, <2>3 DEF FindBlocked, Clock!Round
  <2> QED
    BY <2>1, <2>2, <2>4 DEF Clock!ClockNext
<1>5. CASE ReadReply
  <2>1. Answered /\ stop = 0 /\ adv \in Advances
    BY <1>5 DEF ReadReply, TurnInv, TypeOK, Flags, BetweenRounds, Granted, UnderWay, Answered
  <2>2. PICK answer \in Clock!Overshoots \cup {THREAD_BLOCKED} : t2m = <<answer>>
    BY <2>1 DEF Answered
  <2>3. pipe_read(t2m) = answer
    BY <2>2, SoleMessage
  <2> DEFINE over == IF answer = THREAD_BLOCKED THEN 0 ELSE answer
  <2>4. over \in Clock!Overshoots /\ (answer \in Nat \/ answer = THREAD_BLOCKED)
    BY OvershootsNat DEF Clock!Overshoots
  <2>5. adv \in Nat /\ time_elapsed \in Nat
    BY <2>1, AdvancesAssumption DEF TurnInv, TypeOK
  <2>6. time_elapsed' = time_elapsed + adv + over /\ ret' = over
    BY <1>5, <2>3, <2>4, <2>5 DEF ReadReply, THREAD_BLOCKED
  <2>7. Clock!Round(adv, over)
    BY <1>5, <2>1, <2>6 DEF ReadReply, Clock!Round
  <2> QED
    BY <2>1, <2>4, <2>7 DEF Clock!ClockNext
<1> QED
  BY <1>1, <1>2, <1>3, <1>4, <1>5 DEF MainStep

\* What TimeKeeper sees of the program is RoundClock: each round advances the
\* clock by the amount asked for and the overshoot reported, and the branch of
\* main's loop for a "weird Return" is never taken.
THEOREM ImplementsClock == VTSpec => ClockRefined
<1>1. VTInit => Clock!ClockInit
  BY DEF VTInit, Clock!ClockInit
<1>2. TurnInv /\ [VTNext]_vars => [Clock!ClockNext]_(Clock!clockVars)
  <2>1. UNCHANGED vars => UNCHANGED Clock!clockVars
    BY DEF vars, Clock!clockVars
  <2> QED
    BY <2>1, MainStepsClock, WorkerLeavesClock DEF VTNext, Ended
<1> QED
  BY <1>1, <1>2, TurnsAlternate, PTL DEF VTSpec, ClockRefined, Clock!ClockSpec

---------------------------------------------------------------------------------

\* When every round lasts some time, a worker whose sockets do not fail exits
\* only because the experiment stops (the tests "<= 0" and "< 0" of commands).
THEOREM ExitsOnlyOnStop ==
  ASSUME 0 \notin Advances
  PROVE  VTSpec => []ExitOnlyOnStop
<1>1. VTInit => ExitOnlyOnStop
  BY DEF VTInit, ExitOnlyOnStop
<1>2. TurnInv /\ ExitOnlyOnStop /\ [VTNext]_vars => ExitOnlyOnStop'
  <2> SUFFICES ASSUME TurnInv, ExitOnlyOnStop, [VTNext]_vars, wpc' = "exited", ~MayFail
               PROVE  stop' = 1
    BY DEF ExitOnlyOnStop
  <2>1. stop = 1 => stop' = 1
    BY DEF VTNext, MainStep, ThreadStep, Ended, vars, TakeCommand, TakeStop, SendStop,
           FindRunnable, FindBlocked, SendGrant, ReadReply, Join, OpenSockets,
           ReadFirstCommand, Call, CallUncharged, SendReply, ReadGrant, TestStop,
           RaiseBlocked, SendBlocked, Wakeup, Fail
  <2>2. CASE wpc = "exited"
    BY <2>1, <2>2 DEF ExitOnlyOnStop
  <2>3. CASE wpc # "exited"
    <3>1. ReadFirstCommand \/ ReadGrant \/ TestStop
      BY <2>3 DEF VTNext, MainStep, ThreadStep, Ended, vars, threadVars, TakeCommand,
           TakeStop, SendStop, FindRunnable, FindBlocked, SendGrant, ReadReply, Join,
           OpenSockets, Call, CallUncharged, SendReply, RaiseBlocked, SendBlocked,
           Wakeup, Fail
    <3>2. CASE TestStop
      BY <2>1, <2>3, <3>2 DEF TestStop, TurnInv, TypeOK
    <3>3. CASE ReadFirstCommand \/ ReadGrant
      <4>1. m2t # <<>> /\ curr' = pipe_read(m2t) /\ (curr' < 0 \/ curr' <= 0)
        BY <2>3, <3>3 DEF ReadFirstCommand, ReadGrant
      <4>2. ~Granted
        <5> SUFFICES ASSUME Granted PROVE FALSE
          OBVIOUS
        <5>1. curr' = adv
          BY <4>1, SoleMessage DEF Granted
        <5>2. adv \in Advances
          BY DEF Granted, TurnInv, TypeOK, Flags
        <5> QED
          BY <4>1, <5>1, <5>2, AdvancesAssumption
      <4> QED
        BY <2>1, <4>1, <4>2 DEF TurnInv, Flags, BetweenRounds, UnderWay, Answered
    <3> QED
      BY <3>1, <3>2, <3>3
  <2> QED
    BY <2>2, <2>3
<1> QED
  BY <1>1, <1>2, TurnsAlternate, PTL DEF VTSpec

=================================================================================
