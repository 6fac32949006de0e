-------------------------------- MODULE VTProtocol --------------------------------
(***************************************************************************)
(* The virtual time protocol of the three programs built with APP_VT: the  *)
(* router (router_app_vt.c with utils.c), the client (client_n_vt.c) and   *)
(* the server (server_n_vt.c).  Each has two threads.  The main thread     *)
(* asks TimeKeeper for the next round, grants it to the worker thread over *)
(* one pipe and waits on a second pipe for the outcome.  The worker runs   *)
(* the application and, after each call of a function, update_stub charges *)
(* the virtual time registered for that function; the charge that uses up  *)
(* the round reports the overshoot and waits for the next grant.  A worker *)
(* about to block raises is_blocked and reports THREAD_BLOCKED; while the  *)
(* flag is up main lets the rounds pass without it.                        *)
(*                                                                         *)
(* What the application does between two charges is left open: it may call *)
(* any charged function, do something that is not charged, or block.       *)
(* RouterVT fills this in for the router.  A step of a thread touches      *)
(* shared state (a pipe, is_blocked, stop) at most once.                   *)
(***************************************************************************)
EXTENDS Pipe

CONSTANTS
  Advances,         \* what ack_and_get_next_command may return but -1
  DefaultAdvance,   \* its answer when the ioctl fails
  Costs,            \* the *_US values registered by init_func_times
  MaxRounds,        \* the rounds TimeKeeper runs before it must stop
  MayFail           \* sockets may fail to open and poll may return an error

\* (int) n_insns / 1000 may be 0; a negative one is replaced by DefaultAdvance.
ASSUME AdvancesAssumption == Advances \subseteq Nat /\ DefaultAdvance \in Advances
ASSUME CostsAssumption == Costs \subseteq Nat \ {0}
ASSUME MaxRoundsAssumption == MaxRounds \in Nat
ASSUME MayFailAssumption == MayFail \in BOOLEAN

VARIABLES
  mpc,            \* where the main thread is
  adv,            \* main: per_round_advance
  ret,            \* main: ret, what the next ack reports to TimeKeeper
  time_elapsed,   \* main: time_elapsed
  stop,           \* thread_args.stop
  is_blocked,     \* thread_args.is_blocked
  m2t,            \* the pipe fds_main_to_thread
  t2m,            \* the pipe fds_thread_to_main
  wpc,            \* where the worker is with respect to the protocol
  curr,           \* worker: exp_curr_round_time_us
  used,           \* history: virtual time charged to calls so far
  idle,           \* history: virtual time passed while the worker was blocked
  rounds          \* rounds taken from TimeKeeper

mainVars == <<mpc, adv, ret, time_elapsed, rounds>>
threadVars == <<wpc, curr, used>>
vars == <<mpc, adv, ret, time_elapsed, stop, is_blocked, m2t, t2m, wpc, curr, used,
          idle, rounds>>

VTInit ==
  /\ mpc = "ack" /\ adv = DefaultAdvance /\ ret = 0 /\ time_elapsed = 0
  /\ stop = 0 /\ is_blocked = 0 /\ m2t = <<>> /\ t2m = <<>>
  /\ wpc = "start" /\ curr = 0
  /\ used = 0 /\ idle = 0 /\ rounds = 0

---------------------------------------------------------------------------------
(* The main thread. *)

\* ack_and_get_next_command returns a round's advance.
TakeCommand(a) ==
  /\ mpc = "ack"
  /\ rounds < MaxRounds
  /\ mpc' = "test"
  /\ adv' = a
  /\ rounds' = rounds + 1
  /\ UNCHANGED <<ret, time_elapsed, stop, is_blocked, m2t, t2m, threadVars, idle>>

\* ack_and_get_next_command returns -1 and main sets args.stop.
TakeStop ==
  /\ mpc = "ack"
  /\ mpc' = "stopping"
  /\ adv' = -1
  /\ stop' = 1
  /\ UNCHANGED <<ret, time_elapsed, rounds, is_blocked, m2t, t2m, threadVars, idle>>

\* Faulty: only the flag is set, the worker gets no message.
SendStopFlagOnly ==
  /\ mpc = "stopping"
  /\ UNCHANGED m2t
  /\ mpc' = "join"
  /\ UNCHANGED <<adv, ret, time_elapsed, rounds, stop, is_blocked, t2m, threadVars, idle>>

SendStop ==
  /\ mpc = "stopping"
  /\ m2t' = pipe_send(m2t, THREAD_EXITING)
  /\ mpc' = "join"
  /\ UNCHANGED <<adv, ret, time_elapsed, rounds, stop, is_blocked, t2m, threadVars, idle>>

\* if(!args.is_blocked)
FindRunnable ==
  /\ mpc = "test"
  /\ is_blocked = 0
  /\ mpc' = "grant"
  /\ UNCHANGED <<adv, ret, time_elapsed, rounds, stop, is_blocked, m2t, t2m,
                 threadVars, idle>>

\* The worker is still blocked: the round passes without it.
FindBlocked ==
  /\ mpc = "test"
  /\ is_blocked # 0
  /\ mpc' = "ack"
  /\ time_elapsed' = time_elapsed + adv
  /\ ret' = 0
  /\ idle' = idle + adv
  /\ UNCHANGED <<adv, rounds, stop, is_blocked, m2t, t2m, threadVars>>

\* Faulty: main does not wait for the answer.
SendGrantNoWait ==
  /\ mpc = "grant"
  /\ m2t' = pipe_send(m2t, adv)
  /\ mpc' = "ack"
  /\ UNCHANGED <<adv, ret, time_elapsed, rounds, stop, is_blocked, t2m, threadVars, idle>>

SendGrant ==
  /\ mpc = "grant"
  /\ m2t' = pipe_send(m2t, adv)
  /\ mpc' = "wait"
  /\ UNCHANGED <<adv, ret, time_elapsed, rounds, stop, is_blocked, t2m, threadVars, idle>>

\* Faulty: THREAD_BLOCKED stays in ret and the round it ends is not counted.
ReadReplyIgnoresBlock ==
  /\ mpc = "wait"
  /\ t2m # <<>>
  /\ LET answer == pipe_read(t2m)
     IN  /\ time_elapsed' = CASE answer = THREAD_BLOCKED -> time_elapsed
                              [] answer >= 0 -> time_elapsed + answer + adv
                              [] OTHER -> time_elapsed
         /\ ret' = answer
  /\ t2m' = <<>>
  /\ mpc' = "ack"
  /\ UNCHANGED <<adv, rounds, stop, is_blocked, m2t, threadVars, idle>>

\* Main accounts the round by what the worker answered.  An answer that is
\* negative and not THREAD_BLOCKED is the "weird Return" of the code.
ReadReply ==
  /\ mpc = "wait"
  /\ t2m # <<>>
  /\ LET answer == pipe_read(t2m)
     IN  /\ time_elapsed' = CASE answer = THREAD_BLOCKED -> time_elapsed + adv
                              [] answer >= 0 -> time_elapsed + answer + adv
                              [] OTHER -> time_elapsed
         /\ ret' = IF answer >= 0 THEN answer ELSE 0
  /\ t2m' = <<>>
  /\ mpc' = "ack"
  /\ UNCHANGED <<adv, rounds, stop, is_blocked, m2t, threadVars, idle>>

\* pthread_join returns once the worker has exited.
Join ==
  /\ mpc = "join"
  /\ wpc = "exited"
  /\ mpc' = "done"
  /\ UNCHANGED <<adv, ret, time_elapsed, rounds, stop, is_blocked, m2t, t2m,
                 threadVars, idle>>

---------------------------------------------------------------------------------
(* The worker thread. *)

\* The sockets are open: the worker goes to wait for its first command.
OpenSockets ==
  /\ wpc = "start"
  /\ wpc' = "first"
  /\ UNCHANGED <<mainVars, stop, is_blocked, m2t, t2m, curr, used, idle>>

\* update_stub without a function name: only a negative command ends the worker.
ReadFirstCommand ==
  /\ wpc = "first"
  /\ m2t # <<>>
  /\ curr' = pipe_read(m2t)
  /\ m2t' = <<>>
  /\ wpc' = IF curr' < 0 THEN "exited" ELSE "run"
  /\ UNCHANGED <<mainVars, stop, is_blocked, t2m, used, idle>>

\* The worker calls a function registered at cost c and update_stub charges it.
Call(c) ==
  /\ wpc = "run"
  /\ curr' = curr - c
  /\ used' = used + c
  /\ wpc' = IF curr' <= 0 THEN "reply" ELSE "check"
  /\ UNCHANGED <<mainVars, stop, is_blocked, m2t, t2m, idle>>

\* The worker does something that is not charged and comes to a test of stop:
\* the head of its loop, or the return of update_stub for a name not registered.
CallUncharged ==
  /\ wpc = "run"
  /\ wpc' = "check"
  /\ UNCHANGED <<mainVars, stop, is_blocked, m2t, t2m, curr, used, idle>>

\* update_stub at the end of a round reports by how much the round was exceeded.
SendReply ==
  /\ wpc = "reply"
  /\ t2m' = pipe_send(t2m, -curr)
  /\ wpc' = "await"
  /\ UNCHANGED <<mainVars, stop, is_blocked, m2t, curr, used, idle>>

\* Faulty: the overshoot of the last round is taken off the new one as well.
ReadGrantCarriesOver ==
  /\ wpc \in {"await", "resume"}
  /\ m2t # <<>>
  /\ curr' = curr + pipe_read(m2t)
  /\ m2t' = <<>>
  /\ wpc' = IF curr' <= 0 THEN "exited" ELSE "check"
  /\ UNCHANGED <<mainVars, stop, is_blocked, t2m, used, idle>>

\* update_stub takes the next grant; a command that is not positive ends the
\* worker, here and after blocking.
ReadGrant ==
  /\ wpc \in {"await", "resume"}
  /\ m2t # <<>>
  /\ curr' = pipe_read(m2t)
  /\ m2t' = <<>>
  /\ wpc' = IF curr' <= 0 THEN "exited" ELSE "check"
  /\ UNCHANGED <<mainVars, stop, is_blocked, t2m, used, idle>>

\* || arg->stop
TestStop ==
  /\ wpc = "check"
  /\ wpc' = IF stop = 0 THEN "run" ELSE "exited"
  /\ UNCHANGED <<mainVars, stop, is_blocked, m2t, t2m, curr, used, idle>>

\* Faulty: the flag is not raised.
RaiseBlockedNoFlag ==
  /\ wpc = "run"
  /\ UNCHANGED is_blocked
  /\ idle' = idle + curr
  /\ curr' = 0
  /\ wpc' = "notify"
  /\ UNCHANGED <<mainVars, stop, m2t, t2m, used>>

\* About to block: what is left of the round passes idle.
RaiseBlocked ==
  /\ wpc = "run"
  /\ is_blocked' = 1
  /\ idle' = idle + curr
  /\ curr' = 0
  /\ wpc' = "notify"
  /\ UNCHANGED <<mainVars, stop, m2t, t2m, used>>

SendBlocked ==
  /\ wpc = "notify"
  /\ t2m' = pipe_send(t2m, THREAD_BLOCKED)
  /\ wpc' = "asleep"
  /\ UNCHANGED <<mainVars, stop, is_blocked, m2t, curr, used, idle>>

\* What the worker slept for has come.
Wakeup ==
  /\ wpc = "asleep"
  /\ is_blocked' = 0
  /\ wpc' = "resume"
  /\ UNCHANGED <<mainVars, stop, m2t, t2m, curr, used, idle>>

\* rawSocket or poll fails: pthread_exit, and main is told nothing.
Fail ==
  /\ MayFail
  /\ wpc \in {"start", "run", "asleep"}
  /\ wpc' = "exited"
  /\ UNCHANGED <<mainVars, stop, is_blocked, m2t, t2m, curr, used, idle>>

---------------------------------------------------------------------------------

MainStep ==
  \/ \E a \in Advances : TakeCommand(a)
  \/ TakeStop
  \/ SendStop
  \/ FindRunnable
  \/ FindBlocked
  \/ SendGrant
  \/ ReadReply
  \/ Join

\* The steps the worker takes by itself, unlike Wakeup and Fail.
ThreadStep ==
  \/ OpenSockets
  \/ ReadFirstCommand
  \/ \E c \in Costs : Call(c)
  \/ CallUncharged
  \/ SendReply
  \/ ReadGrant
  \/ TestStop
  \/ RaiseBlocked
  \/ SendBlocked

\* The program has ended.
Ended == mpc = "done" /\ UNCHANGED vars

VTNext == MainStep \/ ThreadStep \/ Wakeup \/ Fail \/ Ended

VTSpec == VTInit /\ [][VTNext]_vars

(***************************************************************************)
(* Both threads are scheduled, and TimeKeeper answers each ack.  Every     *)
(* loop of the workers makes a charged call or blocks (poll in the router, *)
(* flush_buffer in the client and the server), so a worker does not stay   *)
(* with uncharged calls for ever: SF(Spend).                               *)
(***************************************************************************)
Spend == RaiseBlocked \/ \E c \in Costs : Call(c)

VTFairSpec ==
  VTSpec /\ WF_vars(MainStep) /\ WF_vars(ThreadStep) /\ SF_vars(Spend)

---------------------------------------------------------------------------------
(* What makes the protocol correct. *)

\* Every variable has its type: main's amounts are naturals but for the -1 of
\* the stop command, and ret, which the next ack reports, is never THREAD_BLOCKED.
TypeOK ==
  /\ mpc \in {"ack", "test", "grant", "wait", "stopping", "join", "done"}
  /\ adv \in Advances \cup {-1}
  /\ ret \in Nat
  /\ time_elapsed \in Nat
  /\ stop \in {0, 1}
  /\ is_blocked \in {0, 1}
  /\ m2t \in Seq(Advances \cup {THREAD_EXITING})
  /\ t2m \in Seq(Nat \cup {THREAD_BLOCKED})
  /\ wpc \in {"start", "first", "run", "check", "reply", "await", "notify", "asleep",
              "resume", "exited"}
  /\ curr \in Int
  /\ used \in Nat
  /\ idle \in Nat
  /\ rounds \in 0..MaxRounds

\* A pipe never holds two messages, whose digits pipe_read could not tell apart,
\* and the two pipes are never in use at once (pipe_send and pipe_read carry no
\* delimiter: the strict alternation of grant and answer is what frames them).
OneMessage == Len(m2t) + Len(t2m) <= 1

\* A granted round always reaches a worker that is at, or on its way to, a read
\* of its pipe, and the flag main tests tells so: main never waits for an answer
\* from a worker that sleeps in poll or recvfrom (the test of args.is_blocked).
GrantFindsReader ==
  mpc = "grant" \/ (mpc = "wait" /\ m2t # <<>>) =>
     is_blocked = 0 /\ wpc \in {"start", "first", "await", "resume", "exited"}

\* Between rounds the virtual clock is exactly the time charged to the calls the
\* worker made and the time it was blocked: nothing is counted twice or lost
\* when a round overshoots, ends in a block, or passes during one (the updates
\* of time_elapsed and the charges of update_stub).
ClockAccounted == mpc # "wait" => time_elapsed = used + idle

\* Once main has set args.stop, the worker makes no further call: the tests of
\* arg->stop that follow update_stub never find a round under way, and the
\* worker ends by the message.
NoCallAfterStop == stop = 1 => wpc \notin {"run", "check", "reply", "notify"}

\* Without a failing socket, the worker exits only because the experiment stops
\* ("Returns -1 if experiment has to be stopped", router_app_vt.c:91).
ExitOnlyOnStop == wpc = "exited" /\ ~MayFail => stop = 1

\* Seen by TimeKeeper, the two threads are a clock that advances by what it is
\* told and the overshoot it reports (main's loop with update_stub).
Clock == INSTANCE RoundClock
ClockRefined == Clock!ClockSpec

\* The one way out of a round without an answer: a socket of a worker that is not
\* asleep fails, and pthread_exit tells main nothing.
FailedAwake == MayFail /\ wpc = "exited" /\ is_blocked = 0

\* Every round main waits for is answered, whether or not packets come, unless a
\* socket fails on a worker that is awake; a poll that fails on a sleeping worker
\* leaves the rounds passing (the blocking read of fds_thread_to_main in main's
\* loop, and pthread_exit at utils.c:710).
RoundAnswered == mpc = "wait" ~> (mpc = "ack" \/ FailedAwake)

\* The stop command brings the program to its end ("STOPPING EXPERIMENT",
\* router_app_vt.c:406, "Waiting for all threads to exit", router_app_vt.c:460).
StopEndsProgram == stop = 1 ~> mpc = "done"

\* It does as long as what a worker sleeps for always comes.
StopEndsWithTraffic == WF_vars(Wakeup) => StopEndsProgram

---------------------------------------------------------------------------------
(***************************************************************************)
(* Why the safety properties hold: whose turn it is.  A round is granted   *)
(* and not yet read, or under way in the worker, or answered and not yet   *)
(* accounted, or there is none and the worker stays where it is; and in    *)
(* each of these the clock lacks exactly what the worker has spent of it.  *)
(***************************************************************************)

\* Where a worker without a round may be.
Waiting == {"start", "first", "await", "asleep", "resume", "exited"}

BetweenRounds ==
  /\ mpc # "wait"
  /\ t2m = <<>>
  /\ m2t = <<>> \/ (m2t = <<THREAD_EXITING>> /\ mpc \in {"join", "done"})
  /\ wpc \in Waiting
  /\ time_elapsed = used + idle

Granted ==
  /\ mpc = "wait"
  /\ t2m = <<>>
  /\ m2t = <<adv>>
  /\ wpc \in Waiting
  /\ is_blocked = 0
  /\ time_elapsed = used + idle

\* A worker that reaches "exited" here has failed or taken the grant for a stop.
UnderWay ==
  /\ mpc = "wait"
  /\ t2m = <<>>
  /\ m2t = <<>>
  /\ wpc \in {"run", "check", "reply", "notify", "exited"}
  /\ wpc \in {"run", "check"} => curr >= 0
  /\ wpc = "reply" => -curr \in Clock!Overshoots
  /\ wpc \in {"run", "check", "reply"} => used + idle = time_elapsed + adv - curr
  /\ wpc = "notify" => used + idle = time_elapsed + adv

Answered ==
  /\ mpc = "wait"
  /\ m2t = <<>>
  /\ wpc \in Waiting \ {"start", "first"}
  /\ \E answer \in Clock!Overshoots \cup {THREAD_BLOCKED} :
       /\ t2m = <<answer>>
       /\ used + idle =
            time_elapsed + adv + (IF answer = THREAD_BLOCKED THEN 0 ELSE answer)

Flags ==
  /\ wpc \in {"notify", "asleep"} => is_blocked = 1
  /\ is_blocked = 1 => wpc \in {"notify", "asleep", "exited"}
  /\ mpc = "grant" => is_blocked = 0
  /\ stop = 1 <=> mpc \in {"stopping", "join", "done"}
  /\ stop = 0 => adv \in Advances

\* The invariant that every step preserves.
TurnInv == TypeOK /\ Flags /\ (BetweenRounds \/ Granted \/ UnderWay \/ Answered)

=================================================================================
