-------------------------------- MODULE RoundClock --------------------------------
(***************************************************************************)
(* What a program under virtual time promises to TimeKeeper, which paces   *)
(* the experiment: each round it is told to advance by some amount, its    *)
(* virtual clock advances by exactly that amount and by an overshoot that  *)
(* one function call can cause, and the overshoot is what it reports when  *)
(* it asks for the next round.  Nothing advances after the stop command.   *)
(***************************************************************************)
EXTENDS Integers

CONSTANTS
  Advances,   \* the amounts a round may be told to advance by
  Costs       \* the virtual times charged for one call of a function

VARIABLES
  time_elapsed,   \* the program's virtual clock
  ret,            \* the overshoot of the last round, as reported
  stop            \* the experiment has been stopped

clockVars == <<time_elapsed, ret, stop>>

\* A call that began inside the round exceeds it by at most its own cost.
Overshoots == {0} \cup UNION {0..c : c \in Costs}

ClockInit == time_elapsed = 0 /\ ret = 0 /\ stop = 0

Round(a, over) ==
  /\ stop = 0
  /\ time_elapsed' = time_elapsed + a + over
  /\ ret' = over
  /\ UNCHANGED stop

Stop ==
  /\ stop = 0
  /\ stop' = 1
  /\ UNCHANGED <<time_elapsed, ret>>

ClockNext ==
  \/ \E a \in Advances, over \in Overshoots : Round(a, over)
  \/ Stop

ClockSpec == ClockInit /\ [][ClockNext]_clockVars

=================================================================================
