-------------------------------- MODULE CommandParser --------------------------------
(***************************************************************************)
(* ack_and_get_next_command: main's exchange with TimeKeeper, and the main *)
(* loop that acts on it.  The ioctl replaces the acknowledgement in the    *)
(* buffer by the next command, STOP or a list of tuples |pid,n_insns,      *)
(* which a loop reads one by one.  VTProtocol leaves open what the call    *)
(* returns; here it returns what the text says, while the worker goes on.  *)
(* The router, the client and the server have a copy each.                 *)
(*                                                                         *)
(* A character is a number: a digit itself, the others from 10.  Positions *)
(* count from 0, as in the code.                                           *)
(***************************************************************************)
EXTENDS VTProtocol

CONSTANTS
  Pids, Numerals,  \* the texts of the numbers TimeKeeper sends, as digits
  Tails,           \* what may follow the last tuple
  MaxTuples,
  IntLimit,        \* an int is less than this, 2^31
  Scale            \* instructions in a microsecond, 1000

BAR == 10
COMMA == 11
STOP == 12
NUL == 13

\* No number but a pid is empty, and at most a separator follows the last tuple.
ASSUME ParserAssumption ==
  /\ Pids \subseteq Seq(0..9) /\ Numerals \subseteq Seq(0..9) \ {<<>>}
  /\ Tails \subseteq {<<>>, <<COMMA>>, <<BAR>>}
  /\ MaxTuples \in Nat
  /\ IntLimit \in Nat \ {0} /\ Scale \in Nat \ {0}

VARIABLES
  ppc,                 \* "idle", in the "loop", or "done"
  sent,                \* the tuples of TimeKeeper's command
  nxt_cmd,             \* the text in the buffer
  tail_ptr, new_cmd_pid,
  per_round_advance,   \* at "done", what is returned
  taken                \* history: the tuples read

parserVars == <<ppc, sent, nxt_cmd, tail_ptr, new_cmd_pid, per_round_advance, taken>>

---------------------------------------------------------------------------------
(* Numbers in the text. *)

Char(i) == IF i + 1 \in DOMAIN nxt_cmd THEN nxt_cmd[i + 1] ELSE NUL

\* The first position from i on that holds no digit.
DigitsEnd(i) ==
  CHOOSE j \in i..Len(nxt_cmd) : Char(j) \notin 0..9 /\ \A k \in i..j - 1 : Char(k) \in 0..9

\* The number of a sequence of digits, an unsigned int.
Value(digits) ==
  LET n[k \in 0..Len(digits)] ==
        IF k = 0 THEN 0 ELSE (10 * n[k - 1] + digits[k]) % (2 * IntLimit)
  IN  n[Len(digits)]

str_to_i(i) == Value(SubSeq(nxt_cmd, i + 1, DigitsEnd(i)))

\* Where the next value starts, counted from i, or -1 at the end of the text.
get_next_value(i) ==
  LET j == DigitsEnd(i + 1) IN IF NUL \in {Char(j), Char(j + 1)} THEN -1 ELSE j - i + 1

\* (int) n / Scale, towards 0.
ToAdvance(n) ==
  IF n < IntLimit THEN n \div Scale ELSE -((2 * IntLimit - n) \div Scale)

\* The advances of main are those TimeKeeper may ask for.
ASSUME CommandAssumption ==
  \A d \in Numerals : ToAdvance(Value(d)) >= 0 => ToAdvance(Value(d)) \in Advances

---------------------------------------------------------------------------------

\* Faulty: the bar of the next tuple is skipped.
SkipBar(i, nxt_idx) == nxt_idx + get_next_value(nxt_idx)

\* Where the loop resumes: at the next bar or, after the last tuple, at a digit of
\* its pid, where the next pass ends the loop.
Resume(i, nxt_idx) == nxt_idx + get_next_value(nxt_idx) - 1

\* What get_next_command_tuple(i) returns, and the tuple it stores.
get_next_command_tuple(i) ==
  LET nxt_idx == i + get_next_value(i)
      none(p) == [resume_ptr |-> -1, pid |-> p, n_insns |-> 0]
  IN IF Char(i) = STOP /\ Char(i + 1) = NUL THEN none(-1)
     ELSE IF Char(i) # BAR \/ get_next_value(i) = -1 THEN none(0)
     ELSE [resume_ptr |-> Resume(i, nxt_idx), pid |-> str_to_i(i + 1),
           n_insns |-> str_to_i(nxt_idx)]

---------------------------------------------------------------------------------

ParserInit ==
  /\ ppc = "idle" /\ sent = <<>> /\ nxt_cmd = <<>>
  /\ tail_ptr = 0 /\ new_cmd_pid = 0
  /\ per_round_advance = DefaultAdvance /\ taken = <<>>

TupleText(t) == <<BAR>> \o t.pid \o <<COMMA>> \o t.n_insns

\* The text of the first k tuples.
FirstTuples(tuples) ==
  LET text[k \in 0..Len(tuples)] ==
        IF k = 0 THEN <<>> ELSE text[k - 1] \o TupleText(tuples[k])
  IN  text

Text(tuples, tail) == FirstTuples(tuples)[Len(tuples)] \o tail

\* Main acknowledges the round and the ioctl returns.
Ack ==
  /\ mpc = "ack" /\ ppc = "idle"
  /\ UNCHANGED <<vars, tail_ptr, new_cmd_pid, per_round_advance, taken>>

Tuples == [pid : {d \in Pids : Value(d) # 0}, n_insns : Numerals]

\* The ioctl succeeds and the command is a list of tuples.
GetTuples ==
  /\ Ack
  /\ rounds < MaxRounds
  /\ \E n \in 1..MaxTuples, tail \in Tails :
       /\ sent' \in [1..n -> Tuples]
       /\ nxt_cmd' = Text(sent', tail)
  /\ ppc' = "loop"

GetStop ==
  /\ Ack
  /\ nxt_cmd' = <<STOP>>
  /\ ppc' = "loop"
  /\ UNCHANGED sent

\* The ioctl fails: no command, and the round has the default length.
GetNothing ==
  /\ Ack
  /\ rounds < MaxRounds
  /\ ppc' = "done"
  /\ UNCHANGED <<sent, nxt_cmd>>

\* One pass of the loop that finds a tuple.
TakeTuple ==
  LET t == get_next_command_tuple(tail_ptr) IN
  /\ ppc = "loop" /\ tail_ptr # -1
  /\ t.pid \notin {-1, 0}
  /\ tail_ptr' = t.resume_ptr
  /\ new_cmd_pid' = t.pid
  /\ per_round_advance' = ToAdvance(t.n_insns)
  /\ taken' = Append(taken, <<t.pid, t.n_insns>>)
  /\ UNCHANGED <<vars, ppc, sent, nxt_cmd>>

\* Faulty: a negative advance is returned as it is.
NoTupleAsIs ==
  LET t == get_next_command_tuple(tail_ptr) IN
  /\ ppc = "loop"
  /\ tail_ptr = -1 \/ t.pid \in {-1, 0}
  /\ ppc' = "done"
  /\ tail_ptr' = t.resume_ptr
  /\ new_cmd_pid' = t.pid
  /\ per_round_advance' = IF t.pid = -1 THEN -1 ELSE per_round_advance
  /\ UNCHANGED <<vars, sent, nxt_cmd, taken>>

\* The loop ends; a negative advance is replaced.
NoTuple ==
  LET t == get_next_command_tuple(tail_ptr) IN
  /\ ppc = "loop"
  /\ tail_ptr = -1 \/ t.pid \in {-1, 0}
  /\ ppc' = "done"
  /\ tail_ptr' = t.resume_ptr
  /\ new_cmd_pid' = t.pid
  /\ per_round_advance' =
       IF t.pid = -1 THEN -1
       ELSE IF per_round_advance < 0 THEN DefaultAdvance ELSE per_round_advance
  /\ UNCHANGED <<vars, sent, nxt_cmd, taken>>

\* Main acts on what the call returned; the variables of the call are gone.
Return ==
  /\ ppc = "done"
  /\ IF per_round_advance = -1 THEN TakeStop ELSE TakeCommand(per_round_advance)
  /\ ppc' = "idle" /\ sent' = <<>> /\ nxt_cmd' = <<>>
  /\ tail_ptr' = 0 /\ new_cmd_pid' = 0
  /\ per_round_advance' = DefaultAdvance /\ taken' = <<>>

MainCommand == GetTuples \/ GetStop \/ GetNothing \/ TakeTuple \/ NoTuple \/ Return

MainRest == SendStop \/ FindRunnable \/ FindBlocked \/ SendGrant \/ ReadReply \/ Join

CommandInit == VTInit /\ ParserInit

CommandNext ==
  \/ MainCommand
  \/ (MainRest \/ ThreadStep \/ Wakeup \/ Fail) /\ UNCHANGED parserVars

CommandSpec == CommandInit /\ [][CommandNext]_<<vars, parserVars>>

---------------------------------------------------------------------------------

\* The tuples are read in their order, each once, so that the loop ends, and none is
\* left when it does, though it resumes at positions computed from three helpers
\* (get_next_command_tuple, router_app_vt.c:83).
TuplesInOrder ==
  /\ Len(taken) <= Len(sent)
  /\ \A k \in DOMAIN taken : taken[k] = <<Value(sent[k].pid), Value(sent[k].n_insns)>>
  /\ ppc = "done" => Len(taken) = Len(sent)

\* What TimeKeeper asks for is what main grants: -1 exactly on STOP, and otherwise
\* the time of the last tuple if it fits an int, whatever the text
\* (router_app_vt.c:225 and 233).
Understood ==
  ppc = "done" =>
    /\ (per_round_advance = -1) <=> nxt_cmd = <<STOP>>
    /\ per_round_advance \in Nat \cup {-1}
    /\ sent = <<>> => per_round_advance \in {-1, DefaultAdvance}
    /\ \A n \in {Value(t.n_insns) : t \in {sent[k] : k \in {Len(sent)} \ {0}}} :
         n < IntLimit => per_round_advance = n \div Scale

---------------------------------------------------------------------------------
(***************************************************************************)
(* Why they hold: the loop stands at the bar of the first tuple not yet    *)
(* read, or, after the last one, at a digit of its pid.                    *)
(***************************************************************************)

Start(k) == Len(FirstTuples(sent)[k - 1])

\* The value of the last tuple read, of which the default is the first.
LastAdvance == IF taken = <<>> THEN DefaultAdvance ELSE ToAdvance(Last(taken)[2])

InText ==
  /\ sent \in Seq(Tuples) \ {<<>>}
  /\ \E tail \in Tails : nxt_cmd = Text(sent, tail)

AtTuple ==
  \/ Len(taken) < Len(sent) /\ tail_ptr = Start(Len(taken) + 1)
  \/ taken # <<>> /\ Len(taken) = Len(sent) /\ tail_ptr \in Nat /\ Char(tail_ptr) \in 0..9

InLoop ==
  /\ per_round_advance = LastAdvance
  /\ \/ InText /\ AtTuple
     \/ sent = <<>> /\ nxt_cmd = <<STOP>> /\ tail_ptr = 0

\* The invariant that every step preserves.
ParserInv ==
  /\ ppc \in {"idle", "loop", "done"}
  /\ taken \in Seq(Nat \X Nat) /\ TuplesInOrder
  /\ ppc = "idle" =>
       sent = <<>> /\ nxt_cmd = <<>> /\ tail_ptr = 0 /\ per_round_advance = DefaultAdvance
  /\ ppc = "loop" => InLoop
  /\ Understood /\ (ppc = "done" => per_round_advance \in Advances \cup {-1})

=================================================================================
