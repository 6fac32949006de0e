---------------------------------- MODULE Pipe ----------------------------------
(***************************************************************************)
(* The pipes between the main thread and its worker thread.                *)
(*                                                                         *)
(* pipe_send writes the decimal digits of one integer and nothing else: no *)
(* delimiter, no length.  pipe_read takes whatever the pipe holds and      *)
(* applies atoi to it.  A pipe is the sequence of integers written and not *)
(* yet read; a read empties it.  A read that finds one message returns it; *)
(* a read that finds several returns what atoi makes of their digits run   *)
(* together, so that messages are lost or merged.                          *)
(***************************************************************************)
EXTENDS Integers, SequencesExt

\* #define THREAD_BLOCKED -1
THREAD_BLOCKED == -1

\* #define THREAD_EXITING -2
THREAD_EXITING == -2

pipe_send(pipe, msg) == Append(pipe, msg)

(***************************************************************************)
(* The integer atoi reads when the text of b directly follows that of a: a *)
(* minus sign ends the number, digits lengthen it.                         *)
(***************************************************************************)
Glued(a, b) ==
  LET shift == CHOOSE p \in {10, 100, 1000, 10000} :
                 p > b /\ (p = 10 \/ p \div 10 <= b)
  IN  IF b < 0 THEN a
      ELSE IF a < 0 THEN a * shift - b
      ELSE a * shift + b

\* What pipe_read returns from a non-empty pipe.
pipe_read(pipe) ==
  IF Len(pipe) = 1
  THEN pipe[1]
  ELSE LET number == CHOOSE n \in 1..Len(pipe) :
                       /\ \A k \in 2..n : pipe[k] >= 0
                       /\ n = Len(pipe) \/ pipe[n + 1] < 0
       IN  FoldLeft(Glued, pipe[1], SubSeq(pipe, 2, number))

=================================================================================
