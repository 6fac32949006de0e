------------------------------- MODULE MCCommandParser -------------------------------
(***************************************************************************)
(* CommandParser for TLC: ints of 6 bits and 10 instructions in a          *)
(* microsecond, so that 4 is less than one, 50 is -14 and makes an advance *)
(* of -1, and 60 is -4.  A call costs two or three, so that a round can    *)
(* end exactly at a charge, be exceeded by one or two, and hold several    *)
(* calls.                                                                  *)
(***************************************************************************)
EXTENDS CommandParser

MCCosts == {2, 3}
MCAdvances == {0, 2, 5}
MCPids == {<<5>>, <<2, 7>>}
MCNumerals == {<<4>>, <<2, 7>>, <<5, 0>>, <<6, 0>>}
MCTails == {<<>>, <<COMMA>>, <<BAR>>}
=================================================================================
