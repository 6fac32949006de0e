--------------------------------- MODULE MCServerVT ---------------------------------
(***************************************************************************)
(* ServerVT for TLC.                                                       *)
(***************************************************************************)
EXTENDS ServerVT

MCAdvances == {3}
MCCosts == {1, 2}
MCFuncTimes == [name \in {"sendto", "flush_buffer", "fill_buffer"} |->
                  IF name = "sendto" THEN 1 ELSE 2]
=================================================================================
