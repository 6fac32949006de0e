--------------------------------- MODULE MCClientVT ---------------------------------
(***************************************************************************)
(* ClientVT for TLC.                                                       *)
(***************************************************************************)
EXTENDS ClientVT

MCAdvances == {3}
MCCosts == {1, 2}
MCFuncTimes == [name \in {"sendto", "flush_buffer", "computation"} |->
                  IF name = "computation" THEN 1 ELSE 2]
=================================================================================
