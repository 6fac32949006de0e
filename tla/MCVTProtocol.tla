------------------------------- MODULE MCVTProtocol -------------------------------
(***************************************************************************)
(* Instances of VTProtocol for TLC.  Amounts are in units of which a call  *)
(* costs two or three, so that a round can end exactly at a charge, be     *)
(* exceeded by one or two, and hold several calls.                         *)
(***************************************************************************)
EXTENDS VTProtocol

MCCosts == {2, 3}
MCAdvances == {1, 4}
MCAdvancesWithZero == {0, 3}
=================================================================================
