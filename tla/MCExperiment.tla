-------------------------------- MODULE MCExperiment --------------------------------
(***************************************************************************)
(* Experiment for TLC: the hosts of the manifests and two of the three     *)
(* switches.                                                               *)
(***************************************************************************)
EXTENDS Experiment

MCHosts == <<"h1", "h3">>
MCSwitches == {"s1", "s2"}
MCModes == {"normal", "VT", "APP_VT", "INS_VT", "unknown"}
=================================================================================
