--------------------------------- MODULE MCRouterN ---------------------------------
(***************************************************************************)
(* RouterN for TLC: three interfaces, a destination with a route and one   *)
(* without, and packets without a route on the second interface.           *)
(***************************************************************************)
EXTENDS RouterN

MCIntfNames == <<"s2-eth1", "s2-eth2", "s2-eth3">>
MCRoutes == <<[ip_address |-> "h1", output_if |-> "s2-eth3"]>>
=================================================================================
