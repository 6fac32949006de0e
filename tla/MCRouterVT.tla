-------------------------------- MODULE MCRouterVT --------------------------------
(***************************************************************************)
(* Instances of RouterVT for TLC: router s1 of the topology cut down to    *)
(* two interfaces.  The table has an entry that a later one overrides, one *)
(* for an interface the router does not have, and none for "unknown".      *)
(***************************************************************************)
EXTENDS RouterVT

MCIntfNames == <<"s1-eth1", "s1-eth2">>

MCRoutes == <<[ip_address |-> "h1", output_if |-> "s1-eth2"],
              [ip_address |-> "h2", output_if |-> "s1-eth2"],
              [ip_address |-> "h1", output_if |-> "s1-eth1"],
              [ip_address |-> "h3", output_if |-> "s1-eth9"]>>

MCAdvances == {5}
\* The shorter round is spent by a single call.
MCShortAdvances == {2, 5}
MCCosts == {2, 3}
MCFuncTimes == [name \in {"poll", "flush_buffer", "recvfrom", "get_dst_sock_idx",
                          "send_packet"} |-> IF name = "poll" THEN 3 ELSE 2]
=================================================================================
