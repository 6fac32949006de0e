-------------------------------- MODULE RouteTable --------------------------------
(***************************************************************************)
(* The static routing table of a router and its interfaces.                *)
(***************************************************************************)
EXTENDS RouteLookup

CONSTANTS
  Routes,       \* routing_list: a sequence of [ip_address, output_if]
  intf_names    \* the names of the router's interfaces, a sequence

\* main refuses to start without an interface.
ASSUME InterfacesAssumption == intf_names \in Seq(STRING) /\ intf_names # <<>>

Interfaces == DOMAIN intf_names

get_dst_sock_idx(dst) == LookupRoute(Routes, intf_names, dst)

=================================================================================
