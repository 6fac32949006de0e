-------------------------------- MODULE RouteLookup --------------------------------
(***************************************************************************)
(* The choice of an output interface for a packet, for any routing table:  *)
(* a list of entries [ip_address, output_if], in the order of the lines of *)
(* the routes file.                                                        *)
(***************************************************************************)
EXTENDS Integers, SequencesExt

\* The code's FAIL is no interface; interfaces are numbered from 1.
FAIL == -1

(***************************************************************************)
(* The scan of routing_list does not stop at the first match, so the last  *)
(* matching entry decides.  An entry that names an interface this router   *)
(* does not have sends the packet out of the first interface.              *)
(***************************************************************************)
LookupRoute(routing_list, names, dst) ==
  LET matches == {r \in DOMAIN routing_list : routing_list[r].ip_address = dst}
      dst_intf == routing_list[Max(matches)].output_if
      named == {n \in DOMAIN names : names[n] = dst_intf}
  IN  IF matches = {} THEN FAIL
      ELSE IF named = {} THEN 1
      ELSE Min(named)

=================================================================================
