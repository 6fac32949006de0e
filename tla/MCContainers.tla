-------------------------------- MODULE MCContainers --------------------------------
(***************************************************************************)
(* Containers for TLC: two buckets, one of them with the names "", poll    *)
(* and recvfrom, the other with send_packet.                               *)
(***************************************************************************)
EXTENDS Containers, TLC

MCLists == {<<"routing_list">>, <<"bucket", 0>>, <<"bucket", 1>>}
MCNames == {<<>>, <<112, 111, 108, 108>>, <<114, 101, 99, 118, 102, 114, 111, 109>>,
            <<115, 101, 110, 100, 95, 112, 97, 99, 107, 101, 116>>}

\* The names under which the programs register their costs: those above, and rawSocket,
\* setPromisc, get_dst_sock_idx, flush_buffer, sendto, computation and fill_buffer, but for
\* intf_name_to_sock_idx, a function without a caller.
Registered ==
  MCNames \cup
  {<<114, 97, 119, 83, 111, 99, 107, 101, 116>>,
   <<115, 101, 116, 80, 114, 111, 109, 105, 115, 99>>,
   <<103, 101, 116, 95, 100, 115, 116, 95, 115, 111, 99, 107, 95, 105, 100, 120>>,
   <<102, 108, 117, 115, 104, 95, 98, 117, 102, 102, 101, 114>>,
   <<115, 101, 110, 100, 116, 111>>,
   <<99, 111, 109, 112, 117, 116, 97, 116, 105, 111, 110>>,
   <<102, 105, 108, 108, 95, 98, 117, 102, 102, 101, 114>>}

ASSUME RegisteredApart == KeysApart(Registered)

\* Only safety is checked.
MCSymmetry == Permutations(Cells) \cup Permutations(Entries) \cup Permutations(Values)
=================================================================================
