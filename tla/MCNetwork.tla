---------------------------------- MODULE MCNetwork ----------------------------------
(***************************************************************************)
(* Network for TLC: the topology and the routes files of the repository,   *)
(* as committed and as an editor may leave them.                           *)
(***************************************************************************)
EXTENDS Network

H(k) == <<"h", k>>
S(k) == <<"s", k>>

MCLinks == <<<<H(1), S(1)>>, <<H(2), S(1)>>, <<S(1), S(2)>>, <<S(2), S(3)>>,
             <<H(3), S(3)>>, <<H(4), S(3)>>>>

Line(ip, intf) == <<ip, "\t", "=>", "\t", intf, "\n">>

Routes(names) == [k \in DOMAIN names |-> Line(Ip(H(k)), names[k])]

\* No newline ends the file of s3.
Committed ==
  (S(1) :> Routes(<<"s1-eth1", "s1-eth2", "s1-eth3", "s1-eth3">>)) @@
  (S(2) :> Routes(<<"s2-eth1", "s2-eth1", "s2-eth2", "s2-eth2">>)) @@
  (S(3) :> [Routes(<<"s3-eth3", "s3-eth3", "s3-eth1", "s3-eth2">>) EXCEPT ![4] = Front(@)])

\* A blank after the interface for h3: s1 sends its packets to h1, s2 back to s1.
TrailingBlank(s) ==
  [Committed EXCEPT ![s][3] = <<"10.0.0.3", " ", "=>", " ", Name(s) \o "-eth2", " ", "\n">>]

\* A blank line at the end of a file, and no line for h1, whose packets come in on the
\* last interface of s2.
BlankLine == [Committed EXCEPT ![S(1)] = Append(@, <<"\n">>), ![S(2)] = Tail(@)]

MCRoutesFiles ==
  [committed |-> Committed, blank_line |-> BlankLine,
   blank_s1 |-> TrailingBlank(S(1)), blank_s2 |-> TrailingBlank(S(2))]

MCFlows == {<<H(1), H(3)>>, <<H(3), H(1)>>, <<H(2), H(3)>>}
=================================================================================
