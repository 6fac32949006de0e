---------------------------------- MODULE Topology ----------------------------------
(***************************************************************************)
(* The emulated network as it is set up: AppTopo (apptopo.py) wires the    *)
(* nodes of the manifest, Mininet numbers their interfaces in the order of *)
(* the links, the routers name theirs by the same numbers, and the routes  *)
(* files, written by hand, name them again.                                *)
(*                                                                         *)
(* A node is a kind and a number of one digit.  A line of a file is a      *)
(* sequence of words, blanks and a newline.                                *)
(***************************************************************************)
EXTENDS RouteLookup, FiniteSets, TLC

CONSTANTS
  Links,        \* of the manifest, in its order
  RoutesFiles   \* by some name, routes files: a function from the routers to lines

Nodes == UNION {{l[1], l[2]} : l \in ToSet(Links)}
Hosts == {n \in Nodes : n[1] = "h"}
Switches == Nodes \ Hosts

ASSUME TopologyAssumption ==
  /\ Links \in Seq(({"h", "s"} \X (1..9)) \X ({"h", "s"} \X (1..9)))
  /\ \A l \in ToSet(Links) : l[1] # l[2] /\ (l[1] \in Switches \/ l[2] \in Switches)
  /\ \A h \in Hosts : Cardinality({i \in DOMAIN Links : h \in {Links[i][1], Links[i][2]}}) = 1
  /\ \A files \in DOMAIN RoutesFiles :
       /\ DOMAIN RoutesFiles[files] = Switches
       /\ \A s \in Switches : RoutesFiles[files][s] \in Seq(Seq(STRING))

Name(n) == n[1] \o ToString(n[2])
Ip(h) == "10.0.0." \o ToString(h[2])

---------------------------------------------------------------------------------
(* The wiring. *)

Joins(l, n) == n \in {l[1], l[2]}

\* The members of a set of numbers, in their order.
Position(S, m) == Cardinality({j \in S : j <= m})
Nth(S, k) == CHOOSE m \in S : Position(S, m) = k

HostNumbers == {h[2] : h \in Hosts}

\* The link of each host, in the order of the names of the hosts.
HostLinks ==
  [k \in 1..Cardinality(HostNumbers) |->
     CHOOSE l \in ToSet(Links) : Joins(l, <<"h", Nth(HostNumbers, k)>>)]

SwitchLinks ==
  LET between == {k \in DOMAIN Links : {Links[k][1], Links[k][2]} \subseteq Switches}
  IN  [k \in 1..Cardinality(between) |-> Links[Nth(between, k)]]

\* Faulty: the links in the order of the manifest.
WiringAsListed == Links

\* The order of the calls of addLink: the link of each host, then those between switches.
Wiring == HostLinks \o SwitchLinks

\* The calls that add an interface to a node; addLink numbers them from 1.
LinksOf(n) == {k \in DOMAIN Wiring : Joins(Wiring[k], n)}

\* The neighbours of each node, in the order of its interfaces.
Neighbours ==
  [n \in Nodes |-> [i \in 1..Cardinality(LinksOf(n)) |->
     LET l == Wiring[Nth(LinksOf(n), i)] IN IF l[1] = n THEN l[2] ELSE l[1]]]

\* The interfaces of all nodes.
Ports == UNION {{<<n, i>> : i \in DOMAIN Neighbours[n]} : n \in Nodes}

\* The other end of the link of each interface: of two nodes joined twice, the links
\* are told apart by the order of the calls.
FarEnd ==
  [x \in Ports |->
     LET k == Nth(LinksOf(x[1]), x[2])
         n == Neighbours[x[1]][x[2]]
     IN  <<n, Position(LinksOf(n), k)>>]

\* The address AppTopo gives a host on its one link, two digits for each number.
Mac(h) ==
  "00:00:00:00:0" \o ToString(Neighbours[h][1][2]) \o ":0" \o ToString(h[2])

\* The lines AppTopo writes to the file of the raw client.
ArpFile ==
  {<<Ip(h), " ", "=>", " ", Mac(h), "\n">> : h \in Hosts}

---------------------------------------------------------------------------------
(* The files. *)

Blanks == {" ", "\t"}

WordAt(line, i) ==
  IF i \in DOMAIN line /\ line[i] \notin Blanks \cup {"\n"} THEN line[i] ELSE ""

AfterBlanks(line) == Max({0} \cup {i \in DOMAIN line : line[i] \in Blanks}) + 1

\* Faulty: the word after the first blank.
FirstWordAfter(line) ==
  [ip_address |-> WordAt(line, 1), output_if |-> WordAt(line, 3)]

\* A line becomes an entry whatever it holds: the test of len is on the size of the
\* buffer.  The name is what follows the last blank, "" if nothing does.
ReadLine(line) ==
  [ip_address |-> WordAt(line, 1), output_if |-> WordAt(line, AfterBlanks(line))]

populate_routing_list(lines) == [k \in DOMAIN lines |-> ReadLine(lines[k])]

\* The raw client reads its file in the same way, and then the numbers of the address.
populate_arp_list ==
  {[ip_address |-> ReadLine(line).ip_address, mac |-> ReadLine(line).output_if] :
     line \in ArpFile}

\* The address of a host, if it has an entry.
get_arp_entry(ip) == {entry.mac : entry \in {e \in populate_arp_list : e.ip_address = ip}}

\* VTSwitch.start counts the interfaces, and main names them from 1.
RouterIntfNames ==
  [s \in Switches |-> [i \in DOMAIN Neighbours[s] |-> Name(s) \o "-eth" \o ToString(i)]]

\* Where each router sends a packet to each host.
Output ==
  [files \in DOMAIN RoutesFiles |-> [s \in Switches |-> [h \in Hosts |->
     LookupRoute(populate_routing_list(RoutesFiles[files][s]), RouterIntfNames[s], Ip(h))]]]

=================================================================================
