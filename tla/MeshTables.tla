------------------------------ MODULE MeshTables ------------------------------
(***************************************************************************)
(* The tables the read-only views are computed from: the nodes as          *)
(* list_nodes returns them, the most recently seen one first, the rows of  *)
(* route_table and of neighbor_table, and the two counters of each node    *)
(* that the health score looks at.                                         *)
(***************************************************************************)
EXTENDS Naturals, Integers, Sequences, FiniteSets, SequencesExt, FiniteSetsExt, Absent

CONSTANTS
  Eui,         \* the devices: numbers, because the views sort by EUI; finitely many
  Rid,         \* router ids
  Partition,   \* partition ids: numbers, the facts are derived in their order
  Hardware,    \* vendor, product and serial number of a device
  Cost,        \* path costs
  PeerRow,     \* what a router reports of a neighbor
  Counts,      \* what the counter samples of a node say
  NoRoute      \* NO_ROUTE_RID

VARIABLES nodes, route, peer, counts
tables == <<nodes, route, peer, counts>>

\* Only a sleepy device is given a parent that nobody reports as one.
\* `rank` stands for the order _hardware_identity_rank puts rows in.
NodeRow == [eui : Eui, border : BOOLEAN, role : {"leader", "router", "end", "sleepy"},
            partition : Partition \cup {None}, rid : Rid \cup {None},
            hardware : Hardware \cup {None}, rank : Nat]

\* A row about the destination <<reporter, destination>>.
RouteRow == [cost : Cost, nh : Rid \cup {None, NoRoute}, established : BOOLEAN]

\* A reading of a neighbor, and two samples of a counter: what is not there is None.
PeerReading == [rssi : Int \cup {None}, lqi : Nat \cup {None}, age : Nat \cup {None},
                errors : BOOLEAN, child : BOOLEAN]
CountsReading == [retries : (Nat \X Nat) \cup {None}, moves : (Nat \X Nat) \cup {None},
                  age : Nat \cup {None}]

ASSUME TablesAssumption ==
  /\ Eui \subseteq Nat /\ IsFiniteSet(Eui) /\ Partition \subseteq Nat
  /\ NoRoute \notin Rid /\ NoRoute # None
  /\ PeerRow \subseteq PeerReading /\ Counts \subseteq CountsReading
  /\ None \notin Int /\ None \notin Rid /\ None \notin NodeRow /\ None \notin RouteRow
  /\ None \notin PeerReading /\ None \notin Nat \X Nat

RouterRoles == {"leader", "router"}

TablesTyped ==
  /\ nodes \in Seq(NodeRow) /\ \A i, j \in DOMAIN nodes : nodes[i].eui = nodes[j].eui => i = j
  /\ route \in [Eui \X Eui -> RouteRow \cup {None}]
  /\ peer \in [Eui \X Eui -> PeerRow \cup {None}]
  /\ counts \in [Eui -> Counts]

\* The first and the last row of a list that pass a test.
FirstRow(ns, Test(_)) == LET i == SelectInSeq(ns, Test) IN IF i = 0 THEN None ELSE ns[i]
LastRow(ns, Test(_))  == LET i == SelectLastInSeq(ns, Test) IN IF i = 0 THEN None ELSE ns[i]
RowOf(ns, e) == FirstRow(ns, LAMBDA n : n.eui = e)

\* Of the rows of one physical device the best ranked stays; the first one
\* when two have the same rank.
Twins(ns, n) == {i \in DOMAIN ns : n.hardware # None /\ ns[i].hardware = n.hardware}
Survivor(ns, n) == Min({i \in Twins(ns, n) : \A j \in Twins(ns, n) : ns[j].rank <= ns[i].rank})
Collapsed(ns) ==
  SelectSeq(ns, LAMBDA n : Cardinality(Twins(ns, n)) < 2 \/ n = ns[Survivor(ns, n)])

\* What is reached from `s` in a graph, `next[x]` the neighbors of x.
Reach(next, s) ==
  LET ball[k \in 0 .. Cardinality(DOMAIN next)] ==
        IF k = 0 THEN {s} ELSE LET b == ball[k - 1] IN b \cup UNION {next[x] : x \in b}
  IN  ball[Cardinality(DOMAIN next)]

\* What discovery writes between two reads of a view: the row of a device, of
\* which there is one at most, goes to the front.
SeeNode(row) ==
  /\ nodes' = <<row>> \o RemoveFirstMatch(nodes, LAMBDA n : n.eui = row.eui)
  /\ UNCHANGED <<route, peer, counts>>
SeeRoute(from, to, row) ==
  /\ route' = [route EXCEPT ![<<from, to>>] = row]
  /\ UNCHANGED <<nodes, peer, counts>>
SeePeer(from, to, row) ==
  /\ peer' = [peer EXCEPT ![<<from, to>>] = row]
  /\ UNCHANGED <<nodes, route, counts>>
SeeCounts(e, row) ==
  /\ counts' = [counts EXCEPT ![e] = row]
  /\ UNCHANGED <<nodes, route, peer>>
=============================================================================
