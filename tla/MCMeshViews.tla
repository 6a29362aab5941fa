----------------------------- MODULE MCMeshViews ------------------------------
(* Instances of MeshViews: five devices, three router ids. Device 1 is the
   border router. *)
EXTENDS MeshViews, TLC

MCEui == 1 .. 5
MCPartition == {7, 8}

Reading(rssi, lqi, age) == [rssi |-> rssi, lqi |-> lqi, age |-> age, errors |-> FALSE, child |-> FALSE]
Good  == Reading(-55, 3, 0)
Poor  == Reading(-90, 1, 600)
Bare  == Reading(None, None, None)
Child == [Reading(-60, 2, 0) EXCEPT !.child = TRUE]
Far   == [Reading(-84, 1, 1700) EXCEPT !.child = TRUE]
Faint == [Bare EXCEPT !.child = TRUE]
MCPeerRow == {Good, Poor, Bare, Child, Far, Faint}

Calm == [retries |-> <<3, 4>>, moves |-> <<0, 0>>, age |-> 0]
Busy == [retries |-> <<9, 2>>, moves |-> <<1, 5>>, age |-> None]
Torn == [retries |-> <<0, 25>>, moves |-> <<0, 3>>, age |-> 0]
MCCounts == {Calm, Busy, Torn}

Device(e, role, p, rid) ==
  [eui |-> e, border |-> e = 1, role |-> role, partition |-> p, rid |-> rid, hardware |-> None, rank |-> e]

NoRoutes == [p \in Eui \X Eui |-> None]
NoPeers  == [p \in Eui \X Eui |-> None]

Row(cost, nh, established) == [cost |-> cost, nh |-> nh, established |-> established]
MCRouteChange == {None, Row(1, 3, TRUE), Row(2, NoRoute, FALSE)} \cup {Row(2, rid, TRUE) : rid \in {1, 2, 4}}

\* The routing instance: a border router, two routers and an end device that
\* keeps a route; the border role may be missing, two rows may be one device.
RouteNodes ==
  LET network(border, hardware) ==
        <<[Device(1, "router", 7, 1) EXCEPT !.border = border], Device(2, "leader", 7, 2),
          [Device(3, "router", 7, 3) EXCEPT !.hardware = hardware],
          [Device(4, "end", 7, None) EXCEPT !.hardware = hardware]>>
  IN  {network(TRUE, None), network(FALSE, None), network(TRUE, "h")}
RouteInit ==
  /\ nodes \in RouteNodes /\ peer = NoPeers /\ counts = [e \in Eui |-> Calm]
  /\ \E rows \in [{2, 3, 4} -> {None, Row(1, 3, TRUE), Row(2, None, FALSE)} \cup {Row(2, rid, FALSE) : rid \in 1 .. 3}] :
       route = [p \in Eui \X Eui |-> IF p[2] = 1 /\ p[1] \in {2, 3, 4} THEN rows[p[1]] ELSE None]

MCNodeChange ==
  {Device(1, "router", 7, 2), Device(1, "router", 8, 1), Device(2, "leader", 8, 2), Device(3, "router", 7, 4),
   Device(3, "router", 7, None), Device(4, "end", 8, None), Device(2, "router", 7, 3)}

\* The peer graphs: every graph of five good routers, and four routers with
\* edges of every quality and an end device at one of them.
Pairs(n) == {p \in (1 .. n) \X (1 .. n) : p[1] < p[2]}
FiveRouters ==
  /\ nodes = [i \in 1 .. 5 |-> Device(i, "router", 7, None)] /\ counts = [e \in Eui |-> Calm]
  /\ \E edges \in SUBSET Pairs(5) :
       peer = [p \in Eui \X Eui |-> IF p \in edges THEN Good ELSE None]
FourRouters ==
  \E load \in MCCounts, mixed \in BOOLEAN, p \in {7, 8}, kind \in [Pairs(4) -> {"none", "good", "poor"}] :
    LET order == IF load = Busy THEN <<5, 4, 3, 2, 1>> ELSE <<1, 2, 3, 4, 5>>
        first(k)  == IF k = "good" THEN Good ELSE IF k = "poor" THEN Poor ELSE None
        second(k) == IF ~mixed THEN first(k) ELSE IF k = "good" THEN Poor ELSE IF k = "poor" THEN Bare ELSE None
    IN  /\ mixed => p = 7 /\ load = Calm
        /\ p = 8 => load = Calm
        /\ nodes = [i \in 1 .. 5 |-> Device(order[i], IF order[i] # 5 THEN "router" ELSE IF mixed THEN "end" ELSE "sleepy",
                                            IF order[i] = 4 THEN p ELSE 7, None)]
        /\ counts = [e \in Eui |-> load]
        /\ peer = [q \in Eui \X Eui |->
             IF q = <<4, 5>> THEN (IF mixed THEN Far ELSE IF load = Torn THEN Faint ELSE Child)
             ELSE IF q \in Pairs(4) THEN first(kind[q])
             ELSE IF <<q[2], q[1]>> \in Pairs(4) THEN second(kind[<<q[2], q[1]>>])
             ELSE None]
PeerInit == route = NoRoutes /\ (FiveRouters \/ FourRouters)

MCInit == (RouteInit \/ PeerInit) /\ ViewsInit

\* A health request is between two reads, and the tables are the calm ones of
\* four good routers of one partition, joined in pairs at least, and their
\* sleepy child; a write ends that.
Between ==
  /\ scan.pc \notin {"idle", "done"} /\ dfs = NoDfs
  /\ \A e \in Eui : counts[e] = Calm
  /\ nodes[1].eui = 1 /\ \A i \in DOMAIN nodes : nodes[i].partition = 7 /\ nodes[i].rid = None
  /\ peer[<<1, 2>>] = Good /\ peer[<<3, 4>>] = Good
  /\ peer[<<4, 5>>] = Child /\ \A p \in Eui \X Eui : peer[p] \in {None, Good} \/ p = <<4, 5>>

MCPeerChange == {None, Far, Good, Bare}
MCCountsChange == {Torn}

\* A behavior asks one of the two views, and one row changes under it.
MCNext ==
  \/ peer = NoPeers /\ Routing
  \/ peer # NoPeers /\ Diagnosing
  \/ Untouched /\ peer = NoPeers /\ SomeNode
  \/ Between /\ SomeNode /\ nodes'[1].eui \in {2, 4}
  \/ peer = NoPeers /\ Untouched /\ \E from \in {2, 3, 4} : SomeRoute(from, 1)
  \/ Between /\ SomePeer(4, 5)
  \/ Between /\ SomePeer(3, 5)
  \/ Between /\ SomeCounts(5)

MCSpec == MCInit /\ [][MCNext]_viewVars
=============================================================================
