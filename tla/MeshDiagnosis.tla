---------------------------- MODULE MeshDiagnosis -----------------------------
(***************************************************************************)
(* network_health.py and the graph facts of pipeline/topology.py: a        *)
(* request reads the tables one after another, twice the nodes and thrice  *)
(* the links, walks the peer graph of each partition for its articulation  *)
(* points, scores and states facts.                                        *)
(***************************************************************************)
EXTENDS MeshTables, MeshScoring

VARIABLES scan, dfs
diagnosisVars == <<scan, dfs>>

\* left: the devices a read is still to be done for.
Idle  == [pc |-> "idle", shown |-> << >>, edges |-> {}, parent |-> << >>, listed |-> << >>,
          kids |-> << >>, left |-> {}, back |-> << >>, counts |-> << >>, graph |-> << >>,
          calls |-> {}, cut |-> {}, health |-> << >>, facts |-> {}, placements |-> {}]
NoDfs == [pc |-> "none"]

Weak(row)  == (row.rssi # None /\ row.rssi < -85) \/ row.errors
Routers(ns) == {e \in Eui : \E i \in DOMAIN ns : ns[i].eui = e /\ ns[i].role \in RouterRoles}
Listed(ns)  == {e \in Eui : \E i \in DOMAIN ns : ns[i].eui = e}
PartitionOf(ns, e) == LET row == RowOf(ns, e) IN IF row = None THEN None ELSE row.partition

\* The rows of one pair of routers are one peer edge: the first listed stays,
\* with its own reading; a child keeps its direction.
Reports(pr, a, b) == pr[<<a, b>>] # None
IsPeer(ns, pr, a, b) == Reports(pr, a, b) /\ {a, b} \subseteq Routers(ns) /\ ~pr[<<a, b>>].child
ClassOf(ns, pr, a, b) ==
  IF IsPeer(ns, pr, a, b) THEN "peer" ELSE IF pr[<<a, b>>].child THEN "child" ELSE "other"
Edges(ns, pr) ==
  {[from |-> p[1], to |-> p[2], class |-> ClassOf(ns, pr, p[1], p[2]), row |-> pr[p]] :
     p \in {q \in Listed(ns) \X Listed(ns) :
              Reports(pr, q[1], q[2]) /\ ~(q[2] < q[1] /\ IsPeer(ns, pr, q[1], q[2]) /\ IsPeer(ns, pr, q[2], q[1]))}}
Peers(edges) == {edge \in edges : edge.class = "peer"}

\* The graph of the given edges inside one partition.
GraphOf(ns, edges, p) ==
  LET inside == {edge \in edges : PartitionOf(ns, edge.from) = p /\ PartitionOf(ns, edge.to) = p}
      ends   == {edge.from : edge \in inside} \cup {edge.to : edge \in inside}
  IN  [v \in ends |-> {w \in ends : \E edge \in inside : {edge.from, edge.to} = {v, w}}]

Claims(pr, e) == {a \in Eui : Reports(pr, a, e) /\ pr[<<a, e>>].child}

\* The last listed reporter that has `e` for a child.
ParentOf(ns, pr, e) ==
  LET claims == Claims(pr, e) \cap Listed(ns) IN IF claims = {} THEN None ELSE Max(claims)

\* build_topology: the nodes, then the links.
ReadTopology ==
  /\ scan.pc = "idle"
  /\ scan' = [scan EXCEPT !.pc = "links", !.shown = Collapsed(nodes)]
  /\ UNCHANGED dfs
ReadLinks ==
  /\ scan.pc = "links"
  /\ scan' = [scan EXCEPT !.pc = "nodes", !.edges = Edges(scan.shown, peer),
                          !.parent = [e \in Eui |-> ParentOf(scan.shown, peer, e)]]
  /\ UNCHANGED dfs

\* list_nodes_enriched: the nodes, with the age of each, ...
ReadNodes ==
  /\ scan.pc = "nodes"
  /\ scan' = [scan EXCEPT !.pc = "parents", !.listed = Collapsed(nodes), !.counts = counts]
  /\ UNCHANGED dfs

\* ... a parent for each device that some router, listed or not, has for a child:
\* the rows come in no order ...
ReadParents ==
  /\ scan.pc = "parents"
  /\ LET claimed == {e \in Eui : Claims(peer, e) # {}}
         asleep  == {e \in Listed(scan.listed) : RowOf(scan.listed, e).role = "sleepy"}
     IN  \E last \in [claimed -> Eui] :
           /\ \A e \in claimed : last[e] \in Claims(peer, e)
           /\ scan' = [scan EXCEPT !.pc = "signals", !.left = asleep \ claimed,
                         !.kids = [e \in Eui |-> IF e \in claimed THEN last[e] ELSE None]]
  /\ UNCHANGED dfs

\* The device whose signal with `e` is best: of those that hear `e`, or if no
\* reading says anything, of those that `e` hears. One of them, if some are equal.
BestReporters(pr, e) ==
  LET hears == [a \in {x \in Eui : Reports(pr, x, e)} |-> pr[<<a, e>>]]
      heard == [a \in {x \in Eui : Reports(pr, e, x)} |-> pr[<<e, a>>]]
      rows  == IF \E a \in DOMAIN hears : hears[a].rssi # None \/ hears[a].lqi # None
               THEN hears ELSE heard
      known == {a \in DOMAIN rows : rows[a].rssi # None}
  IN  {a \in known : \A b \in known : rows[b].rssi <= rows[a].rssi}

\* The first listed of some devices.
FirstOf(ns, S) == ns[Min({i \in DOMAIN ns : ns[i].eui \in S})].eui

\* ... and for a sleepy device that is nobody's child its best reporter.
ReadSignals ==
  /\ scan.pc = "signals" /\ scan.left # {}
  /\ LET e    == FirstOf(scan.listed, scan.left)
         best == BestReporters(peer, e)
     IN  \E parent \in IF best = {} THEN {None} ELSE best :
           scan' = [scan EXCEPT !.left = @ \ {e}, !.kids[e] = parent]
  /\ UNCHANGED dfs

\* Broken: the facts do not ask about three routers.
AskedFromFour(view, graph) == Cardinality(DOMAIN graph) >= (IF view = "health" THEN 1 ELSE 4)

\* The articulation points are asked for once per view and partition; the
\* facts do not ask about fewer than three routers.
Asked(view, graph) == Cardinality(DOMAIN graph) >= (IF view = "health" THEN 1 ELSE 3)

\* The reverse readings; the edges are scored and the graphs are built.
ReadBack ==
  /\ scan.pc = "signals" /\ scan.left = {}
  /\ LET graph == [c \in {"health", "facts"} \X Partition |->
                     GraphOf(IF c[1] = "health" THEN scan.listed ELSE scan.shown, Peers(scan.edges), c[2])]
     IN  scan' = [scan EXCEPT !.pc = "graph", !.back = peer, !.graph = graph, !.left = Listed(scan.listed),
                              !.calls = {c \in DOMAIN graph : Asked(c[1], graph[c])}]
  /\ UNCHANGED dfs

(***************************************************************************)
(* _find_articulation_points, a recursive function: `found` are the        *)
(* discovery times, 0 before; the stack holds the calls of dfs that have   *)
(* not returned. The health score asks before it reads the counters of     *)
(* each device, the facts after.                                           *)
(***************************************************************************)
NextCall ==
  CHOOSE c \in scan.calls : \A d \in scan.calls :
    (c[1] = "health" /\ d[1] = "facts") \/ (c[1] = d[1] /\ c[2] <= d[2])
Call ==
  /\ scan.pc = "graph" /\ dfs = NoDfs /\ scan.calls # {}
  /\ NextCall[1] = "facts" => scan.left = {}
  /\ LET call == NextCall
         zero == [v \in DOMAIN scan.graph[call] |-> 0]
     IN  dfs' = [pc |-> "run", call |-> call, graph |-> scan.graph[call], found |-> zero, low |-> zero,
                 parent |-> [v \in DOMAIN zero |-> None], children |-> zero,
                 looked |-> [v \in DOMAIN zero |-> {}], stack |-> << >>, time |-> 0, cut |-> {}]
  /\ UNCHANGED scan

Discover(v, from) ==
  [dfs EXCEPT !.time = @ + 1, !.found[v] = dfs.time + 1, !.low[v] = dfs.time + 1,
              !.parent[v] = from, !.stack = Append(@, v)]

New == {v \in DOMAIN dfs.graph : dfs.found[v] = 0}

Root ==
  /\ dfs.pc = "run" /\ dfs.stack = << >> /\ New # {}
  /\ dfs' = Discover(Min(New), None)
  /\ UNCHANGED scan

Look ==
  /\ dfs.pc = "run" /\ dfs.stack # << >>
  /\ LET v    == Last(dfs.stack)
         left == dfs.graph[v] \ dfs.looked[v]
         w    == Min(left)
     IN  /\ left # {}
         /\ \/ w \in New
               /\ dfs' = [Discover(w, v) EXCEPT !.looked[v] = @ \cup {w}, !.children[v] = @ + 1]
            \/ w \notin New
               /\ dfs' = [dfs EXCEPT !.looked[v] = @ \cup {w},
                            !.low[v] = IF w = dfs.parent[v] THEN @ ELSE Min({@, dfs.found[w]})]
  /\ UNCHANGED scan

\* Broken: a branch that reaches back to v itself is not cut off by v.
CutsStrictly(d, v, w) ==
  IF d.parent[v] = None THEN d.children[v] > 1 ELSE d.low[w] > d.found[v]

\* What the caller v does when the call for its child w returns.
Cuts(d, v, w) ==
  IF d.parent[v] = None THEN d.children[v] > 1 ELSE d.low[w] >= d.found[v]
Return ==
  /\ dfs.pc = "run" /\ dfs.stack # << >>
  /\ LET w == Last(dfs.stack)
         v == dfs.parent[w]
     IN  /\ dfs.graph[w] = dfs.looked[w]
         /\ dfs' = IF v = None THEN [dfs EXCEPT !.stack = Front(@)]
                   ELSE [dfs EXCEPT !.stack = Front(@), !.low[v] = Min({@, dfs.low[w]}),
                                    !.cut = IF Cuts(dfs, v, w) THEN @ \cup {v} ELSE @]
  /\ UNCHANGED scan

Answer ==
  /\ dfs.pc = "run" /\ dfs.stack = << >> /\ New = {}
  /\ scan' = [scan EXCEPT !.calls = @ \ {dfs.call}, !.cut = @ \cup ({dfs.call} \X dfs.cut)]
  /\ dfs' = NoDfs

\* _counter_deltas of the next device, the samples of both windows at once; its
\* age is that of its row.
ReadCounts ==
  /\ scan.pc = "graph" /\ dfs = NoDfs /\ scan.left # {}
  /\ \A call \in scan.calls : call[1] # "health"
  /\ LET e == FirstOf(scan.listed, scan.left)
     IN  scan' = [scan EXCEPT !.left = @ \ {e}, !.counts[e] = [counts[e] EXCEPT !.age = scan.counts[e].age]]
  /\ UNCHANGED dfs

(***************************************************************************)
(* The scores of build_network_health.                                     *)
(***************************************************************************)
Back(s, edge) == IF Reports(s.back, edge.to, edge.from) THEN s.back[<<edge.to, edge.from>>].rssi ELSE None
ScoreOf(s, edge) == EdgeScore(edge.row, Back(s, edge))

\* The ends of the peer edges of `e` in its own partition, from a score on.
Ends(s, e) == {edge \in Peers(s.edges) : /\ e \in {edge.from, edge.to}
                                         /\ PartitionOf(s.listed, edge.from) \in Partition
                                         /\ PartitionOf(s.listed, edge.from) = PartitionOf(s.listed, edge.to)}
Near(s, e, score) ==
  UNION {{edge.from, edge.to} \ {e} : edge \in {x \in Ends(s, e) : ScoreOf(s, x) >= score}}

IsCut(s, e) == <<<<"health", PartitionOf(s.listed, e)>>, e>> \in s.cut
Strong(s, e) == Cardinality(Near(s, e, 7500))
Target(s) == RouterTarget(Cardinality(Routers(s.listed)))
Alternates(s, e) == Max({0, Cardinality(Near(s, e, Half)) - 1})
Best(s, e) == Max({0} \cup {ScoreOf(s, edge) : edge \in Ends(s, e)})

\* _counter_deltas: nothing from one sample, nor from a counter that was reset.
Delta(samples) ==
  IF samples = None THEN None ELSE IF samples[2] < samples[1] THEN None ELSE samples[2] - samples[1]

RouterHealth(s, e) ==
  RouterScore(Strong(s, e), Alternates(s, e), Best(s, e), Delta(s.counts[e].retries), s.counts[e].age,
              IsCut(s, e), Cardinality(Routers(s.listed)))

RouterWhy(s, e) ==
  RouterReasons(Strong(s, e), Alternates(s, e), Best(s, e), IsCut(s, e), Cardinality(Routers(s.listed)))

\* The parent counts with its score when it is listed before its child.
ListedBefore(s, a, b) ==
  \E i, j \in DOMAIN s.listed : i < j /\ s.listed[i].eui = a /\ s.listed[j].eui = b
LinkToParent(s, e) ==
  LET links == {edge \in s.edges : edge.from = s.kids[e] /\ edge.to = e}
  IN  IF links = {} THEN Half ELSE ScoreOf(s, CHOOSE edge \in links : TRUE)
ParentHealth(s, e) ==
  LET parent == s.kids[e]
  IN  IF parent \in Routers(s.listed) /\ ListedBefore(s, parent, e) THEN RouterHealth(s, parent) ELSE Half
Moves(s, e) == LET moves == Delta(s.counts[e].moves) IN IF moves = None THEN 0 ELSE moves
EndHealth(s, e) ==
  EndScore(LinkToParent(s, e), Moves(s, e), ParentHealth(s, e), Delta(s.counts[e].retries))
EndWhy(s, e) == EndReasons(LinkToParent(s, e), Moves(s, e), ParentHealth(s, e))

Trust(s) ==
  LET unretried(e) == Delta(s.counts[e].retries) = None
      total(S, value(_)) == FoldSet(LAMBDA x, acc : acc + value(x), 0, S)
      listed == Listed(s.listed)
  IN  (total(listed, LAMBDA e : Confidence(IF e \in Routers(s.listed) THEN s.counts[e].age ELSE None,
                                           FALSE, unretried(e)))
         + total(s.edges, LAMBDA edge : Confidence(edge.row.age, Back(s, edge) = None, TRUE)))
        \div Max({1, Cardinality(listed) + Cardinality(s.edges)})

\* The mean of the values of a function.
Mean(f) ==
  LET S == DOMAIN f IN IF S = {} THEN 0 ELSE SumFunctionOnSet(f, S) \div Cardinality(S)

Redundancy(s) == Mean([e \in Routers(s.listed) |-> RouterRedundancy(Strong(s, e), Target(s))])
Health(s) ==
  LET routers == Routers(s.listed)
      listed  == Listed(s.listed)
      score   == [e \in listed |-> IF e \in routers THEN RouterHealth(s, e) ELSE EndHealth(s, e)]
      bottleneck == (Full * Cardinality({e \in routers : IsCut(s, e)})) \div Max({1, Cardinality(routers)})
      split == IF Cardinality({PartitionOf(s.shown, e) : e \in Listed(s.shown)} \ {None}) > 1 THEN Full ELSE 0
  IN  [nodes |-> score,
       why   |-> [e \in listed |-> IF e \in routers THEN RouterWhy(s, e) ELSE EndWhy(s, e)],
       edges |-> [edge \in s.edges |-> EdgeReasons(edge.row, Back(s, edge))],
       network |-> NetworkScore(
         Redundancy(s), Mean([e \in routers |-> RouterPath(Best(s, e), Alternates(s, e)) \div 100]),
         Mean([edge \in {x \in s.edges : x.class # "other"} |-> ScoreOf(s, edge)]),
         Mean(score), bottleneck, split),
       networkWhy |-> NetworkReasons(Redundancy(s), bottleneck, split, Trust(s))]

(***************************************************************************)
(* derive_graph_diagnostics: the kinds of fact, each with the device it    *)
(* names.                                                                  *)
(***************************************************************************)
Members(s, p) == {e \in Listed(s.shown) : PartitionOf(s.shown, e) = p}
Sides(s)      == {p \in Partition : Members(s, p) # {}}

\* One device alone against a partition of several is named.
Stray(s) ==
  LET alone == {p \in Sides(s) : Cardinality(Members(s, p)) = 1}
  IN  IF alone # {} /\ \E p \in Sides(s) : Cardinality(Members(s, p)) >= 2
      THEN Max(Members(s, Min(alone))) ELSE None

Children(s, e) == {c \in Listed(s.shown) : s.parent[c] = e}

\* Counting healthy peers, the partition is not looked at.
PeersOf(s, e) == UNION {{edge.from, edge.to} \ {e} : edge \in {x \in Peers(s.edges) : e \in {x.from, x.to}}}
HealthyPeers(s, e) ==
  UNION {{edge.from, edge.to} \ {e} : edge \in {x \in Peers(s.edges) : e \in {x.from, x.to} /\ ~Weak(x.row)}}
LowDiversity(s) ==
  {e \in Routers(s.shown) : /\ PartitionOf(s.shown, e) \in Partition
                            /\ Cardinality(Members(s, PartitionOf(s.shown, e)) \cap Routers(s.shown)) >= 3
                            /\ Cardinality(HealthyPeers(s, e)) <= 1}
WeakPeerOf(s, e) == \E edge \in Peers(s.edges) : e \in {edge.from, edge.to} /\ Weak(edge.row)

\* The least by (first key, second key, EUI).
Top(S, first(_), second(_)) ==
  CHOOSE e \in S : \A f \in S :
    \/ first(e) < first(f)
    \/ first(e) = first(f) /\ second(e) < second(f)
    \/ first(e) = first(f) /\ second(e) = second(f) /\ e <= f

Degree(s, e) == Cardinality(s.graph[<<"facts", PartitionOf(s.shown, e)>>][e])
Facts(s) ==
  LET fact(kind, S, first(_), second(_)) == IF S = {} THEN {} ELSE {[kind |-> kind, eui |-> Top(S, first, second)]}
      chokes  == {c[2] : c \in {x \in s.cut : x[1][1] = "facts"}}
      parents == {e \in Eui : Cardinality(Children(s, e)) >= 2}
      healthy(e) == Cardinality(HealthyPeers(s, e))
      total(e)   == Cardinality(PeersOf(s, e))
      low == LowDiversity(s)
  IN  (IF Cardinality(Sides(s)) > 1 THEN {[kind |-> "split_mesh", eui |-> Stray(s)]} ELSE {})
      \cup (IF \E edge \in s.edges : Weak(edge.row) THEN {[kind |-> "weak_links", eui |-> None]} ELSE {})
      \cup fact("subtree_dependency", parents, LAMBDA e : 0 - Cardinality(Children(s, e)), LAMBDA e : 0)
      \cup fact("choke_point", chokes, LAMBDA e : 0 - Degree(s, e), LAMBDA e : 0)
      \cup fact("low_path_diversity", low, healthy, total)
      \cup fact("intermediary_router_opportunity", {e \in low : WeakPeerOf(s, e)}, healthy, total)

(***************************************************************************)
(* _placement_candidates: for three kinds of fact a router is proposed     *)
(* near the device they name.  They are listed by score; a set here.       *)
(***************************************************************************)
WeakPeerEdges(s, e) == {edge \in Peers(s.edges) : e \in {edge.from, edge.to} /\ ScoreOf(s, edge) < Half}
Affected(s, e) ==
  {e} \cup PeersOf(s, e) \cup {edge.to : edge \in {x \in s.edges : x.class = "child" /\ x.from = e}}

Placement(s, fact) ==
  LET e       == fact.eui
      known   == e \in Routers(s.listed)
      target  == IF known THEN Target(s) ELSE 1
      strong  == IF known THEN Strong(s, e) ELSE 0
      spare   == known /\ Alternates(s, e) >= 1
      feeble  == known /\ "WEAK_BACKBONE_PATH" \in RouterWhy(s, e)
      weak    == WeakPeerEdges(s, e)
      redundancy == Clamp((Full * (target - strong)) \div target)
      path    == Max({IF spare THEN 3000 ELSE 7000,
                      IF fact.kind = "low_path_diversity" THEN 6000 ELSE 0,
                      IF fact.kind = "intermediary_router_opportunity"
                        THEN 3500 + 1500 * Min({2, Cardinality(weak)}) ELSE 0})
      relief  == Max({IF fact.kind = "choke_point" THEN 7500 ELSE 0, IF feeble THEN 4500 ELSE 0,
                      IF known /\ IsCut(s, e) THEN Full ELSE 0})
  IN  [fact |-> fact,
       affected |-> Affected(s, e),
       score |-> PlacementScore(redundancy, path, relief, Rounded(Full * Cardinality(Affected(s, e)), 6)),
       why |-> Where({<<"ADD_ROUTER_FOR_ALTERNATE_PATH", redundancy >= 2500 \/ path >= Half>>,
                      <<"RELIEVE_BOTTLENECK_ROUTER", relief >= Half>>,
                      <<"REINFORCE_WEAK_BACKBONE_PATH", feeble \/ weak # {}>>})]

Placements(s, facts) ==
  {Placement(s, fact) : fact \in
     {f \in facts : f.kind \in {"intermediary_router_opportunity", "choke_point", "low_path_diversity"}}}

Conclude ==
  /\ scan.pc = "graph" /\ scan.calls = {} /\ scan.left = {} /\ dfs = NoDfs
  /\ LET facts == Facts(scan)
     IN  scan' = [scan EXCEPT !.pc = "done", !.health = Health(scan), !.facts = facts,
                              !.placements = Placements(scan, facts)]
  /\ UNCHANGED dfs

DiagnosisNext ==
  \/ ReadTopology \/ ReadLinks \/ ReadNodes \/ ReadParents \/ ReadSignals \/ ReadBack
  \/ Call \/ Root \/ Look \/ Return \/ Answer \/ ReadCounts \/ Conclude

DiagnosisTyped ==
  /\ scan.pc \in {"idle", "links", "nodes", "parents", "signals", "graph", "done"} /\ dfs.pc \in {"none", "run"}
  /\ dfs # NoDfs => /\ IsInjective(dfs.stack) /\ \A v \in DOMAIN dfs.graph : dfs.low[v] <= dfs.found[v]
                    /\ dfs.time = Cardinality({v \in DOMAIN dfs.graph : dfs.found[v] > 0})

(***************************************************************************)
(* What the answers are worth.                                             *)
(***************************************************************************)
\* v is between two others: without it one cannot be reached from the other.
CutVertices(graph) ==
  LET V == DOMAIN graph
      without(v, x) == Reach([y \in V |-> graph[y] \ {v}], x)
  IN  {v \in V : \E a, b \in V \ {v} : b \in Reach(graph, a) /\ b \notin without(v, a)}

\* The articulation points the search finds in a partition are the routers whose
\* loss separates two others that were connected, no fewer and no more.
ChokePointsAreExact ==
  scan.pc = "done" => \A call \in DOMAIN scan.graph :
    (call[1] = "health" \/ Cardinality(DOMAIN scan.graph[call]) >= 3) =>
      {c[2] : c \in {x \in scan.cut : x[1] = call}} = CutVertices(scan.graph[call])

\* When the healthy peer edges of a partition hang on one router, some fact
\* says so: that there is a choke point, or that the edges around it are weak.
FragilityIsTold ==
  scan.pc = "done" => \A p \in Partition :
    CutVertices(GraphOf(scan.shown, {edge \in Peers(scan.edges) : ~Weak(edge.row)}, p)) # {} =>
      \E fact \in scan.facts : fact.kind \in {"choke_point", "weak_links"}

\* A good band is earned: a router with it has a strong neighbor, and all it
\* should have when the mesh hangs on it; an end device with it has a parent
\* link that is not marginal; a network with it has a third of its redundancy, up
\* to the rounding of the score.
HealthyIsEarned ==
  scan.pc = "done" =>
    /\ \A e \in Listed(scan.listed) : Band(scan.health.nodes[e]) = "healthy" =>
         IF e \in Routers(scan.listed)
         THEN Strong(scan, e) >= (IF IsCut(scan, e) THEN Target(scan) ELSE 1)
         ELSE LinkToParent(scan, e) >= Half
    /\ Band(scan.health.network) = "healthy" => 3 * Redundancy(scan) >= Full - 4

\* A bad band comes with a reason: a router below "watch" and a critical end
\* device say why, whatever the thresholds of scores and reasons make of readings
\* at their edges.
BadIsExplained ==
  scan.pc = "done" => \A e \in Listed(scan.listed) :
    Band(scan.health.nodes[e]) \in
        (IF e \in Routers(scan.listed) THEN {"investigate", "critical"} ELSE {"critical"}) =>
      scan.health.why[e] # {}
=============================================================================
