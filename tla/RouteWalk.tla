------------------------------ MODULE RouteWalk -------------------------------
(***************************************************************************)
(* pipeline/routing.py and the next hops of pipeline/nodes.py: three views *)
(* of the way to the border router.  The walk reads the nodes twice and    *)
(* one route row per hop, each under the lock, with writes in between.     *)
(***************************************************************************)
EXTENDS MeshTables

CONSTANT MaxHops

VARIABLE walk
routeVars == <<walk>>

FindOtbr(ns) ==
  LET border == FirstRow(ns, LAMBDA n : n.border /\ n.partition # None)
  IN  IF border # None THEN border
      ELSE FirstRow(ns, LAMBDA n : n.role = "leader" /\ n.partition # None)

\* _router_id_index: the last row listed wins.
RouterWithId(ns, p, rid) == LastRow(ns, LAMBDA n : n.partition = p /\ n.rid = rid)

Direct(row) == row.cost = 1 /\ row.established

\* Where a row sends: None when no row of the partition has the router id.
Forward(ns, otbr, row) ==
  IF Direct(row) \/ row.nh \in {None, NoRoute, otbr.rid} THEN otbr.eui
  ELSE LET router == RouterWithId(ns, otbr.partition, row.nh)
       IN  IF router = None THEN None ELSE router.eui

NoWalk == [pc |-> "idle"]

\* A request: the nodes are read.
AskRoute(e) ==
  /\ walk = NoWalk
  /\ walk' = [pc |-> "locate", source |-> e, nodes |-> nodes, otbr |-> None,
              hops |-> << >>, issue |-> None, complete |-> FALSE,
              asked |-> [nodes |-> nodes, route |-> route]]

Stop(otbr, hops, issue, complete) ==
  walk' = [walk EXCEPT !.pc = "done", !.otbr = otbr, !.hops = hops, !.issue = issue, !.complete = complete]

\* find_otbr reads the nodes again.
Locate ==
  /\ walk.pc = "locate"
  /\ LET otbr == FindOtbr(nodes)
         row  == RowOf(walk.nodes, walk.source)
     IN  \/ otbr = None /\ Stop(None, << >>, "no_otbr", FALSE)
         \/ otbr # None /\ otbr.eui = walk.source /\ Stop(otbr, <<otbr.eui>>, "self_is_otbr", TRUE)
         \/ /\ otbr # None /\ otbr.eui # walk.source /\ row # None /\ row.partition # otbr.partition
            /\ Stop(otbr, << >>, "different_partition", FALSE)
         \/ /\ otbr # None /\ otbr.eui # walk.source /\ (row # None => row.partition = otbr.partition)
            /\ walk' = [walk EXCEPT !.pc = "hop", !.otbr = otbr, !.hops = <<walk.source>>]

\* The walk goes on from the router `next`; the loop runs MaxHops times.
GoOn(next) ==
  IF Len(walk.hops) = MaxHops
  THEN Stop(walk.otbr, Append(walk.hops, next), "max_hops_exceeded", FALSE)
  ELSE walk' = [walk EXCEPT !.hops = Append(@, next)]

\* The row is read under the lock, one hop at a time.
HopRowOfSource == route[<<walk.source, walk.otbr.eui>>]
HopRow == route[<<Last(walk.hops), walk.otbr.eui>>]

Hop ==
  /\ walk.pc = "hop"
  /\ LET otbr == walk.otbr
         row  == HopRow
         next == Forward(walk.nodes, otbr, row)
     IN  \/ row = None /\ Stop(otbr, walk.hops, "no_route_to_otbr", FALSE)
         \/ /\ row # None
            /\ \/ next = None /\ Stop(otbr, Append(walk.hops, None), "unknown_next_hop", FALSE)
               \/ next # None /\ Contains(walk.hops, next) /\ Stop(otbr, walk.hops, "loop_detected", FALSE)
               \/ next = otbr.eui /\ ~Contains(walk.hops, next) /\ Stop(otbr, Append(walk.hops, next), None, TRUE)
               \/ next \notin {None, otbr.eui} /\ ~Contains(walk.hops, next) /\ GoOn(next)

RouteNext == (\E e \in Eui : AskRoute(e)) \/ Locate \/ Hop

\* _build_next_hop_to_otbr: neither the leader nor the direct link counts.
NextHopToOtbr(ns, rt, e) ==
  LET shown == Collapsed(ns)
      otbr  == FirstRow(shown, LAMBDA n : n.border /\ n.partition # None)
      row   == rt[<<e, otbr.eui>>]
  IN  IF otbr = None \/ e = otbr.eui \/ row = None THEN None
      ELSE IF row.nh \in {None, NoRoute, otbr.rid} THEN otbr.eui
      ELSE LET router == RouterWithId(shown, otbr.partition, row.nh)
           IN  IF router = None THEN None ELSE router.eui

EffectiveRelay(ns, rt, e, to) ==
  LET row    == rt[<<e, to>>]
      self   == RowOf(ns, e)
      router == RouterWithId(ns, IF self = None THEN None ELSE self.partition, row.nh)
  IN  IF row = None \/ row.nh \in {None, NoRoute} \/ router = None THEN None ELSE router.eui
\* list_neighbors_enriched: effective_next_hop_eui64, in the reporter's own
\* partition.
EffectiveNextHop(ns, rt, e, to) ==
  LET row    == rt[<<e, to>>]
      self   == RowOf(ns, e)
      router == RouterWithId(ns, IF self = None THEN None ELSE self.partition, row.nh)
  IN  IF row = None THEN None
      ELSE IF Direct(row) THEN to
      ELSE IF row.nh \in {None, NoRoute} \/ router = None THEN None
      ELSE router.eui

WalkTyped ==
  \/ walk = NoWalk
  \/ /\ walk.pc \in {"locate", "hop", "done"} /\ walk.source \in Eui
     /\ walk.otbr \in NodeRow \cup {None}
     /\ walk.hops \in Seq(Eui \cup {None}) /\ walk.complete \in BOOLEAN
     /\ IsInjective(walk.hops)

\* The way over a table as it stands: who is reached from `e` when every
\* router forwards as its row says.
Reached(ns, rt, otbr, e) ==
  Reach([x \in Eui |-> IF x = otbr.eui \/ rt[<<x, otbr.eui>>] = None THEN {}
                       ELSE {Forward(ns, otbr, rt[<<x, otbr.eui>>])} \ {None}], e)

Verdict(ns, rt, e) ==
  LET otbr == FindOtbr(ns)
      row  == RowOf(ns, e)
      way  == Reached(ns, rt, otbr, e)
  IN  CASE otbr = None                                        -> "no_otbr"
        [] otbr # None /\ e = otbr.eui                        -> "self_is_otbr"
        [] otbr # None /\ e # otbr.eui /\ row # None /\ row.partition # otbr.partition -> "different_partition"
        [] OTHER ->
             IF otbr.eui \in way THEN None
             ELSE IF \E x \in way : rt[<<x, otbr.eui>>] = None THEN "no_route_to_otbr"
             ELSE IF \E x \in way : Forward(ns, otbr, rt[<<x, otbr.eui>>]) = None THEN "unknown_next_hop"
             ELSE "loop_detected"

\* When at most one route row is written during a walk that is not cut off, its
\* answer is the one of the tables before that write or after it: a hop read
\* before and a hop read after never make up a way, a loop or a dead end that was
\* not there.
AnswerIsOfOneTable ==
  walk # NoWalk /\ walk.pc = "done" /\ walk.issue # "max_hops_exceeded" /\ walk.asked.nodes = nodes =>
    walk.issue \in {Verdict(nodes, walk.asked.route, walk.source), Verdict(nodes, route, walk.source)}

\* The three views name the same next hop to the border router, where a row of
\* its partition names a relay, no router id is listed twice and no row is
\* hidden; and a direct link leads the walk and the neighbor view to it.
ViewsAgree ==
  LET otbr    == FindOtbr(nodes)
      members == {e \in Eui : \E i \in DOMAIN nodes : nodes[i].eui = e /\ nodes[i].partition = otbr.partition}
      plain   == /\ otbr # None /\ otbr.border /\ Collapsed(nodes) = nodes
                 /\ \A e, f \in members :
                      e # f /\ RowOf(nodes, e).rid # None => RowOf(nodes, e).rid # RowOf(nodes, f).rid
  IN  plain => \A e \in members \ {otbr.eui} :
        LET row       == route[<<e, otbr.eui>>]
            effective == EffectiveNextHop(nodes, route, e, otbr.eui)
        IN  row # None =>
              /\ Direct(row) => Forward(nodes, otbr, row) = otbr.eui /\ effective = otbr.eui
              /\ ~Direct(row) /\ row.nh \in Rid =>
                   /\ Forward(nodes, otbr, row) = NextHopToOtbr(nodes, route, e)
                   /\ Forward(nodes, otbr, row) = effective
=============================================================================
