------------------------------ MODULE MeshViews -------------------------------
(***************************************************************************)
(* The read-only views over the tables: a route walk and a health request, *)
(* each in a thread of its own, while discovery writes.                    *)
(***************************************************************************)
EXTENDS RouteWalk, MeshDiagnosis

CONSTANTS NodeChange, RouteChange, PeerChange, CountsChange   \* the rows discovery may write

ASSUME ChangeAssumption ==
  /\ NodeChange \subseteq NodeRow /\ RouteChange \subseteq RouteRow \cup {None}
  /\ PeerChange \subseteq PeerRow \cup {None} /\ CountsChange \subseteq Counts

viewVars == <<tables, walk, scan, dfs>>

\* The tables may hold any rows when the two requests come.
ViewsInit == TablesTyped /\ walk = NoWalk /\ scan = Idle /\ dfs = NoDfs

Routing    == RouteNext /\ UNCHANGED <<tables, diagnosisVars>>
Diagnosing == DiagnosisNext /\ UNCHANGED <<tables, routeVars>>

SomeNode  == \E row \in NodeChange : SeeNode(row) /\ UNCHANGED <<routeVars, diagnosisVars>>
SomeRoute(from, to) ==
  \E row \in RouteChange : SeeRoute(from, to, row) /\ UNCHANGED <<routeVars, diagnosisVars>>
SomePeer(from, to) ==
  \E row \in PeerChange : SeePeer(from, to, row) /\ UNCHANGED <<routeVars, diagnosisVars>>
SomeCounts(e) == \E row \in CountsChange : SeeCounts(e, row) /\ UNCHANGED <<routeVars, diagnosisVars>>

ViewsNext ==
  \/ Routing \/ Diagnosing \/ SomeNode
  \/ \E from, to \in Eui : SomeRoute(from, to) \/ SomePeer(from, to)
  \/ \E e \in Eui : SomeCounts(e)

ViewsSpec == ViewsInit /\ [][ViewsNext]_viewVars

\* The walk is under way, and the tables are those it started with.
Untouched == walk # NoWalk /\ walk.pc # "done" /\ walk.asked = [nodes |-> nodes, route |-> route]

\* ... where one row it may read is written under a walk at most, and none after it.
OneWriteSpec == ViewsSpec /\ [][walk = NoWalk \/ Untouched \/ UNCHANGED <<nodes, route>>]_viewVars

\* The tables hold rows, a walk does not visit a device twice, and the search
\* keeps its bookkeeping.
ViewsTyped == TablesTyped /\ WalkTyped /\ DiagnosisTyped
=============================================================================
