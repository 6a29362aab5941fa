--------------------------- MODULE TopologySnapshot ---------------------------
(***************************************************************************)
(* The topology history: pipeline/topology_snapshot.py over                *)
(* pipeline/topology.py (build_topology) and the table                     *)
(* topology_snapshots of storage/sqlite_store.py.                          *)
(*                                                                         *)
(* A capture runs in a worker thread of the pipeline tick, and the tick of *)
(* the loop can overlap one requested through the API. It reads the nodes, *)
(* then the links, then the newest row, and then inserts its own, each     *)
(* under the store's lock but not together.                                *)
(***************************************************************************)
EXTENDS Integers, Sequences, FiniteSets, FiniteSetsExt

CONSTANTS
  Eui,         \* device addresses, numbered in the order of their text
  Role,        \* routing roles
  Router,      \* ... those of routers
  Capture,     \* captures that may run at the same time
  Loop,        \* ... the one of the pipeline loop
  Heartbeat,   \* SNAPSHOT_HEARTBEAT_MINUTES, in ticks
  None,
  MaxChanges,  \* bound: changes of the tables, and restarts
  MaxTime      \* bound: ticks

ASSUME SnapshotAssumption ==
  /\ Eui \subseteq Nat /\ IsFiniteSet(Eui)
  /\ Router \subseteq Role /\ None \notin Role /\ None \notin Eui
  /\ Loop \in Capture
  /\ Heartbeat \in Nat \ {0} /\ MaxChanges \in Nat /\ MaxTime \in Nat

Pairs == {p \in Eui \X Eui : p[1] # p[2]}
NoLink == "none"

VARIABLES
  nodes,    \* routing role of a node; None: no row, or a phantom
  attached, \* the parent its newest attach event names, while that is fresh
  links,    \* is_child of the neighbor_table row <<reporter, neighbor>>
  rows,     \* topology_snapshots, in the order of captured_at, id
  run,      \* where each capture stands
  clock,
  changes,
  overlapped  \* history: two captures were under way at a time

tables == <<nodes, attached, links>>
vars   == <<nodes, attached, links, rows, run, clock, changes, overlapped>>

IdleRun == [pc |-> "idle", nodes |-> << >>, snap |-> [nodes |-> << >>, links |-> << >>],
            at |-> 0]

Init ==
  /\ nodes \in [Eui -> Role \cup {None}]
  /\ attached \in [Eui -> Eui \cup {None}]
  /\ links \in [Pairs -> {NoLink, "child", "plain"}]
  /\ rows = << >>
  /\ run = [c \in Capture |-> IdleRun]
  /\ clock = 0 /\ changes = 0 /\ overlapped = FALSE
-----------------------------------------------------------------------------
(* build_topology *)

\* Nodes that are no phantoms, with their newest attach event.
Shown == [e \in {e \in Eui : nodes[e] # None} |-> [role |-> nodes[e], attached |-> attached[e]]]

\* Broken: links into hidden nodes stay.
VisibleReporter(shown) == {p \in Pairs : links[p] # NoLink /\ p[1] \in DOMAIN shown}

Visible(shown) == {p \in Pairs : links[p] # NoLink /\ {p[1], p[2]} \subseteq DOMAIN shown}

IsPeer(shown, p) ==
  /\ links[p] = "plain"
  /\ \A e \in {p[1], p[2]} : e \in DOMAIN shown /\ shown[e].role \in Router

\* Two routers that report each other are one edge, the first in the order.
Edges(shown) ==
  LET all == Visible(shown)
  IN {p \in all : ~(/\ p[1] > p[2] /\ <<p[2], p[1]>> \in all
                    /\ IsPeer(shown, p) /\ IsPeer(shown, <<p[2], p[1]>>))}

\* The last reporter that has e as its child, or what the attach event says.
Parent(shown, e) ==
  LET claims == {p[1] : p \in {q \in Visible(shown) : q[2] = e /\ links[q] = "child"}}
  IN IF claims = {} THEN shown[e].attached ELSE Max(claims)

\* What the fingerprint covers; its partitions follow from the nodes.
Topology(shown) ==
  [nodes |-> [e \in DOMAIN shown |-> [role |-> shown[e].role, parent |-> Parent(shown, e)]],
   links |-> [p \in Edges(shown) |-> links[p]]]
-----------------------------------------------------------------------------
(* capture_snapshot *)

\* Broken: the oldest row.
OldestRow(table) == Head(table)

\* get_latest_topology_snapshot
Latest(table) == table[Len(table)]

\* Broken: an unchanged topology is never written again.
RecentAlways(row, at) == TRUE

Recent(row, at) == row.at >= at - Heartbeat

\* Broken: the links are not compared.
UnchangedNodes(c) ==
  /\ rows # << >>
  /\ Latest(rows).snap.nodes = run[c].snap.nodes
  /\ Recent(Latest(rows), run[c].at)

Unchanged(c) ==
  /\ rows # << >>
  /\ Latest(rows).snap = run[c].snap
  /\ Recent(Latest(rows), run[c].at)

\* insert_topology_snapshot: the row goes by its captured_at, then its id.
Insert(table, row) ==
  LET before == {i \in DOMAIN table : table[i].at <= row.at}
      n == Cardinality(before)
  IN SubSeq(table, 1, n) \o <<row>> \o SubSeq(table, n + 1, Len(table))

ReadNodes(c) ==
  /\ run[c].pc = "idle"
  /\ run' = [run EXCEPT ![c] = [IdleRun EXCEPT !.pc = "links", !.nodes = Shown]]
  /\ overlapped' = (overlapped \/ \E d \in Capture \ {c} : run[d].pc # "idle")
  /\ UNCHANGED <<tables, rows, clock, changes>>

ReadLinks(c) ==
  /\ run[c].pc = "links"
  /\ run' = [run EXCEPT ![c] = [IdleRun EXCEPT !.pc = "compare", !.at = clock,
                                               !.snap = Topology(run[c].nodes)]]
  /\ UNCHANGED <<tables, rows, clock, changes, overlapped>>

Compare(c) ==
  /\ run[c].pc = "compare"
  /\ run' = [run EXCEPT ![c] = IF Unchanged(c) THEN IdleRun ELSE [@ EXCEPT !.pc = "insert"]]
  /\ UNCHANGED <<tables, rows, clock, changes, overlapped>>

Write(c) ==
  /\ run[c].pc = "insert"
  /\ rows' = Insert(rows, [at |-> run[c].at, snap |-> run[c].snap])
  /\ run' = [run EXCEPT ![c] = IdleRun]
  /\ UNCHANGED <<tables, clock, changes, overlapped>>

\* The service restarts: captures are gone, the table stays.
Restart ==
  /\ changes < MaxChanges
  /\ run' = [c \in Capture |-> IdleRun]
  /\ changes' = changes + 1
  /\ UNCHANGED <<tables, rows, clock, overlapped>>

\* Discovery rewrites a row.
NodeChanges ==
  /\ changes < MaxChanges
  /\ \E e \in Eui, r \in Role \cup {None} : r # nodes[e] /\ nodes' = [nodes EXCEPT ![e] = r]
  /\ changes' = changes + 1
  /\ UNCHANGED <<attached, links, rows, run, clock, overlapped>>

\* An attach event is ingested, or grows old.
AttachChanges ==
  /\ changes < MaxChanges
  /\ \E e \in Eui : \E a \in (Eui \ {e}) \cup {None} :
       a # attached[e] /\ attached' = [attached EXCEPT ![e] = a]
  /\ changes' = changes + 1
  /\ UNCHANGED <<nodes, links, rows, run, clock, overlapped>>

LinkChanges ==
  /\ changes < MaxChanges
  /\ \E p \in Pairs, k \in {NoLink, "child", "plain"} :
       k # links[p] /\ links' = [links EXCEPT ![p] = k]
  /\ changes' = changes + 1
  /\ UNCHANGED <<nodes, attached, rows, run, clock, overlapped>>

Tick ==
  /\ clock < MaxTime
  /\ clock' = clock + 1
  /\ UNCHANGED <<tables, rows, run, changes, overlapped>>

Proceed(c) == ReadLinks(c) \/ Compare(c) \/ Write(c)

Next ==
  \/ \E c \in Capture : ReadNodes(c) \/ Proceed(c)
  \/ Restart \/ NodeChanges \/ AttachChanges \/ LinkChanges \/ Tick

Spec == Init /\ [][Next]_vars

\* The loop captures again and again, and its captures end.
Fairness == WF_vars(ReadNodes(Loop)) /\ WF_vars(Proceed(Loop))

FairSpec == Spec /\ Fairness
-----------------------------------------------------------------------------
(* diff_topology *)

Common(a, b) == DOMAIN a.nodes \cap DOMAIN b.nodes

\* Broken: a new parent is no change.
ChangedRole(a, b) == {e \in Common(a, b) : a.nodes[e].role # b.nodes[e].role}

ChangedNodes(a, b) == {e \in Common(a, b) : a.nodes[e] # b.nodes[e]}

Diff(a, b) ==
  [added_nodes   |-> {<<e, b.nodes[e]>> : e \in DOMAIN b.nodes \ DOMAIN a.nodes},
   removed_nodes |-> DOMAIN a.nodes \ DOMAIN b.nodes,
   changed_nodes |-> {<<e, b.nodes[e]>> : e \in ChangedNodes(a, b)},
   added_links   |-> {<<p, b.links[p]>> : p \in DOMAIN b.links \ DOMAIN a.links},
   removed_links |-> DOMAIN a.links \ DOMAIN b.links]
-----------------------------------------------------------------------------
(* properties *)

\* The rows are in the order of their capture, and a row and a capture hold
\* what build_topology can return.
TypeOK ==
  /\ \A i, j \in DOMAIN rows : i < j => rows[i].at <= rows[j].at
  /\ \A i \in DOMAIN rows : /\ rows[i].at \in 0 .. clock
                            /\ DOMAIN rows[i].snap.nodes \subseteq Eui
                            /\ DOMAIN rows[i].snap.links \subseteq Pairs
  /\ \A c \in Capture : /\ run[c].pc \in {"idle", "links", "compare", "insert"}
                        /\ run[c].at \in 0 .. clock

\* One row per real change and one per heartbeat: as long as no two captures
\* overlapped, two rows that follow each other differ, or are more than a
\* heartbeat apart (pipeline/topology_snapshot.py:9-13).
Sparse ==
  ~overlapped =>
    \A i \in 1 .. Len(rows) - 1 :
      rows[i].snap = rows[i + 1].snap => rows[i + 1].at > rows[i].at + Heartbeat

\* A capture that ends leaves a row of what it saw that is no older than a
\* heartbeat (pipeline/topology_snapshot.py:13-15), also when the row it
\* relies on was written by another capture meanwhile.
EveryCaptureIsWitnessed ==
  [][\A c \in Capture : (Compare(c) \/ Write(c)) /\ run'[c] = IdleRun
       => \E i \in DOMAIN rows' : /\ rows'[i].snap = run[c].snap
                                  /\ rows'[i].at >= run[c].at - Heartbeat]_vars

\* The graph of a row is coherent, no edge into a node it does not have,
\* although nodes and links are read at different moments.
Coherent ==
  \A i \in DOMAIN rows : \A p \in DOMAIN rows[i].snap.links :
    {p[1], p[2]} \subseteq DOMAIN rows[i].snap.nodes

\* What a diff tells: the nodes and the ends of the edges of the newer row can
\* be told from the older one and the diff. That an edge they share became, or
\* ceased to be, one to a child is in no list, although the docstring of
\* diff_topology promises changed links (topology_snapshot.py:143-145, :191-192):
\* it shows in the child, whose parent is another, unless both rows give it the
\* same one, which another reporter or an attach event then names.
ChangesAreTold ==
  \A i, j \in DOMAIN rows :
    LET a == rows[i].snap
        b == rows[j].snap
        d == Diff(a, b)
        new  == d.added_nodes \cup d.changed_nodes
        told == {n[1] : n \in new}
        kept == DOMAIN a.nodes \ (d.removed_nodes \cup told)
    IN /\ new \cup {<<e, a.nodes[e]>> : e \in kept} = {<<e, b.nodes[e]>> : e \in DOMAIN b.nodes}
       /\ (DOMAIN a.links \ d.removed_links) \cup {l[1] : l \in d.added_links} = DOMAIN b.links
       /\ \A p \in DOMAIN a.links \cap DOMAIN b.links :
            a.links[p] # b.links[p] /\ p[2] \notin told
              => a.nodes[p[2]].parent = b.nodes[p[2]].parent /\ b.nodes[p[2]].parent # None

\* When the tables rest, the newest row comes to show them, and stays so,
\* whatever captures were torn or late before.
HistoryCatchesUp == <>[](rows # << >> /\ Latest(rows).snap = Topology(Shown))
=============================================================================
