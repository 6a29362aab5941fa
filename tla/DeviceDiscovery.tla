--------------------------- MODULE DeviceDiscovery ---------------------------
(***************************************************************************)
(* The two ingest stages that write the node and link tables, running on   *)
(* the core service's event loop: matter discovery                         *)
(* (pipeline/device_discovery.py) and the border router's REST ingest      *)
(* (pipeline/otbr_rest.py).  A run of discovery is started by the pipeline *)
(* loop or by a request, so several can be in flight; code between two     *)
(* awaits runs without interruption and is one action here.                *)
(*                                                                         *)
(* Outside the program: Home Assistant's registry and entity states, the   *)
(* mesh itself, and which of the three services answers.                   *)
(***************************************************************************)
EXTENDS NodeRegistry

CONSTANTS
  Run,          \* discovery runs that can be in flight at once
  Loop,         \* the one the pipeline loop starts
  Border,       \* the border router's own address
  ThreadConn,   \* devices whose registry entry names a Thread connection;
                \* the others are known by their Matter node id only
  Sleepy,       \* devices that report routing_role = sleepy_end_device
  Anonymous,    \* Matter nodes that report no basic information
  Registries,   \* the registries Home Assistant may hold: sets of devices
  Meshes,       \* the states the mesh may be in
  Reaches,      \* what the entity states may say of each device
  MaxChanges    \* bound: how often the world outside changes

\* What the Matter server (and the border router) report of each node: None,
\* or its two tables and its partition.
Report  == [neighbor_table : SUBSET Eui, route_table : SUBSET Eui,
            partition : Nat]
View    == [Eui -> Report \cup {None}]
NoView  == [n \in Eui |-> None]
Service == {"matter", "ha", "otbr"}

ASSUME WorldAssumption ==
  /\ Border \in Eui /\ Loop \in Run
  /\ ThreadConn \subseteq Eui /\ Sleepy \subseteq Eui /\ Anonymous \subseteq Eui
  /\ Registries \subseteq SUBSET (Eui \ {Border}) /\ Registries # {}
  /\ Meshes \subseteq View /\ Meshes # {}
  /\ Reaches \subseteq [Eui -> Availability] /\ Reaches # {}
  /\ MaxChanges \in Nat

VARIABLES
  registry, mesh, reach, up, changes,  \* the world outside
  rows, links,                         \* the two tables
  split,                               \* an open partition_split issue
  rich,                                \* _LAST_MATTER_RICH_INFO
  run,                                 \* the local state of each run
  otbr                                 \* where the border-router ingest stands

world == <<registry, mesh, reach, up, changes>>
store == <<rows, links, split>>
vars  == <<world, store, rich, run, otbr>>

RunState == [pc : {"idle", "asking", "availability"},
             devices : SUBSET Eui,   \* what the registry file said
             view : View,            \* the cache as the run persisted it
             late : BOOLEAN]         \* time has passed since it began

IdleRun == [pc |-> "idle", devices |-> {}, view |-> NoView, late |-> FALSE]

Init ==
  /\ registry \in Registries /\ mesh \in Meshes /\ reach \in Reaches
  /\ up = Service /\ changes = 0
  /\ rows = NoRows /\ links = NoLinks /\ split = FALSE
  /\ rich = NoView
  /\ run = [r \in Run |-> IdleRun]
  /\ otbr = "idle"
-----------------------------------------------------------------------------
(* matter discovery *)

Reporters(view) == {n \in Eui : view[n] # None}

\* The border router is not a Matter node.
MatterView == [mesh EXCEPT ![Border] = None]

\* A reporter's own entry is dropped from its route table.
Persisted(view, source) ==
  [n \in Eui |-> IF view[n] = None THEN None
                 ELSE IF source = "route_table" THEN view[n][source] \ {n}
                 ELSE view[n][source]]

Referenced(view) ==
  Reporters(view) \cup
    UNION {view[n].neighbor_table \cup view[n].route_table : n \in Reporters(view)}

\* The registry is read from its file before the Matter server is asked.
ReadRegistry(r) ==
  /\ run[r].pc = "idle"
  /\ run' = [run EXCEPT ![r] = [IdleRun EXCEPT !.pc = "asking",
                                               !.devices = registry]]
  /\ UNCHANGED <<world, store, rich, otbr>>

\* The Matter server is asked only when some device needs it, and the cache
\* is replaced only when it answers.
MatterAnswers(r) == /\ run[r].devices \ ThreadConn # {}
                    /\ "matter" \in up

\* Broken: the answer is merged into the cache, and forgets no node.
PublishedMerged(r) ==
  IF MatterAnswers(r)
  THEN [n \in Eui |-> IF MatterView[n] = None THEN rich[n] ELSE MatterView[n]]
  ELSE rich

Published(r) == IF MatterAnswers(r) THEN MatterView ELSE rich

\* The registry devices whose address is known after the merge.
Resolved(r) ==
  (run[r].devices \cap ThreadConn) \cup
    (IF MatterAnswers(r) THEN run[r].devices \cap Reporters(MatterView) ELSE {})

Finish(r) == run' = [run EXCEPT ![r] = IdleRun]

\* No Thread device at all: discover_and_sync returns at once.
NothingFound(r) ==
  /\ run[r].pc = "asking"
  /\ Resolved(r) = {}
  /\ rich' = Published(r)
  /\ Finish(r)
  /\ UNCHANGED <<world, store, otbr>>

\* There are devices (of the registry, or only of the border router's topology)
\* but nothing was ever heard from the Matter server.
SyncRegistryOnly(r) ==
  /\ run[r].pc = "asking"
  /\ Reporters(Published(r)) = {}
  /\ rich' = Published(r)
  /\ rows' = Upsert(rows, Resolved(r), TRUE)
  /\ split' = FALSE
  /\ links' = SweepLinks(links)
  /\ Finish(r)
  /\ UNCHANGED <<world, otbr>>

\* Upsert the devices, then persist every report of the cache: both tables
\* of each reporter, its diagnostics, its basic information; then the
\* reference times and the neighbor_known flags.
SyncAndPersist(r) ==
  LET view  == Published(r)
      known == Upsert(rows, Resolved(r), TRUE)
      told  == Upsert(SetDiagnostics(known, Reporters(view), Sleepy),
                      Reporters(view) \ Anonymous, FALSE)
      heard == BumpReferenced(told, Referenced(view))
      edges == ReplaceLinks(
                 ReplaceLinks(links, known, "neighbor_table",
                              Persisted(view, "neighbor_table")),
                 known, "route_table", Persisted(view, "route_table"))
  IN /\ run[r].pc = "asking"
     /\ Reporters(view) # {}
     /\ rich' = view
     /\ rows' = heard
     /\ links' = RefreshKnown(edges, heard)
     /\ run' = [run EXCEPT ![r].pc = "availability", ![r].view = view]
     /\ UNCHANGED <<world, split, otbr>>

\* The entity states of the rows that have a device; none when the call fails.
HaAnswer == [n \in Eui |-> IF /\ "ha" \in up /\ n \in registry
                              /\ rows[n] # None /\ rows[n].device
                           THEN reach[n] ELSE "unknown"]

\* Partitions of the view that have a member which is still a live row.
LivePartitions(view, table) ==
  {view[n].partition :
     n \in {m \in Reporters(view) : table[m] # None /\ table[m].status # "phantom"}}

\* The answer of Home Assistant, the statuses, the purge, the partition
\* issue and the sweep.
Conclude(r) ==
  LET judged == RecomputeStatuses(ApplyAvailability(rows, HaAnswer), links)
      gone   == Expired(judged)
  IN /\ run[r].pc = "availability"
     /\ rows' = DeleteNodes(judged, gone)
     /\ links' = SweepLinks(DeleteLinksOf(links, gone))
     /\ split' = \E p, q \in LivePartitions(run[r].view, rows') : p # q
     /\ Finish(r)
     /\ UNCHANGED <<world, rich, otbr>>

\* The steps of a run that is under way.
Proceed(r) == \/ NothingFound(r) \/ SyncRegistryOnly(r)
              \/ SyncAndPersist(r) \/ Conclude(r)
-----------------------------------------------------------------------------
(* the border router's REST ingest *)

\* GET /node answered: the row, its diagnostics, reference and availability.
OtbrNode ==
  LET seen == BumpReferenced(
                SetDiagnostics(Upsert(rows, {Border}, FALSE), {Border}, {}),
                {Border})
  IN /\ otbr = "idle"
     /\ "otbr" \in up
     /\ rows' = ApplyAvailability(seen, [n \in Eui |-> IF n = Border THEN "yes"
                                                       ELSE "unknown"])
     /\ otbr' = "neighbor_table"
     /\ UNCHANGED <<world, links, split, rich, run>>

\* One of the border router's two tables, or no answer for it.
OtbrTable(source) ==
  /\ otbr = source
  /\ otbr' = IF source = "neighbor_table" THEN "route_table" ELSE "idle"
  /\ \/ UNCHANGED links
     \/ /\ "otbr" \in up
        /\ mesh[Border] # None
        /\ links' = ReplaceLinks(links, rows, source,
                      [n \in Eui |-> IF n = Border THEN mesh[n][source] ELSE None])
  /\ UNCHANGED <<world, rows, split, rich, run>>
-----------------------------------------------------------------------------
(* requests, restarts, and the world outside *)

\* The reasoner stage, which closes whatever issue is open as long as issue
\* detection is paused; and the close_issue tool.
CloseIssue ==
  /\ split
  /\ split' = FALSE
  /\ UNCHANGED <<world, rows, links, rich, run, otbr>>

\* The service restarts: memory is lost; the tables are wiped when the
\* option reset_db_on_start is set.
Restart ==
  /\ changes < MaxChanges /\ changes' = changes + 1
  /\ rich' = NoView
  /\ run' = [r \in Run |-> IdleRun]
  /\ otbr' = "idle"
  /\ \/ UNCHANGED store
     \/ rows' = NoRows /\ links' = NoLinks /\ split' = FALSE
  /\ UNCHANGED <<registry, mesh, reach, up>>

\* Devices join, leave and move; services come and go.
WorldChanges ==
  /\ changes < MaxChanges /\ changes' = changes + 1
  /\ \/ registry' \in Registries \ {registry} /\ UNCHANGED <<mesh, reach, up>>
     \/ mesh' \in Meshes \ {mesh} /\ UNCHANGED <<registry, reach, up>>
     \/ reach' \in Reaches \ {reach} /\ UNCHANGED <<registry, mesh, up>>
     \/ \E s \in Service : /\ up' = (up \ {s}) \cup ({s} \ up)
                           /\ UNCHANGED <<registry, mesh, reach>>
  /\ UNCHANGED <<store, rich, run, otbr>>

\* Time passes.  The awaits of a run have timeouts of seconds, the windows
\* are minutes: at most one unit of time passes during a run.
Tick ==
  /\ \A r \in Run : ~run[r].late
  /\ run' = [r \in Run |-> IF run[r].pc = "idle" THEN run[r]
                           ELSE [run[r] EXCEPT !.late = TRUE]]
  /\ rows' = AgeRows(rows) /\ links' = AgeLinks(links)
  /\ UNCHANGED <<world, split, rich, otbr>>

Next ==
  \/ \E r \in Run : ReadRegistry(r) \/ Proceed(r)
  \/ OtbrNode
  \/ \E source \in Source : OtbrTable(source)
  \/ CloseIssue
  \/ Restart
  \/ WorldChanges
  \/ Tick

Spec == Init /\ [][Next]_vars

\* run_forever starts a run again and again, and every await of a run that is
\* under way has a timeout; the border router's ingest and the reasoner are
\* stages of the same loop.  Nothing else is fair: requests, restarts and the
\* world need not act.  That a run ends, again and again, is weak fairness of
\* Proceed, which is enabled from its start to its end.
Fairness ==
  /\ WF_vars(ReadRegistry(Loop))
  /\ \A r \in Run : []<>(run[r].pc = "idle")
  /\ WF_vars(OtbrNode \/ \E source \in Source : OtbrTable(source))
  /\ WF_vars(CloseIssue)
  /\ WF_vars(Tick)

FairSpec == Spec /\ Fairness
-----------------------------------------------------------------------------
(* properties *)

\* The columns hold what the schema allows, and a run's local state is what
\* its handler can hold.
TypeOK ==
  /\ registry \in Registries /\ mesh \in Meshes /\ reach \in Reaches
  /\ up \subseteq Service /\ changes \in 0 .. MaxChanges
  /\ rows \in Rows
  /\ links \in Links
  /\ split \in BOOLEAN
  /\ rich \in View
  /\ run \in [Run -> RunState]
  /\ otbr \in {"idle"} \cup Source

\* A link that calls its neighbor known has that neighbor's row: no order of
\* discovery, border-router ingest, purge and restart leaves a link marked
\* known whose node was deleted (list_stale_links would hide it).
KnownLinksResolve ==
  \A k \in LinkKey : links[k] # None /\ links[k].known => rows[k[3]] # None

\* A row without a Home Assistant device is never 'offline', and a phantom is
\* deleted by the block that declares it: between two actions every row
\* without a device is online or unregistered.  So the retention window of
\* purge_expired_nodes and purge_phantom_nodes never find a row.
DevicelessStatus ==
  \A n \in Eui : rows[n] # None /\ ~rows[n].device
                   => rows[n].status \in {"online", "unregistered"}

\* A registered device's row only disappears with the whole table, when a
\* restart wipes it: never by a purge, however the runs interleave.
RegisteredNeverPurged ==
  [][\A n \in Eui : rows[n] # None /\ rows[n].device /\ rows'[n] = None
                       => rows' = NoRows /\ rich' = NoView]_vars

\* Every service answers and at least one device needs, and another or the
\* same one has, an answer of the Matter server.
Observable ==
  /\ up = Service
  /\ registry \ ThreadConn # {}
  /\ registry \cap (ThreadConn \cup Reporters(MatterView)) # {}

Neighbors(n, source) == {k[3] : k \in {e \in Edges(links) : e[1] = n /\ e[2] = source}}

LinksMirrorMesh ==
  /\ \A n \in Eui \ {Border}, source \in Source :
       Neighbors(n, source) = IF MatterView[n] = None THEN {}
                              ELSE Persisted(MatterView, source)[n]
  /\ \A k \in Edges(links) : k[1] # Border => links[k].known = (rows[k[3]] # None)

\* Once the world settles in an observable state, the links of every Matter
\* node become those the mesh reports and stay so: nothing stale survives the
\* replacement and the TTL sweep, and nothing fresh is swept.
MeshIsMirrored == <>[]Observable => <>[]LinksMirrorMesh

HeardInView(view, n) ==
  \E m \in Reporters(view) :
    n \in view[m].neighbor_table \/ (m = n /\ view[m].neighbor_table # {})

StatusesMatchReach ==
  \A n \in registry \cap (ThreadConn \cup Reporters(MatterView)) :
    /\ rows[n] # None /\ rows[n].device
    /\ reach[n] = "yes" => rows[n].status = "online"
    /\ reach[n] = "no" /\ n \in Sleepy /\ HeardInView(MatterView, n)
         => rows[n].status = "sleeping"
    /\ reach[n] = "no" /\ (n \notin Sleepy \/ ~HeardInView(mesh, n))
         => rows[n].status = "offline"

\* ... and every registered device gets the status its entities and the mesh
\* justify, and no longer flaps, although rows age and are re-read all the
\* time.
StatusesSettle == <>[]Observable => <>[]StatusesMatchReach

\* ... and rows of nodes that have no device and that no report names any
\* more are deleted.
GhostsArePurged ==
  <>[]Observable =>
    <>[](\A n \in Eui \ {Border} : rows[n] # None
           => rows[n].device \/ n \in Referenced(MatterView))

OnePartition(view) ==
  \A m, n \in Reporters(view) : view[m].partition = view[n].partition

\* ... and when the mesh is one partition (again), the partition_split issue
\* is closed for good: neither a run that judged the mesh before an await nor
\* a report of a node that left reopens it.
HealedSplitCloses ==
  <>[](Observable /\ OnePartition(MatterView)) => <>[](~split)
=============================================================================
