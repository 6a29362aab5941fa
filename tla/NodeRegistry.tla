---------------------------- MODULE NodeRegistry ----------------------------
(***************************************************************************)
(* The `nodes` and `links` tables of storage/sqlite_store.py and the        *)
(* methods the ingest stages call on them.  Every method is one SQLite     *)
(* transaction under the store's lock, so each is one operator from the    *)
(* tables before it to the tables after it; the modules that use them      *)
(* decide which of them run without an await in between.                   *)
(*                                                                         *)
(* Time is kept as ages: the code compares an ISO timestamp with now minus *)
(* a window, the model compares the row's age with the window.  Ages stop  *)
(* growing at Old, which is past every window, so nothing is lost.         *)
(***************************************************************************)
EXTENDS Naturals

CONSTANTS
  Eui,            \* the extended addresses that can occur
  None,           \* SQL NULL, and the absence of a row
  SedWindow,      \* _SED_MESH_ALIVE_WINDOW_SECONDS
  OfflineAfter,   \* OFFLINE_AFTER_SECONDS
  PhantomAfter,   \* PHANTOM_AFTER_SECONDS
  LinkTtl,        \* LINK_TTL_SECONDS
  Old             \* an age beyond every window

ASSUME WindowAssumption ==
  /\ {SedWindow, OfflineAfter, PhantomAfter, LinkTtl, Old} \subseteq Nat
  /\ \A w \in {SedWindow, OfflineAfter, PhantomAfter, LinkTtl} : w < Old

Age == 0 .. Old

Source == {"neighbor_table", "route_table"}
Status == {"online", "sleeping", "offline", "unregistered", "phantom"}
Availability == {"yes", "no", "unknown"}

\* The columns of a node row the status machine reads or writes.
NodeRow == [device    : BOOLEAN,        \* device_id IS NOT NULL
            available : Availability,   \* 1, 0, NULL
            sleepy    : BOOLEAN,        \* routing_role = 'sleepy_end_device'
            ref       : Age \cup {None},\* age of last_referenced_at
            status    : Status]

LinkKey == Eui \X Source \X Eui         \* reporter, source, neighbor
LinkRow == [known : BOOLEAN, age : Age] \* neighbor_known, age of observed_at

ASSUME NoneAssumption ==
  None \notin Age /\ None \notin NodeRow /\ None \notin LinkRow

Rows  == [Eui -> NodeRow \cup {None}]
Links == [LinkKey -> LinkRow \cup {None}]

NoRows  == [n \in Eui |-> None]
NoLinks == [k \in LinkKey |-> None]

Present(rows) == {n \in Eui : rows[n] # None}
Edges(links)  == {k \in LinkKey : links[k] # None}
-----------------------------------------------------------------------------
(* nodes *)

\* (Broken variants, here and below, are used to check that the properties of
\* the runs notice the slip each of them makes.)

\* A row that is inserted takes the column defaults; the status column
\* defaults to 'online'.
NewRow(device) == [device |-> device, available |-> "unknown",
                   sleepy |-> FALSE, ref |-> None, status |-> "online"]

\* upsert_node_metadata for every node of ns: COALESCE never clears device_id.
Upsert(rows, ns, device) ==
  [n \in Eui |-> IF n \notin ns THEN rows[n]
                 ELSE IF rows[n] = None THEN NewRow(device)
                 ELSE [rows[n] EXCEPT !.device = @ \/ device]]

\* set_node_diagnostics overwrites routing_role; it never inserts.
SetDiagnostics(rows, ns, sleepy) ==
  [n \in Eui |-> IF n \in ns /\ rows[n] # None
                 THEN [rows[n] EXCEPT !.sleepy = n \in sleepy]
                 ELSE rows[n]]

\* Broken: every row is bumped, not only the batch.
BumpAll(rows, ns) ==
  [n \in Eui |-> IF rows[n] # None THEN [rows[n] EXCEPT !.ref = 0] ELSE None]

\* bump_last_referenced touches known nodes only.
BumpReferenced(rows, ns) ==
  [n \in Eui |-> IF n \in ns /\ rows[n] # None
                 THEN [rows[n] EXCEPT !.ref = 0]
                 ELSE rows[n]]

\* apply_availability: answer[n] = "unknown" stands for no update for n.
ApplyAvailability(rows, answer) ==
  [n \in Eui |-> IF answer[n] # "unknown" /\ rows[n] # None
                 THEN [rows[n] EXCEPT !.available = answer[n]]
                 ELSE rows[n]]

Recent(age, window) == age # None /\ age <= window

\* A NeighborTable row that names n, on either side, within the window.
HeardByMesh(links, n) ==
  \E k \in Edges(links) : /\ k[2] = "neighbor_table"
                          /\ n \in {k[1], k[3]}
                          /\ links[k].age <= SedWindow

\* Broken: a sleepy device does not need a recent sighting.
StatusUnheard(row, heard) ==
  IF row.available = "yes" THEN "online"
  ELSE IF ~row.device THEN "unregistered"
  ELSE IF row.sleepy THEN "sleeping" ELSE "offline"

\* The CASE of recompute_node_statuses, top to bottom.
StatusOf(row, heard) ==
  IF row.available = "yes" THEN "online"
  ELSE IF ~row.device
       THEN IF row.ref # None /\ ~Recent(row.ref, PhantomAfter)
            THEN "phantom" ELSE "unregistered"
  ELSE IF row.available = "unknown" /\ Recent(row.ref, OfflineAfter)
       THEN "online"
  ELSE IF row.sleepy /\ heard THEN "sleeping" ELSE "offline"

RecomputeStatuses(rows, links) ==
  [n \in Eui |-> IF rows[n] = None THEN None
                 ELSE [rows[n] EXCEPT
                         !.status = StatusOf(rows[n], HeardByMesh(links, n))]]

\* Broken: the device test applies to one of the two branches only; and the
\* phantom branch is missing.
ExpiredRegistered(rows) ==
  {n \in Present(rows) : \/ rows[n].status = "offline"
                         \/ rows[n].status = "phantom" /\ ~rows[n].device}

\* purge_expired_nodes.  The age test of its 'offline' branch is left out:
\* no row without a device is ever 'offline' (see DevicelessStatus in
\* DeviceDiscovery).
Expired(rows) ==
  {n \in Present(rows) : /\ ~rows[n].device
                         /\ rows[n].status \in {"phantom", "offline"}}

DeleteNodes(rows, gone) == [n \in Eui |-> IF n \in gone THEN None ELSE rows[n]]

\* Broken: only the links a deleted node reported go with it.
DeleteLinksFrom(links, gone) ==
  [k \in LinkKey |-> IF k[1] \in gone THEN None ELSE links[k]]

DeleteLinksOf(links, gone) ==
  [k \in LinkKey |-> IF {k[1], k[3]} \cap gone # {} THEN None ELSE links[k]]
-----------------------------------------------------------------------------
(* links *)

\* replace_links_for_reporter for every reporter of `table` at once:
\* table[r] is None where r does not report, else its set of neighbors.
ReplaceLinks(links, rows, source, table) ==
  [k \in LinkKey |->
     IF k[2] # source \/ table[k[1]] = None THEN links[k]
     ELSE IF k[3] \in table[k[1]]
          THEN [known |-> rows[k[3]] # None, age |-> 0]
          ELSE None]

\* refresh_neighbor_known
RefreshKnown(links, rows) ==
  [k \in LinkKey |-> IF links[k] = None THEN None
                     ELSE [links[k] EXCEPT !.known = rows[k[3]] # None]]

\* Broken: the TTL test looks at the neighbor flag.
SweepUnknownLinks(links) ==
  [k \in LinkKey |-> IF links[k] # None /\ ~links[k].known THEN None ELSE links[k]]

\* sweep_stale_links
SweepLinks(links) ==
  [k \in LinkKey |-> IF links[k] # None /\ links[k].age > LinkTtl
                     THEN None ELSE links[k]]
-----------------------------------------------------------------------------
(* the clock *)

Older(age) == IF age = None THEN None ELSE IF age = Old THEN Old ELSE age + 1

AgeRows(rows) == [n \in Eui |-> IF rows[n] = None THEN None
                                ELSE [rows[n] EXCEPT !.ref = Older(@)]]

AgeLinks(links) == [k \in LinkKey |-> IF links[k] = None THEN None
                                      ELSE [links[k] EXCEPT !.age = Older(@)]]
=============================================================================
