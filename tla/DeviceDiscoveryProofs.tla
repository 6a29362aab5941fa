----------------------- MODULE DeviceDiscoveryProofs -----------------------
(***************************************************************************)
(* Theorems about DeviceDiscovery, for every set of addresses, runs,       *)
(* registries and meshes and every length of the windows.                  *)
(*                                                                         *)
(* KnownLinksResolve is inductive only together with the types; each       *)
(* action is a chain of NodeRegistry's operators, so its step is a chain   *)
(* of lemmas about them: one per operator, about two relations.  A step of *)
(* the node table may not lose a row (Keeps), and a link marked known has  *)
(* its neighbor's row (Resolve).                                           *)
(***************************************************************************)
EXTENDS DeviceDiscovery, TLAPS

\* Rows without a device are online or unregistered.
Deviceless(table) ==
  \A n \in Eui : table[n] # None /\ ~table[n].device
                   => table[n].status \in {"online", "unregistered"}

\* No row is lost, and none loses its device.
Keeps(before, after) ==
  \A n \in Eui : before[n] # None
                   => after[n] # None /\ (before[n].device => after[n].device)

\* Links marked known have their neighbor's row.
Resolve(edges, table) ==
  \A k \in LinkKey : edges[k] # None /\ edges[k].known => table[k[3]] # None

\* What every operator below does to a table, but for the status machine.
Extends(before, after) ==
  /\ after \in Rows
  /\ Keeps(before, after)
  /\ Deviceless(before) => Deviceless(after)

\* Steps that extend a table compose.
LEMMA ExtendsTrans ==
  ASSUME NEW a, NEW b, NEW c, Extends(a, b), Extends(b, c)
  PROVE  Extends(a, c)
BY DEF Extends, Keeps

\* upsert_node_metadata only adds rows, and a new row is online.
LEMMA UpsertExtends ==
  ASSUME NEW table \in Rows, NEW ns, NEW device \in BOOLEAN
  PROVE  Extends(table, Upsert(table, ns, device))
<1> DEFINE new == Upsert(table, ns, device)
<1>1. \A n \in Eui : new[n] \in NodeRow \cup {None}
  <2> TAKE n \in Eui
  <2>1. CASE n \notin ns
    BY <2>1 DEF Upsert, Rows
  <2>2. CASE n \in ns /\ table[n] = None
    BY <2>2 DEF Upsert, NewRow, NodeRow, Availability, Status
  <2>3. CASE n \in ns /\ table[n] # None
    BY <2>3 DEF Upsert, Rows, NodeRow
  <2> QED BY <2>1, <2>2, <2>3
<1>2. new \in Rows
  BY <1>1 DEF Upsert, Rows
<1>3. Keeps(table, new)
  <2> SUFFICES ASSUME NEW n \in Eui, table[n] # None
               PROVE  new[n] # None /\ (table[n].device => new[n].device)
    BY DEF Keeps
  <2>1. table[n] \in NodeRow
    BY DEF Rows
  <2>2. new[n] \in NodeRow
    BY <2>1 DEF Upsert, NodeRow
  <2> QED BY <2>1, <2>2, NoneAssumption DEF Upsert, NodeRow
<1>4. Deviceless(table) => Deviceless(new)
  <2> SUFFICES ASSUME Deviceless(table), NEW n \in Eui,
                      new[n] # None, ~new[n].device
               PROVE  new[n].status \in {"online", "unregistered"}
    BY DEF Deviceless
  <2>1. CASE n \notin ns
    BY <2>1 DEF Upsert, Deviceless
  <2>2. CASE n \in ns /\ table[n] = None
    BY <2>2 DEF Upsert, NewRow
  <2>3. CASE n \in ns /\ table[n] # None
    <3>1. table[n] \in NodeRow
      BY <2>3 DEF Rows
    <3>2. new[n] = [table[n] EXCEPT !.device = table[n].device \/ device]
      BY <2>3 DEF Upsert
    <3> QED BY <2>3, <3>1, <3>2 DEF Deviceless, NodeRow
  <2> QED BY <2>1, <2>2, <2>3
<1> QED BY <1>2, <1>3, <1>4 DEF Extends

\* set_node_diagnostics, bump_last_referenced, apply_availability and the
\* passing of time change columns the registry's invariants do not look at.
LEMMA DiagnosticsExtends ==
  ASSUME NEW table \in Rows, NEW ns, NEW sleepy
  PROVE  Extends(table, SetDiagnostics(table, ns, sleepy))
<1> DEFINE new == SetDiagnostics(table, ns, sleepy)
<1>1. \A n \in Eui : IF table[n] = None THEN new[n] = None
                    ELSE /\ new[n] \in NodeRow
                         /\ new[n].device = table[n].device
                         /\ new[n].status = table[n].status
  <2> TAKE n \in Eui
  <2>1. CASE n \in ns /\ table[n] # None
    <3> DEFINE deep == n \in sleepy
    <3>1. deep \in BOOLEAN
      OBVIOUS
    <3>2. new[n] = [table[n] EXCEPT !.sleepy = deep]
      BY <2>1, Zenon DEF SetDiagnostics
    <3>3. table[n] \in NodeRow
      BY <2>1 DEF Rows
    <3> HIDE DEF deep, new
    <3> QED BY <2>1, <3>1, <3>2, <3>3 DEF NodeRow
  <2>2. CASE ~(n \in ns /\ table[n] # None)
    BY <2>2 DEF SetDiagnostics, Rows
  <2> QED BY <2>1, <2>2
<1>2. new \in [Eui -> NodeRow \cup {None}]
  BY <1>1 DEF SetDiagnostics
<1> HIDE DEF new
<1>3. Extends(table, new)
  BY <1>1, <1>2, NoneAssumption DEF Extends, Rows, Keeps, Deviceless
<1> QED BY <1>3 DEF new

\* bump_node_referenced removes no row and takes no device from one.
LEMMA BumpExtends ==
  ASSUME NEW table \in Rows, NEW ns
  PROVE  Extends(table, BumpReferenced(table, ns))
<1>1. 0 \in Age
  BY WindowAssumption DEF Age
<1> QED BY <1>1, NoneAssumption
        DEF Extends, Rows, Keeps, Deviceless, BumpReferenced, NodeRow

\* So does the availability Home Assistant reports.
LEMMA AvailabilityExtends ==
  ASSUME NEW table \in Rows, NEW answer \in [Eui -> Availability]
  PROVE  Extends(table, ApplyAvailability(table, answer))
BY NoneAssumption
   DEF Extends, Rows, Keeps, Deviceless, ApplyAvailability, NodeRow

\* An age that grows stays an age.
LEMMA OlderAge ==
  ASSUME NEW age \in Age
  PROVE  Older(age) \in Age
BY WindowAssumption, NoneAssumption DEF Older, Age

\* Time removes no row.
LEMMA AgeRowsExtends ==
  ASSUME NEW table \in Rows
  PROVE  Extends(table, AgeRows(table))
<1>1. \A age \in Age \cup {None} : Older(age) \in Age \cup {None}
  BY OlderAge DEF Older
<1> QED BY <1>1, NoneAssumption
        DEF Extends, Rows, Keeps, Deviceless, AgeRows, NodeRow
-----------------------------------------------------------------------------
\* recompute_node_statuses loses no row; of the rows without a device it makes
\* online, unregistered or phantom ones.
LEMMA RecomputeJudges ==
  ASSUME NEW table \in Rows, NEW edges \in Links
  PROVE  LET judged == RecomputeStatuses(table, edges)
         IN /\ judged \in Rows
            /\ Keeps(table, judged)
            /\ \A n \in Eui : judged[n] # None /\ ~judged[n].device =>
                 judged[n].status \in {"online", "unregistered", "phantom"}
<1> DEFINE judged == RecomputeStatuses(table, edges)
           status(n) == StatusOf(table[n], HeardByMesh(edges, n))
<1>1. ASSUME NEW n \in Eui, table[n] # None
      PROVE  /\ table[n] \in NodeRow
             /\ status(n) \in Status
             /\ ~table[n].device
                  => status(n) \in {"online", "unregistered", "phantom"}
  <2>1. table[n] \in NodeRow
    BY <1>1 DEF Rows
  <2> QED BY <2>1 DEF StatusOf, Status
<1>2. \A n \in Eui : judged[n] = IF table[n] = None THEN None
                                ELSE [table[n] EXCEPT !.status = status(n)]
  BY DEF RecomputeStatuses
<1>3. judged \in [Eui -> NodeRow \cup {None}]
  <2>1. \A n \in Eui : judged[n] \in NodeRow \cup {None}
    <3> HIDE DEF status, judged
    <3> QED BY <1>1, <1>2 DEF NodeRow
  <2> QED BY <2>1 DEF RecomputeStatuses
<1>4. \A n \in Eui : table[n] # None
        => judged[n].device = table[n].device /\ judged[n].status = status(n)
  <2> HIDE DEF status, judged
  <2> QED BY <1>1, <1>2 DEF NodeRow
<1>5. \A n \in Eui : judged[n] = None <=> table[n] = None
  <2> SUFFICES ASSUME NEW n \in Eui, table[n] # None
               PROVE  judged[n] # None
    BY <1>2
  <2>1. judged[n] \in NodeRow
    <3> HIDE DEF status, judged
    <3> QED BY <1>1, <1>2 DEF NodeRow
  <2> QED BY <2>1, NoneAssumption
<1> HIDE DEF judged, status
<1>6. /\ judged \in Rows
      /\ Keeps(table, judged)
      /\ \A n \in Eui : judged[n] # None /\ ~judged[n].device =>
           judged[n].status \in {"online", "unregistered", "phantom"}
  BY <1>1, <1>3, <1>4, <1>5 DEF Rows, Keeps
<1> QED BY <1>6 DEF judged

\* purge_expired_nodes deletes the phantoms among them, and no row that has
\* a device.
LEMMA PurgeSpares ==
  ASSUME NEW table \in Rows,
         \A n \in Eui : table[n] # None /\ ~table[n].device =>
           table[n].status \in {"online", "unregistered", "phantom"}
  PROVE  LET after == DeleteNodes(table, Expired(table))
         IN /\ after \in Rows
            /\ Deviceless(after)
            /\ \A n \in Eui : table[n] # None /\ table[n].device
                                => after[n] # None
BY DEF DeleteNodes, Expired, Present, Rows, Deviceless
-----------------------------------------------------------------------------
\* replace_links_for_reporter flags a new link by the row it looks up.
LEMMA ReplaceResolves ==
  ASSUME NEW edges \in Links, NEW table \in Rows, NEW source, NEW reported
  PROVE  LET after == ReplaceLinks(edges, table, source, reported)
         IN /\ after \in Links
            /\ Resolve(edges, table) => Resolve(after, table)
<1> DEFINE after == ReplaceLinks(edges, table, source, reported)
           row(k) == table[k[3]] # None
<1>1. 0 \in Age
  BY WindowAssumption DEF Age
<1>2. \A k \in LinkKey : \/ after[k] = edges[k]
                         \/ after[k] = None
                         \/ after[k] = [known |-> row(k), age |-> 0]
  BY DEF ReplaceLinks
<1>3. \A k \in LinkKey : row(k) \in BOOLEAN
  OBVIOUS
<1>4. after \in [LinkKey -> LinkRow \cup {None}]
  <2>1. \A k \in LinkKey : after[k] \in LinkRow \cup {None}
    <3> TAKE k \in LinkKey
    <3> DEFINE r == row(k)
    <3>1. [known |-> r, age |-> 0] \in LinkRow
      <4>1. r \in BOOLEAN
        BY <1>3
      <4> HIDE DEF r
      <4> QED BY <1>1, <4>1 DEF LinkRow
    <3>2. edges[k] \in LinkRow \cup {None}
      BY DEF Links
    <3> HIDE DEF after
    <3> QED BY <1>2, <3>1, <3>2, Zenon
  <2> QED BY <2>1 DEF ReplaceLinks
<1> HIDE DEF after
<1>5. Resolve(edges, table) => Resolve(after, table)
  <2> SUFFICES ASSUME Resolve(edges, table), NEW k \in LinkKey,
                      after[k] # None, after[k].known
               PROVE  row(k)
    BY DEF Resolve
  <2>1. CASE after[k] = edges[k]
    BY <2>1 DEF Resolve
  <2>2. CASE after[k] = [known |-> row(k), age |-> 0]
    <3> HIDE DEF row
    <3> QED BY <2>2
  <2> QED BY <1>2, <2>1, <2>2
<1>6. after \in Links /\ (Resolve(edges, table) => Resolve(after, table))
  BY <1>4, <1>5 DEF Links
<1> QED BY <1>6 DEF after

\* refresh_neighbor_known makes every flag right, whatever it was.
LEMMA RefreshResolves ==
  ASSUME NEW edges \in Links, NEW table \in Rows
  PROVE  LET after == RefreshKnown(edges, table)
         IN after \in Links /\ Resolve(after, table)
<1> DEFINE after == RefreshKnown(edges, table)
<1>1. \A k \in LinkKey :
        after[k] = IF edges[k] = None THEN None
                   ELSE [edges[k] EXCEPT !.known = table[k[3]] # None]
  BY DEF RefreshKnown
<1>2. \A k \in LinkKey : edges[k] # None => edges[k] \in LinkRow
  BY DEF Links
<1>3. after \in [LinkKey -> LinkRow \cup {None}]
  <2>1. \A k \in LinkKey : after[k] \in LinkRow \cup {None}
    BY <1>1, <1>2 DEF LinkRow
  <2> QED BY <2>1 DEF RefreshKnown
<1> HIDE DEF after
<1>4. Resolve(after, table)
  BY <1>1, <1>2 DEF Resolve, LinkRow
<1>5. after \in Links /\ Resolve(after, table)
  BY <1>3, <1>4 DEF Links
<1> QED BY <1>5 DEF after

\* sweep_stale_links and the passing of time leave the flags alone.
LEMMA SweepResolves ==
  ASSUME NEW edges \in Links, NEW table
  PROVE  LET after == SweepLinks(edges)
         IN /\ after \in Links
            /\ Resolve(edges, table) => Resolve(after, table)
BY DEF SweepLinks, Links, Resolve

\* Time makes no link a known one.
LEMMA AgeLinksResolves ==
  ASSUME NEW edges \in Links, NEW table
  PROVE  LET after == AgeLinks(edges)
         IN /\ after \in Links
            /\ Resolve(edges, table) => Resolve(after, table)
BY OlderAge, NoneAssumption DEF AgeLinks, Links, Resolve, LinkRow

\* A purge takes the links of a deleted node with it, on both sides.
LEMMA DeleteResolves ==
  ASSUME NEW edges \in Links, NEW table \in Rows, NEW gone
  PROVE  LET after == DeleteLinksOf(edges, gone)
         IN /\ after \in Links
            /\ Resolve(edges, table)
                 => Resolve(after, DeleteNodes(table, gone))
<1>1. \A k \in LinkKey : k[3] \in Eui
  BY DEF LinkKey
<1> QED BY <1>1 DEF DeleteLinksOf, DeleteNodes, Links, Resolve

\* A link stays resolved in a table that lost no row.
LEMMA ResolveKept ==
  ASSUME NEW edges, NEW before, NEW after,
         Resolve(edges, before), Keeps(before, after)
  PROVE  Resolve(edges, after)
<1>1. \A k \in LinkKey : k[3] \in Eui
  BY DEF LinkKey
<1> QED BY <1>1 DEF Resolve, Keeps
-----------------------------------------------------------------------------
(* the actions *)

\* The inductive invariant.
IInv == TypeOK /\ KnownLinksResolve /\ DevicelessStatus

\* What an action has to establish of the two tables.
TablesOK(table, edges) ==
  /\ table \in Rows /\ edges \in Links
  /\ Resolve(edges, table)
  /\ Deviceless(table)

\* The invariant says that the tables are consistent.
LEMMA TablesInIInv == IInv => TablesOK(rows, links)
BY DEF IInv, TypeOK, TablesOK, KnownLinksResolve, DevicelessStatus, Resolve,
       Deviceless

\* Tables that stay as they are stay consistent.
LEMMA TablesUnchanged ==
  ASSUME IInv, UNCHANGED <<rows, links>>
  PROVE  TablesOK(rows, links)'
BY TablesInIInv DEF TablesOK, Resolve, Deviceless

\* An action that extends the node table and keeps the links resolved in it.
LEMMA TablesExtended ==
  ASSUME IInv, Extends(rows, rows'), links' \in Links,
         Resolve(links, rows) => Resolve(links', rows)
  PROVE  TablesOK(rows, links)'
<1>1. Resolve(links', rows) /\ Deviceless(rows)
  BY TablesInIInv DEF TablesOK
<1>2. Resolve(links', rows')
  BY <1>1, ResolveKept DEF Extends
<1>3. Deviceless(rows')
  BY <1>1 DEF Extends
<1> QED BY <1>2, <1>3 DEF TablesOK, Extends, Resolve, Deviceless

\* Consistent tables are what the two safety invariants ask for.
LEMMA TablesGiveInvariants ==
  TablesOK(rows, links)' => (KnownLinksResolve /\ DevicelessStatus)'
BY DEF TablesOK, KnownLinksResolve, DevicelessStatus, Resolve, Deviceless

\* What the two reporters' views and answers are made of.
LEMMA MatterViewType == TypeOK => MatterView \in View
<1> SUFFICES ASSUME TypeOK PROVE MatterView \in View
  OBVIOUS
<1>1. mesh \in View
  BY WorldAssumption DEF TypeOK
<1> QED BY <1>1 DEF MatterView, View

\* What a run publishes is a view of the mesh.
LEMMA PublishedType ==
  ASSUME TypeOK, NEW r \in Run
  PROVE  Published(r) \in View
BY MatterViewType DEF Published, TypeOK

\* Home Assistant has an answer for every device.
LEMMA HaAnswerType ==
  TypeOK => HaAnswer \in [Eui -> Availability]
<1> SUFFICES ASSUME TypeOK PROVE HaAnswer \in [Eui -> Availability]
  OBVIOUS
<1>1. reach \in [Eui -> Availability]
  BY WorldAssumption DEF TypeOK
<1> QED BY <1>1 DEF HaAnswer, Availability
-----------------------------------------------------------------------------
\* SyncAndPersist extends the table four times and then recomputes every flag.
LEMMA SyncAndPersistTables ==
  ASSUME IInv, NEW r \in Run, SyncAndPersist(r)
  PROVE  TablesOK(rows, links)' /\ Extends(rows, rows')
<1> DEFINE view  == Published(r)
           known == Upsert(rows, Resolved(r), TRUE)
           diag  == SetDiagnostics(known, Reporters(view), Sleepy)
           told  == Upsert(diag, Reporters(view) \ Anonymous, FALSE)
           heard == BumpReferenced(told, Referenced(view))
           half  == ReplaceLinks(links, known, "neighbor_table",
                                 Persisted(view, "neighbor_table"))
           edges == ReplaceLinks(half, known, "route_table",
                                 Persisted(view, "route_table"))
<1>1. TablesOK(rows, links)
  BY TablesInIInv
<1>2. Extends(rows, known) /\ known \in Rows
  BY <1>1, UpsertExtends DEF TablesOK, Extends
<1>3. Extends(known, diag) /\ diag \in Rows
  BY <1>2, DiagnosticsExtends DEF Extends
<1>4. Extends(diag, told) /\ told \in Rows
  BY <1>3, UpsertExtends DEF Extends
<1>5. Extends(told, heard) /\ heard \in Rows
  BY <1>4, BumpExtends DEF Extends
<1>6. Extends(rows, heard)
  <2> HIDE DEF known, diag, told, heard
  <2>1. Extends(rows, diag)
    BY <1>2, <1>3, ExtendsTrans
  <2>2. Extends(rows, told)
    BY <2>1, <1>4, ExtendsTrans
  <2> QED BY <2>2, <1>5, ExtendsTrans
<1>7. half \in Links
  BY <1>1, <1>2, ReplaceResolves DEF TablesOK
<1>8. edges \in Links
  BY <1>2, <1>7, ReplaceResolves
<1>9. RefreshKnown(edges, heard) \in Links
      /\ Resolve(RefreshKnown(edges, heard), heard)
  BY <1>5, <1>8, RefreshResolves
<1>10. rows' = heard /\ links' = RefreshKnown(edges, heard)
  BY DEF SyncAndPersist
<1> HIDE DEF heard, edges
<1>11. Deviceless(heard)
  BY <1>1, <1>6 DEF Extends, TablesOK
<1> QED BY <1>5, <1>6, <1>9, <1>10, <1>11 DEF TablesOK, Resolve, Deviceless

\* Conclude loses the rows it purges, and their links with them.
LEMMA ConcludeTables ==
  ASSUME IInv, NEW r \in Run, Conclude(r)
  PROVE  /\ TablesOK(rows, links)'
         /\ \A n \in Eui : rows[n] # None /\ rows[n].device => rows'[n] # None
<1> DEFINE reached == ApplyAvailability(rows, HaAnswer)
           judged  == RecomputeStatuses(reached, links)
           gone    == Expired(judged)
           left    == DeleteLinksOf(links, gone)
<1>1. TablesOK(rows, links)
  BY TablesInIInv
<1>2. Extends(rows, reached) /\ reached \in Rows
  BY <1>1, HaAnswerType, AvailabilityExtends DEF TablesOK, Extends, IInv
<1>3. /\ judged \in Rows
      /\ Keeps(reached, judged)
      /\ \A n \in Eui : judged[n] # None /\ ~judged[n].device =>
           judged[n].status \in {"online", "unregistered", "phantom"}
  BY <1>1, <1>2, RecomputeJudges DEF TablesOK
<1>4. /\ DeleteNodes(judged, gone) \in Rows
      /\ Deviceless(DeleteNodes(judged, gone))
      /\ \A n \in Eui : judged[n] # None /\ judged[n].device
                           => DeleteNodes(judged, gone)[n] # None
  <2> HIDE DEF judged
  <2> QED BY <1>3, PurgeSpares
<1>5. Resolve(links, judged)
  <2> HIDE DEF reached, judged
  <2>1. Resolve(links, reached)
    BY <1>1, <1>2, ResolveKept DEF TablesOK, Extends
  <2> QED BY <2>1, <1>3, ResolveKept
<1>6. left \in Links /\ Resolve(left, DeleteNodes(judged, gone))
  <2> HIDE DEF judged, gone
  <2> QED BY <1>1, <1>3, <1>5, DeleteResolves DEF TablesOK
<1>7. SweepLinks(left) \in Links
      /\ Resolve(SweepLinks(left), DeleteNodes(judged, gone))
  <2> HIDE DEF judged, gone, left
  <2> QED BY <1>6, SweepResolves
<1>8. rows' = DeleteNodes(judged, gone) /\ links' = SweepLinks(left)
  BY DEF Conclude
<1> HIDE DEF reached, judged, gone, left
<1>9. \A n \in Eui : rows[n] # None /\ rows[n].device => rows'[n] # None
  BY <1>2, <1>3, <1>4, <1>8 DEF Extends, Keeps
<1>10. TablesOK(rows', links')
  BY <1>4, <1>7, <1>8 DEF TablesOK
<1> QED BY <1>9, <1>10 DEF TablesOK, Resolve, Deviceless

\* The border router's node: one row is added or updated.
LEMMA OtbrNodeTables ==
  ASSUME IInv, OtbrNode
  PROVE  TablesOK(rows, links)' /\ Extends(rows, rows')
<1> DEFINE row  == Upsert(rows, {Border}, FALSE)
           diag == SetDiagnostics(row, {Border}, {})
           seen == BumpReferenced(diag, {Border})
           yes  == [n \in Eui |-> IF n = Border THEN "yes" ELSE "unknown"]
<1>1. TablesOK(rows, links)
  BY TablesInIInv
<1>2. Extends(rows, row) /\ row \in Rows
  BY <1>1, UpsertExtends DEF TablesOK, Extends
<1>3. Extends(row, diag) /\ diag \in Rows
  BY <1>2, DiagnosticsExtends DEF Extends
<1>4. Extends(diag, seen) /\ seen \in Rows
  BY <1>3, BumpExtends DEF Extends
<1>5. yes \in [Eui -> Availability]
  BY DEF Availability
<1>6. Extends(seen, ApplyAvailability(seen, yes))
  BY <1>4, <1>5, AvailabilityExtends
<1>7. rows' = ApplyAvailability(seen, yes) /\ links' = links
  BY DEF OtbrNode
<1> HIDE DEF row, diag, seen, yes
<1>8. Extends(rows, rows')
  <2>1. Extends(rows, diag)
    BY <1>2, <1>3, ExtendsTrans
  <2>2. Extends(rows, seen)
    BY <2>1, <1>4, ExtendsTrans
  <2> QED BY <2>2, <1>6, <1>7, ExtendsTrans
<1> QED BY <1>1, <1>7, <1>8, TablesExtended DEF TablesOK

\* The border router's tables are flagged by the rows of that moment.
LEMMA OtbrTableTables ==
  ASSUME IInv, NEW source \in Source, OtbrTable(source)
  PROVE  TablesOK(rows, links)' /\ rows' = rows
<1>1. TablesOK(rows, links) /\ rows' = rows
  BY TablesInIInv DEF OtbrTable
<1>2. links' \in Links /\ Resolve(links', rows)
  <2>1. CASE links' = links
    BY <1>1, <2>1 DEF TablesOK
  <2>2. CASE links' = ReplaceLinks(links, rows, source,
                        [n \in Eui |-> IF n = Border THEN mesh[n][source] ELSE None])
    BY <1>1, <2>2, ReplaceResolves DEF TablesOK
  <2> QED BY <2>1, <2>2 DEF OtbrTable
<1>3. TablesOK(rows', links')
  BY <1>1, <1>2 DEF TablesOK
<1> QED BY <1>1, <1>3 DEF TablesOK, Resolve, Deviceless

\* A registry-only sync: rows are added, links swept.
LEMMA SyncRegistryOnlyTables ==
  ASSUME IInv, NEW r \in Run, SyncRegistryOnly(r)
  PROVE  TablesOK(rows, links)' /\ Extends(rows, rows')
<1>1. TablesOK(rows, links)
  BY TablesInIInv
<1>2. Extends(rows, rows')
  BY <1>1, UpsertExtends DEF TablesOK, SyncRegistryOnly
<1>3. links' \in Links /\ (Resolve(links, rows) => Resolve(links', rows))
  BY <1>1, SweepResolves DEF TablesOK, SyncRegistryOnly
<1> QED BY <1>2, <1>3, TablesExtended

\* Time passes: no flag, device or status changes.
LEMMA TickTables ==
  ASSUME IInv, Tick
  PROVE  TablesOK(rows, links)' /\ Extends(rows, rows')
<1>1. TablesOK(rows, links)
  BY TablesInIInv
<1>2. Extends(rows, rows')
  BY <1>1, AgeRowsExtends DEF TablesOK, Tick
<1>3. links' \in Links /\ (Resolve(links, rows) => Resolve(links', rows))
  BY <1>1, AgeLinksResolves DEF TablesOK, Tick
<1> QED BY <1>2, <1>3, TablesExtended

\* A restart keeps both tables or empties both.
LEMMA RestartTables ==
  ASSUME IInv, Restart
  PROVE  TablesOK(rows, links)'
<1>1. CASE UNCHANGED store
  BY <1>1, TablesUnchanged DEF store
<1>2. CASE rows' = NoRows /\ links' = NoLinks
  <2>1. NoRows \in Rows /\ NoLinks \in Links
    BY DEF NoRows, NoLinks, Rows, Links
  <2>2. Resolve(NoLinks, NoRows) /\ Deviceless(NoRows)
    BY DEF Resolve, Deviceless, NoRows, NoLinks
  <2>3. TablesOK(rows', links')
    BY <1>2, <2>1, <2>2 DEF TablesOK
  <2> QED BY <2>3 DEF TablesOK, Resolve, Deviceless
<1> QED BY <1>1, <1>2 DEF Restart

\* The tables after any step, and the rows a step may not lose.
LEMMA NextTables ==
  ASSUME IInv, [Next]_vars
  PROVE  /\ TablesOK(rows, links)'
         /\ \A n \in Eui : rows[n] # None /\ rows[n].device /\ rows'[n] = None
                             => rows' = NoRows /\ rich' = NoView
<1>1. CASE \E r \in Run : ReadRegistry(r) \/ NothingFound(r)
  BY <1>1, TablesUnchanged DEF ReadRegistry, NothingFound, store
<1>2. CASE \E r \in Run : SyncRegistryOnly(r)
  BY <1>2, SyncRegistryOnlyTables DEF Extends, Keeps
<1>3. CASE \E r \in Run : SyncAndPersist(r)
  BY <1>3, SyncAndPersistTables DEF Extends, Keeps
<1>4. CASE \E r \in Run : Conclude(r)
  BY <1>4, ConcludeTables
<1>5. CASE OtbrNode
  BY <1>5, OtbrNodeTables DEF Extends, Keeps
<1>6. CASE \E source \in Source : OtbrTable(source)
  BY <1>6, OtbrTableTables
<1>7. CASE CloseIssue \/ WorldChanges \/ UNCHANGED vars
  BY <1>7, TablesUnchanged DEF CloseIssue, WorldChanges, vars, store
<1>8. CASE Restart
  BY <1>8, RestartTables DEF Restart, store
<1>9. CASE Tick
  BY <1>9, TickTables DEF Extends, Keeps
<1> QED BY <1>1, <1>2, <1>3, <1>4, <1>5, <1>6, <1>7, <1>8, <1>9
        DEF Next, Proceed

\* A run that is over is a run state.
LEMMA IdleRunType == IdleRun \in RunState
BY DEF IdleRun, RunState, NoView, View

\* A run that ends leaves the others alone.
LEMMA FinishType ==
  ASSUME TypeOK, NEW r \in Run, Finish(r)
  PROVE  run' \in [Run -> RunState]
BY IdleRunType DEF TypeOK, Finish

\* The types of everything but the two tables.
LEMMA NextTypes ==
  ASSUME IInv, [Next]_vars
  PROVE  TypeOK'
<1> USE DEF TypeOK, world, IInv
<1>0. rows' \in Rows /\ links' \in Links
  BY NextTables DEF TablesOK
<1>1. NoView \in View
  BY DEF NoView, View
<1>2. IdleRun \in RunState
  BY IdleRunType
<1>3. registry \subseteq Eui
  BY WorldAssumption
<1>4. CASE \E r \in Run : ReadRegistry(r)
  <2> PICK r \in Run : ReadRegistry(r)
    BY <1>4
  <2> DEFINE begun == [IdleRun EXCEPT !.pc = "asking", !.devices = registry]
  <2>1. begun \in RunState
    BY <1>1, <1>3 DEF IdleRun, RunState
  <2>2. run' = [run EXCEPT ![r] = begun] /\ UNCHANGED <<world, store, rich, otbr>>
    BY DEF ReadRegistry
  <2> HIDE DEF begun
  <2> QED BY <1>0, <2>1, <2>2 DEF store
<1>5. CASE \E r \in Run : NothingFound(r)
  BY <1>0, <1>5, FinishType, PublishedType DEF NothingFound, store
<1>6. CASE \E r \in Run : SyncRegistryOnly(r)
  BY <1>0, <1>6, FinishType, PublishedType DEF SyncRegistryOnly
<1>7. CASE \E r \in Run : SyncAndPersist(r)
  <2> PICK r \in Run : SyncAndPersist(r)
    BY <1>7
  <2> DEFINE view == Published(r)
  <2>1. view \in View
    BY PublishedType
  <2>2. /\ rich' = view
        /\ run' = [run EXCEPT ![r].pc = "availability", ![r].view = view]
        /\ UNCHANGED <<world, split, otbr>>
    BY DEF SyncAndPersist
  <2> HIDE DEF view
  <2>3. run' \in [Run -> RunState]
    BY <2>1, <2>2 DEF RunState
  <2> QED BY <1>0, <2>1, <2>2, <2>3
<1>8. CASE \E r \in Run : Conclude(r)
  <2> PICK r \in Run : Conclude(r)
    BY <1>8
  <2>1. split' \in BOOLEAN
    BY Zenon DEF Conclude
  <2> QED BY <1>0, <2>1, FinishType DEF Conclude
<1>9. CASE OtbrNode
  BY <1>0, <1>9 DEF OtbrNode, Source
<1>10. CASE \E source \in Source : OtbrTable(source)
  BY <1>0, <1>10 DEF OtbrTable, Source
<1>11. CASE CloseIssue
  BY <1>0, <1>11 DEF CloseIssue
<1>12. CASE Restart
  <2>1. run' \in [Run -> RunState]
    BY <1>2, <1>12 DEF Restart
  <2>2. changes' \in 0 .. MaxChanges
    BY <1>12, WorldAssumption DEF Restart
  <2>3. split' \in BOOLEAN
    BY <1>12 DEF Restart, store
  <2> QED BY <1>0, <1>1, <1>12, <2>1, <2>2, <2>3 DEF Restart
<1>13. CASE WorldChanges
  BY <1>0, <1>13, WorldAssumption DEF WorldChanges, store
<1>14. CASE Tick
  BY <1>0, <1>14 DEF Tick, RunState
<1>15. CASE UNCHANGED vars
  BY <1>0, <1>15 DEF vars, store
<1> QED BY <1>4, <1>5, <1>6, <1>7, <1>8, <1>9, <1>10, <1>11, <1>12, <1>13,
           <1>14, <1>15 DEF Next, Proceed

\* The empty database is consistent.
LEMMA InitIInv == Init => IInv
<1> SUFFICES ASSUME Init PROVE IInv
  OBVIOUS
<1>1. NoView \in View
  BY DEF NoView, View
<1>2. NoRows \in Rows /\ NoLinks \in Links
  BY DEF NoRows, NoLinks, Rows, Links
<1>3. TypeOK
  <2>1. run \in [Run -> RunState]
    BY IdleRunType DEF Init
  <2>2. changes \in 0 .. MaxChanges
    BY WorldAssumption DEF Init
  <2> QED BY <1>1, <1>2, <2>1, <2>2 DEF Init, TypeOK
<1>4. KnownLinksResolve /\ DevicelessStatus
  BY DEF Init, KnownLinksResolve, DevicelessStatus, NoRows, NoLinks
<1> QED BY <1>3, <1>4 DEF IInv

\* Every step keeps the invariant.
LEMMA NextIInv == IInv /\ [Next]_vars => IInv'
BY NextTables, NextTypes, TablesGiveInvariants DEF IInv
-----------------------------------------------------------------------------
\* The inductive invariant holds of every reachable state.
THEOREM InvariantHolds == Spec => []IInv
BY InitIInv, NextIInv, PTL DEF Spec

\* Types, for every set of addresses, every mesh and every window.
THEOREM TypesHold == Spec => []TypeOK
<1>1. IInv => TypeOK
  BY DEF IInv
<1> QED BY <1>1, InvariantHolds, PTL

\* No order of discovery runs, border-router ingest, purges and restarts leaves
\* a link marked known without its neighbor's row.
THEOREM KnownLinksHaveRows == Spec => []KnownLinksResolve
<1>1. IInv => KnownLinksResolve
  BY DEF IInv
<1> QED BY <1>1, InvariantHolds, PTL

\* No row without a device is ever left offline, sleeping or phantom.
THEOREM DevicelessRowsSettled == Spec => []DevicelessStatus
<1>1. IInv => DevicelessStatus
  BY DEF IInv
<1> QED BY <1>1, InvariantHolds, PTL

\* No purge ever takes a row that has a Home Assistant device.
THEOREM RegisteredRowsSurvive == Spec => RegisteredNeverPurged
<1>1. IInv /\ [Next]_vars =>
        [\A n \in Eui : rows[n] # None /\ rows[n].device /\ rows'[n] = None
                         => rows' = NoRows /\ rich' = NoView]_vars
  BY NextTables
<1> QED BY <1>1, InvariantHolds, PTL DEF Spec, RegisteredNeverPurged
=============================================================================
