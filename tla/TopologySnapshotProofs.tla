------------------------- MODULE TopologySnapshotProofs -------------------------
(***************************************************************************)
(* Proofs about TopologySnapshot, for every mesh, every number of captures *)
(* that overlap, every heartbeat and every bound.  The history is a table  *)
(* ordered by the time of capture into which late captures insert in the   *)
(* middle; InsertKeeps says where a row goes.  Every snapshot under way or *)
(* stored is one that build_topology can return (Snapshot), which carries  *)
(* its coherence.  That the history is sparse needs that a capture alone   *)
(* inserts at the end, after a comparison that still holds (AloneIsFresh). *)
(***************************************************************************)
EXTENDS TopologySnapshot, CollectionLemmas

\* What build_topology returns: a coherent graph, in which a child has a parent.
Parents  == Eui \cup {None}
Graphs   == [nodes : UNION {[D -> [role : Role, parent : Parents]] : D \in SUBSET Eui},
             links : UNION {[D -> {"child", "plain"}] : D \in SUBSET Pairs}]
Snapshot == {g \in Graphs : \A p \in DOMAIN g.links :
               /\ {p[1], p[2]} \subseteq DOMAIN g.nodes
               /\ g.links[p] = "child" => g.nodes[p[2]].parent # None}

Shapes   == UNION {[D -> [role : Role, attached : Parents]] : D \in SUBSET Eui}
Row      == [at : Nat, snap : Snapshot]
RunState == [pc : {"idle", "links", "compare", "insert"}, nodes : Shapes, snap : Snapshot, at : Nat]

Ordered(table) == \A i, j \in DOMAIN table : i < j => table[i].at <= table[j].at

Types ==
  /\ nodes \in [Eui -> Role \cup {None}]
  /\ attached \in [Eui -> Parents]
  /\ links \in [Pairs -> {NoLink, "child", "plain"}]
  /\ rows \in Seq(Row) /\ Ordered(rows)
  /\ run \in [Capture -> RunState]
  /\ clock \in Nat
  /\ \A i \in DOMAIN rows : rows[i].at <= clock
  /\ \A c \in Capture : run[c].at <= clock

-----------------------------------------------------------------------------
(* build_topology and the table *)

LEMMA EmptySnapshot == IdleRun \in RunState /\ IdleRun.pc = "idle" /\ IdleRun.at = 0
<1>1. << >> \in [{} -> [role : Role, attached : Parents]]
      /\ << >> \in [{} -> [role : Role, parent : Parents]]
      /\ << >> \in [{} -> {"child", "plain"}] /\ DOMAIN << >> = {}
  OBVIOUS
<1>2. << >> \in Shapes
  BY <1>1 DEF Shapes
<1>3. [nodes |-> << >>, links |-> << >>] \in Snapshot
  BY <1>1 DEF Snapshot, Graphs
<1> QED BY <1>2, <1>3 DEF IdleRun, RunState

LEMMA ShownType ==
  ASSUME nodes \in [Eui -> Role \cup {None}], attached \in [Eui -> Parents]
  PROVE  Shown \in Shapes
<1> DEFINE D == {e \in Eui : nodes[e] # None}
<1>1. Shown \in [D -> [role : Role, attached : Parents]] /\ D \in SUBSET Eui
  BY DEF Shown
<1> HIDE DEF D
<1> QED BY <1>1 DEF Shapes

\* A node that a shown reporter has as its child gets one such reporter as its
\* parent, another what its attach event says.
LEMMA ParentType ==
  ASSUME NEW shown \in Shapes, NEW e \in DOMAIN shown
  PROVE  /\ Parent(shown, e) \in Parents
         /\ \A p \in Visible(shown) :
              p[2] = e /\ links[p] = "child" => Parent(shown, e) # None
<1> DEFINE claims == {p[1] : p \in {q \in Visible(shown) : q[2] = e /\ links[q] = "child"}}
<1>1. claims \in SUBSET Eui /\ claims \in SUBSET Nat /\ IsFiniteSet(claims)
  <2>1. claims \in SUBSET Eui
    BY DEF Visible, Pairs
  <2> HIDE DEF claims
  <2> QED BY <2>1, FS_Subset, SnapshotAssumption
<1>2. Parent(shown, e) = IF claims = {} THEN shown[e].attached ELSE Max(claims)
  BY DEF Parent
<1>3. \A p \in Visible(shown) : p[2] = e /\ links[p] = "child" => p[1] \in claims
  OBVIOUS
<1>4. shown[e].attached \in Parents
  BY DEF Shapes
<1> HIDE DEF claims
<1>5. claims # {} => Max(claims) \in Eui
  BY <1>1, MaxIs
<1>6. None \notin Eui
  BY SnapshotAssumption
<1> QED BY <1>2, <1>3, <1>4, <1>5, <1>6 DEF Parents

\* Whatever was read between the nodes and the links, the graph is coherent.
LEMMA TopologyType ==
  ASSUME NEW shown \in Shapes, links \in [Pairs -> {NoLink, "child", "plain"}]
  PROVE  Topology(shown) \in Snapshot
<1>1. PICK D \in SUBSET Eui : shown \in [D -> [role : Role, attached : Parents]]
  BY DEF Shapes
<1> DEFINE ns == [e \in DOMAIN shown |-> [role |-> shown[e].role, parent |-> Parent(shown, e)]]
           ls == [p \in Edges(shown) |-> links[p]]
<1>2. DOMAIN shown = D
  BY <1>1
<1>3. ns \in [D -> [role : Role, parent : Parents]]
  <2>1. \A e \in D : Parent(shown, e) \in Parents /\ shown[e].role \in Role
    BY <1>1, <1>2, ParentType
  <2> QED BY <1>2, <2>1
<1>4. /\ Edges(shown) \in SUBSET Pairs /\ Edges(shown) \subseteq Visible(shown)
      /\ \A p \in Edges(shown) : {p[1], p[2]} \subseteq D /\ links[p] # NoLink
  BY <1>2 DEF Edges, Visible
<1>5. ls \in [Edges(shown) -> {"child", "plain"}]
  <2>1. \A p \in Edges(shown) : links[p] \in {"child", "plain"}
    BY <1>4
  <2> QED BY <2>1
<1>6. DOMAIN ns = D /\ DOMAIN ls = Edges(shown)
  BY <1>2
<1>7. ASSUME NEW p \in Edges(shown), ls[p] = "child"
      PROVE  ns[p[2]].parent # None
  <2>1. p[2] \in D /\ p \in Visible(shown) /\ links[p] = "child"
    BY <1>4, <1>7
  <2>2. Parent(shown, p[2]) # None
    BY <1>2, <2>1, ParentType
  <2> QED BY <1>2, <2>1, <2>2
<1>8. Topology(shown) = [nodes |-> ns, links |-> ls]
  BY DEF Topology
<1> HIDE DEF ns, ls
<1> QED BY <1>3, <1>4, <1>5, <1>6, <1>7, <1>8 DEF Snapshot, Graphs

LEMMA RowTimes ==
  ASSUME NEW table \in Seq(Row)
  PROVE  \A i \in 1 .. Len(table) : table[i] \in Row /\ table[i].at \in Nat
<1> SUFFICES ASSUME NEW i \in 1 .. Len(table)
             PROVE  table[i] \in Row /\ table[i].at \in Nat
  OBVIOUS
<1>1. table[i] \in Row
  BY ElementOfSeq
<1> QED BY <1>1 DEF Row

\* A row goes after the rows that are not younger.
LEMMA InsertPlace ==
  ASSUME NEW table \in Seq(Row), Ordered(table), NEW row \in Row
  PROVE  LET n == Cardinality({i \in DOMAIN table : table[i].at <= row.at})
         IN /\ n \in 0 .. Len(table)
            /\ \A i \in 1 .. Len(table) : table[i].at <= row.at <=> i <= n
<1> DEFINE before == {i \in DOMAIN table : table[i].at <= row.at}
           n == Cardinality(before)
<1>1. DOMAIN table = 1 .. Len(table) /\ Len(table) \in Nat
  OBVIOUS
<1>2. \A i \in 1 .. Len(table) : table[i].at \in Nat
  BY RowTimes
<1>3. row.at \in Nat
  BY DEF Row
<1>4. IsFiniteSet(1 .. Len(table)) /\ Cardinality(1 .. Len(table)) = Len(table)
  BY <1>1, FS_Interval
<1>5. IsFiniteSet(before) /\ n \in Nat /\ n <= Len(table)
  BY <1>1, <1>4, FS_Subset, FS_CardinalityType
<1>6. ASSUME NEW i \in before
      PROVE  i <= n
  <2>1. \A j \in 1 .. i : j \in before
    BY <1>1, <1>2, <1>3 DEF Ordered
  <2>2. i \in Nat /\ i >= 1
    BY <1>1
  <2>3. IsFiniteSet(1 .. i) /\ Cardinality(1 .. i) = i
    BY <2>2, FS_Interval
  <2>4. 1 .. i \in SUBSET before
    BY <2>1
  <2> QED BY <2>3, <2>4, <1>5, FS_Subset
<1>7. ASSUME NEW i \in 1 .. Len(table), i \notin before
      PROVE  ~(i <= n)
  <2>1. before \in SUBSET (1 .. (i - 1))
    <3>1. ASSUME NEW j \in before
          PROVE  j \in 1 .. (i - 1)
      BY <1>1, <1>2, <1>3, <1>7 DEF Ordered
    <3> QED BY <3>1
  <2>2. IsFiniteSet(1 .. (i - 1)) /\ Cardinality(1 .. (i - 1)) = i - 1
    <3>1. i - 1 \in Int /\ 1 \in Int /\ i - 1 >= 0
      BY <1>1
    <3>2. /\ IsFiniteSet(1 .. (i - 1))
          /\ Cardinality(1 .. (i - 1)) = IF 1 > i - 1 THEN 0 ELSE (i - 1) - 1 + 1
      BY <3>1, FS_Interval
    <3> QED BY <3>1, <3>2
  <2>3. n <= i - 1
    BY <2>1, <2>2, FS_Subset
  <2> QED BY <1>1, <1>5, <2>3
<1>8. n \in 0 .. Len(table)
  BY <1>1, <1>5
<1>9. \A i \in 1 .. Len(table) : i \in before <=> table[i].at <= row.at
  BY <1>1
<1> HIDE DEF before
<1>10. \A i \in 1 .. Len(table) : table[i].at <= row.at <=> i <= n
  BY <1>6, <1>7, <1>9
<1> QED BY <1>8, <1>10 DEF before

\* The table that results, position by position.
LEMMA InsertRows ==
  ASSUME NEW table \in Seq(Row), Ordered(table), NEW row \in Row
  PROVE  LET n == Cardinality({i \in DOMAIN table : table[i].at <= row.at})
         IN /\ Insert(table, row) \in Seq(Row)
            /\ Len(Insert(table, row)) = Len(table) + 1
            /\ \A i \in 1 .. Len(table) + 1 :
                 Insert(table, row)[i] = IF i <= n THEN table[i]
                                         ELSE IF i = n + 1 THEN row ELSE table[i - 1]
<1> DEFINE n == Cardinality({i \in DOMAIN table : table[i].at <= row.at})
           front == SubSeq(table, 1, n)
           back == SubSeq(table, n + 1, Len(table))
<1>1. n \in 0 .. Len(table)
  BY InsertPlace
<1>2. Insert(table, row) = front \o <<row>> \o back
  BY DEF Insert
<1> HIDE DEF n
<1>3. Len(table) \in Nat /\ n \in Nat /\ n <= Len(table)
  BY <1>1
<1>4. \A i \in 1 .. Len(table) : table[i] \in Row
  BY ElementOfSeq
<1>5. /\ front \in Seq(Row) /\ Len(front) = n
      /\ \A i \in 1 .. n : front[i] = table[i]
  <2>1. \A i \in 1 .. n : table[i] \in Row
    BY <1>3, <1>4
  <2> QED BY <1>3, <2>1, SubSeqProperties
<1>6. /\ back \in Seq(Row) /\ Len(back) = Len(table) - n
      /\ \A i \in 1 .. Len(table) - n : back[i] = table[n + i]
  <2>1. \A i \in n + 1 .. Len(table) : table[i] \in Row
    BY <1>3, <1>4
  <2>2. /\ back \in Seq(Row)
        /\ Len(back) = IF n + 1 <= Len(table) THEN Len(table) - (n + 1) + 1 ELSE 0
        /\ \A i \in 1 .. Len(table) - (n + 1) + 1 : back[i] = table[n + 1 + i - 1]
    BY <1>3, <2>1, SubSeqProperties
  <2> QED BY <1>3, <2>2
<1> HIDE DEF front, back
<1>7. <<row>> \in Seq(Row) /\ Len(<<row>>) = 1 /\ <<row>>[1] = row
  OBVIOUS
<1> DEFINE head == front \o <<row>>
<1>8. /\ head \in Seq(Row) /\ Len(head) = n + 1
      /\ \A i \in 1 .. n + 1 : head[i] = IF i <= n THEN table[i] ELSE row
  <2>1. /\ head \in Seq(Row) /\ Len(head) = n + 1
        /\ \A i \in 1 .. n + 1 : head[i] = IF i <= n THEN front[i] ELSE <<row>>[i - n]
    BY <1>5, <1>7, ConcatProperties
  <2> QED BY <1>3, <1>5, <1>7, <2>1
<1> HIDE DEF head
<1>9. /\ head \o back \in Seq(Row) /\ Len(head \o back) = Len(table) + 1
      /\ \A i \in 1 .. Len(table) + 1 :
           (head \o back)[i] = IF i <= n + 1 THEN head[i] ELSE back[i - (n + 1)]
  <2>1. Len(head) + Len(back) = Len(table) + 1
    BY <1>3, <1>6, <1>8
  <2>2. /\ head \o back \in Seq(Row) /\ Len(head \o back) = Len(head) + Len(back)
        /\ \A i \in 1 .. Len(head) + Len(back) :
             (head \o back)[i] = IF i <= Len(head) THEN head[i] ELSE back[i - Len(head)]
    BY <1>6, <1>8, ConcatProperties
  <2> QED BY <1>8, <2>1, <2>2
<1>10. ASSUME NEW i \in 1 .. Len(table) + 1
       PROVE  (head \o back)[i] = IF i <= n THEN table[i]
                                  ELSE IF i = n + 1 THEN row ELSE table[i - 1]
  <2>0. i \in Nat /\ i >= 1 /\ i <= Len(table) + 1
    BY <1>3
  <2>1. CASE i <= n + 1
    <3>1. i \in 1 .. n + 1
      BY <1>3, <2>0, <2>1
    <3>2. (head \o back)[i] = head[i] /\ head[i] = IF i <= n THEN table[i] ELSE row
      BY <1>8, <1>9, <2>1, <3>1
    <3> QED BY <1>3, <2>0, <2>1, <3>2
  <2>2. CASE ~(i <= n + 1)
    <3>1. i - (n + 1) \in 1 .. Len(table) - n /\ n + (i - (n + 1)) = i - 1
      BY <1>3, <2>0, <2>2
    <3>2. (head \o back)[i] = back[i - (n + 1)] /\ back[i - (n + 1)] = table[i - 1]
      BY <1>6, <1>9, <2>2, <3>1
    <3>3. ~(i <= n) /\ i # n + 1
      BY <1>3, <2>0, <2>2
    <3> QED BY <3>2, <3>3
  <2> QED BY <2>1, <2>2
<1>11. Insert(table, row) = head \o back
  BY <1>2 DEF head
<1>12. \A i \in 1 .. Len(table) + 1 :
         Insert(table, row)[i] = IF i <= n THEN table[i]
                                 ELSE IF i = n + 1 THEN row ELSE table[i - 1]
  BY <1>10, <1>11
<1>13. Insert(table, row) \in Seq(Row) /\ Len(Insert(table, row)) = Len(table) + 1
  BY <1>9, <1>11
<1> QED BY <1>12, <1>13 DEF n

\* An insert keeps the order, adds the row, and keeps every other one.
LEMMA InsertKeeps ==
  ASSUME NEW table \in Seq(Row), Ordered(table), NEW row \in Row
  PROVE  /\ Insert(table, row) \in Seq(Row) /\ Ordered(Insert(table, row))
         /\ \E i \in DOMAIN Insert(table, row) : Insert(table, row)[i] = row
         /\ \A i \in DOMAIN Insert(table, row) :
              Insert(table, row)[i] = row \/ \E j \in DOMAIN table : Insert(table, row)[i] = table[j]
<1> DEFINE n == Cardinality({i \in DOMAIN table : table[i].at <= row.at})
           new == Insert(table, row)
<1>1. /\ n \in 0 .. Len(table)
      /\ \A i \in 1 .. Len(table) : table[i].at <= row.at <=> i <= n
  BY InsertPlace
<1>2. /\ new \in Seq(Row) /\ Len(new) = Len(table) + 1
      /\ \A i \in 1 .. Len(table) + 1 :
           new[i] = IF i <= n THEN table[i] ELSE IF i = n + 1 THEN row ELSE table[i - 1]
  BY InsertRows
<1> HIDE DEF n, new
<1>3. Len(table) \in Nat /\ n \in Nat /\ n <= Len(table)
  BY <1>1
<1>4. DOMAIN new = 1 .. Len(table) + 1 /\ DOMAIN table = 1 .. Len(table)
  BY <1>2
<1>5. \A i \in 1 .. Len(table) : table[i].at \in Nat
  BY RowTimes
<1>6. row.at \in Nat
  BY DEF Row
<1>7. ASSUME NEW i \in DOMAIN new, NEW j \in DOMAIN new, i < j
      PROVE  new[i].at <= new[j].at
  <2>1. i \in 1 .. Len(table) + 1 /\ j \in 1 .. Len(table) + 1
    BY <1>4
  <2>2. i \in Nat /\ j \in Nat /\ i >= 1 /\ j <= Len(table) + 1
    BY <1>3, <2>1
  <2>3. CASE j <= n
    <3>1. i \in DOMAIN table /\ j \in DOMAIN table /\ i <= n
      BY <1>3, <1>4, <1>7, <2>2, <2>3
    <3>2. new[i] = table[i] /\ new[j] = table[j]
      BY <1>2, <2>1, <2>3, <3>1
    <3> QED BY <1>7, <3>1, <3>2 DEF Ordered
  <2>4. CASE j = n + 1
    <3>1. i \in 1 .. Len(table) /\ i <= n /\ ~(j <= n)
      BY <1>3, <1>7, <2>2, <2>4
    <3>2. new[i] = table[i] /\ new[j] = row
      BY <1>2, <2>1, <2>4, <3>1
    <3> QED BY <1>1, <3>1, <3>2
  <2>5. CASE j > n + 1
    <3>1. j - 1 \in 1 .. Len(table) /\ ~(j - 1 <= n) /\ ~(j <= n) /\ j # n + 1
      BY <1>3, <2>2, <2>5
    <3>2. new[j] = table[j - 1] /\ ~(table[j - 1].at <= row.at)
      BY <1>1, <1>2, <2>1, <3>1
    <3>3. CASE i <= n
      <4>1. i \in DOMAIN table /\ j - 1 \in DOMAIN table /\ i < j - 1
        BY <1>3, <1>4, <2>2, <2>5, <3>1, <3>3
      <4>2. new[i] = table[i]
        BY <1>2, <2>1, <3>3
      <4> QED BY <3>2, <4>1, <4>2 DEF Ordered
    <3>4. CASE i = n + 1
      <4>1. new[i] = row
        BY <1>2, <1>3, <2>1, <3>4
      <4> QED BY <1>5, <1>6, <3>1, <3>2, <4>1
    <3>5. CASE i > n + 1
      <4>1. i - 1 \in DOMAIN table /\ j - 1 \in DOMAIN table /\ i - 1 < j - 1
            /\ ~(i <= n) /\ i # n + 1
        BY <1>3, <1>4, <1>7, <2>2, <3>1, <3>5
      <4>2. new[i] = table[i - 1]
        BY <1>2, <2>1, <4>1
      <4> QED BY <3>2, <4>1, <4>2 DEF Ordered
    <3> QED BY <1>3, <2>2, <3>3, <3>4, <3>5
  <2> QED BY <1>3, <2>2, <2>3, <2>4, <2>5
<1>8. n + 1 \in DOMAIN new /\ new[n + 1] = row
  BY <1>2, <1>3, <1>4
<1>9. ASSUME NEW i \in DOMAIN new
      PROVE  new[i] = row \/ \E j \in DOMAIN table : new[i] = table[j]
  <2>1. i \in 1 .. Len(table) + 1
    BY <1>4
  <2>2. CASE i <= n
    BY <1>2, <1>3, <1>4, <2>1, <2>2
  <2>3. CASE i = n + 1
    BY <1>8, <2>3
  <2>4. CASE i > n + 1
    BY <1>2, <1>3, <1>4, <2>1, <2>4
  <2> QED BY <1>3, <2>1, <2>2, <2>3, <2>4
<1>10. Ordered(new)
  BY <1>7 DEF Ordered
<1> QED BY <1>2, <1>8, <1>9, <1>10 DEF new

-----------------------------------------------------------------------------
(* types, and coherent graphs *)

LEMMA InitTypes == Init => Types
<1> SUFFICES ASSUME Init PROVE Types
  OBVIOUS
<1>1. rows \in Seq(Row) /\ Ordered(rows) /\ DOMAIN rows = {}
  BY DEF Init, Ordered
<1>2. run \in [Capture -> RunState] /\ \A c \in Capture : run[c].at = 0
  BY EmptySnapshot DEF Init
<1> QED BY <1>1, <1>2 DEF Init, Types, Parents

\* A step that leaves the tables and the rows alone keeps the types if the
\* captures have theirs.
LEMMA RunTypes ==
  ASSUME Types, NEW c \in Capture, NEW r \in RunState, r.at <= clock,
         run' = [run EXCEPT ![c] = r], UNCHANGED <<tables, rows, clock>>
  PROVE  Types'
<1>1. run' \in [Capture -> RunState]
  BY DEF Types
<1>2. \A d \in Capture : run'[d].at <= clock
  BY DEF Types
<1> QED BY <1>1, <1>2 DEF Types, tables

LEMMA ReadNodesTypes ==
  ASSUME Types, NEW c \in Capture, ReadNodes(c)
  PROVE  Types'
<1>1. Shown \in Shapes
  BY ShownType DEF Types
<1> DEFINE r == [IdleRun EXCEPT !.pc = "links", !.nodes = Shown]
<1>2. r \in RunState /\ r.at = 0
  BY <1>1, EmptySnapshot DEF IdleRun, RunState
<1>3. run' = [run EXCEPT ![c] = r] /\ UNCHANGED <<tables, rows, clock>>
  BY DEF ReadNodes
<1>4. r.at <= clock
  BY <1>2 DEF Types
<1> HIDE DEF r
<1> QED BY <1>2, <1>3, <1>4, RunTypes

LEMMA ReadLinksTypes ==
  ASSUME Types, NEW c \in Capture, ReadLinks(c)
  PROVE  Types'
<1>1. Topology(run[c].nodes) \in Snapshot
  BY TopologyType DEF Types, RunState
<1> DEFINE r == [IdleRun EXCEPT !.pc = "compare", !.at = clock, !.snap = Topology(run[c].nodes)]
<1>2. r \in RunState /\ r.at = clock
  BY <1>1, EmptySnapshot DEF IdleRun, RunState, Types
<1>3. run' = [run EXCEPT ![c] = r] /\ UNCHANGED <<tables, rows, clock>>
  BY DEF ReadLinks
<1>4. r.at <= clock
  BY <1>2 DEF Types
<1> HIDE DEF r
<1> QED BY <1>2, <1>3, <1>4, RunTypes

LEMMA CompareTypes ==
  ASSUME Types, NEW c \in Capture, Compare(c)
  PROVE  Types'
<1>1. run[c] \in RunState /\ run[c].at <= clock
  BY DEF Types
<1>2. [run[c] EXCEPT !.pc = "insert"] \in RunState
      /\ [run[c] EXCEPT !.pc = "insert"].at = run[c].at
  BY <1>1 DEF RunState
<1>3. IdleRun \in RunState /\ IdleRun.at <= clock
  BY EmptySnapshot DEF Types
<1>4. PICK r \in {IdleRun, [run[c] EXCEPT !.pc = "insert"]} : run' = [run EXCEPT ![c] = r]
  BY DEF Compare
<1>5. r \in RunState /\ r.at <= clock
  BY <1>1, <1>2, <1>3
<1>6. UNCHANGED <<tables, rows, clock>>
  BY DEF Compare
<1> QED BY <1>4, <1>5, <1>6, RunTypes

LEMMA WriteTypes ==
  ASSUME Types, NEW c \in Capture, Write(c)
  PROVE  Types'
<1> DEFINE row == [at |-> run[c].at, snap |-> run[c].snap]
<1>1. row \in Row /\ row.at <= clock
  BY DEF Types, RunState, Row
<1>2. rows \in Seq(Row) /\ Ordered(rows) /\ rows' = Insert(rows, row)
  BY DEF Types, Write
<1> HIDE DEF row
<1>3. rows' \in Seq(Row) /\ Ordered(rows')
  BY <1>1, <1>2, InsertKeeps
<1>4. \A i \in DOMAIN rows' : rows'[i].at <= clock
  BY <1>1, <1>2, InsertKeeps DEF Types
<1>5. run' \in [Capture -> RunState] /\ \A d \in Capture : run'[d].at <= clock
  BY EmptySnapshot DEF Write, Types
<1> QED BY <1>3, <1>4, <1>5 DEF Write, Types, tables, Ordered

LEMMA NextTypes == Types /\ [Next]_vars => Types'
<1> SUFFICES ASSUME Types, [Next]_vars PROVE Types'
  OBVIOUS
<1>1. CASE UNCHANGED vars
  BY <1>1 DEF vars, tables, Types, Ordered
<1>2. ASSUME NEW c \in Capture, ReadNodes(c) \/ Proceed(c)
      PROVE  Types'
  BY <1>2, ReadNodesTypes, ReadLinksTypes, CompareTypes, WriteTypes DEF Proceed
<1>3. CASE Restart
  <2>1. run' \in [Capture -> RunState] /\ \A c \in Capture : run'[c].at <= clock
    BY <1>3, EmptySnapshot DEF Restart, Types
  <2> QED BY <1>3, <2>1 DEF Restart, Types, tables, Ordered
<1>4. CASE NodeChanges
  <2>1. nodes' \in [Eui -> Role \cup {None}]
    BY <1>4 DEF NodeChanges, Types
  <2> QED BY <1>4, <2>1 DEF NodeChanges, Types, Ordered
<1>7. CASE AttachChanges
  <2>1. attached' \in [Eui -> Parents]
    BY <1>7 DEF AttachChanges, Types, Parents
  <2> QED BY <1>7, <2>1 DEF AttachChanges, Types, Ordered
<1>5. CASE LinkChanges
  <2>1. links' \in [Pairs -> {NoLink, "child", "plain"}]
    BY <1>5 DEF LinkChanges, Types, NoLink
  <2> QED BY <1>5, <2>1 DEF LinkChanges, Types, Ordered
<1>6. CASE Tick
  <2>1. \A i \in DOMAIN rows : rows[i].at \in Nat
    BY RowTimes DEF Types
  <2>2. \A c \in Capture : run[c].at \in Nat
    BY DEF Types, RunState
  <2>3. clock' \in Nat /\ clock' = clock + 1
    BY <1>6 DEF Tick, Types
  <2>4. \A i \in DOMAIN rows' : rows'[i].at <= clock'
    BY <1>6, <2>1, <2>3 DEF Tick, Types
  <2>5. \A c \in Capture : run'[c].at <= clock'
    BY <1>6, <2>2, <2>3 DEF Tick, Types
  <2> QED BY <1>6, <2>3, <2>4, <2>5 DEF Tick, Types, tables, Ordered
<1> QED BY <1>1, <1>2, <1>3, <1>4, <1>5, <1>6, <1>7 DEF Next

LEMMA TypesAlways == Spec => []Types
BY InitTypes, NextTypes, PTL DEF Spec

\* The history stays in the order of capture although captures insert late and
\* next to each other, and no row is of the future (topology_snapshot.py).
THEOREM TypesHold == Spec => []TypeOK
<1>1. Types => TypeOK
  <2> SUFFICES ASSUME Types PROVE TypeOK
    OBVIOUS
  <2>1. \A i \in DOMAIN rows : rows[i] \in Row /\ rows[i].at \in Nat
    BY RowTimes DEF Types
  <2>2. \A g \in Snapshot : DOMAIN g.nodes \subseteq Eui /\ DOMAIN g.links \subseteq Pairs
    BY DEF Snapshot, Graphs
  <2>3. \A i, j \in DOMAIN rows : i < j => rows[i].at <= rows[j].at
    BY DEF Types, Ordered
  <2>4. \A i \in DOMAIN rows : /\ rows[i].at \in 0 .. clock
                               /\ DOMAIN rows[i].snap.nodes \subseteq Eui
                               /\ DOMAIN rows[i].snap.links \subseteq Pairs
    BY <2>1, <2>2 DEF Types, Row
  <2>5. \A c \in Capture : /\ run[c].pc \in {"idle", "links", "compare", "insert"}
                           /\ run[c].at \in 0 .. clock
    BY DEF Types, RunState
  <2> QED BY <2>3, <2>4, <2>5 DEF TypeOK
<1> QED BY <1>1, TypesAlways, PTL

\* No stored graph has an edge into a node it does not have, in a mesh of any
\* size and whatever discovery writes between the two reads of build_topology.
THEOREM GraphsAreCoherent == Spec => []Coherent
<1>1. Types => Coherent
  <2> SUFFICES ASSUME Types PROVE Coherent
    OBVIOUS
  <2>1. \A i \in DOMAIN rows : rows[i] \in Row
    BY RowTimes DEF Types
  <2>2. \A i \in DOMAIN rows : rows[i].snap \in Snapshot
    BY <2>1 DEF Row
  <2> QED BY <2>2 DEF Coherent, Snapshot
<1> QED BY <1>1, TypesAlways, PTL

-----------------------------------------------------------------------------
(* what a capture leaves behind *)

LEMMA EndWitnessed ==
  ASSUME Types, NEW c \in Capture, Compare(c) \/ Write(c), run'[c] = IdleRun
  PROVE  \E i \in DOMAIN rows' : /\ rows'[i].snap = run[c].snap
                                 /\ rows'[i].at >= run[c].at - Heartbeat
<1>1. run[c].at \in Nat /\ Heartbeat \in Nat
  BY SnapshotAssumption DEF Types, RunState
<1>2. CASE Compare(c)
  <2>1. run' = [run EXCEPT ![c] = IF Unchanged(c) THEN IdleRun ELSE [@ EXCEPT !.pc = "insert"]]
    BY <1>2 DEF Compare
  <2>2. Unchanged(c)
    <3>1. CASE ~Unchanged(c)
      <4>1. run'[c] = [run[c] EXCEPT !.pc = "insert"]
        BY <2>1, <3>1 DEF Types
      <4>2. run'[c].pc = "insert"
        BY <4>1 DEF Types, RunState
      <4> QED BY <4>2, EmptySnapshot
    <3> QED BY <3>1
  <2>3. rows \in Seq(Row) /\ rows # << >> /\ rows' = rows
    BY <1>2, <2>2 DEF Types, Unchanged, Compare
  <2>4. Len(rows) \in DOMAIN rows
    <3>1. Len(rows) \in Nat \ {0} /\ DOMAIN rows = 1 .. Len(rows)
      BY <2>3, EmptySeq
    <3> QED BY <3>1
  <2>5. rows[Len(rows)].snap = run[c].snap /\ rows[Len(rows)].at >= run[c].at - Heartbeat
    BY <2>2 DEF Unchanged, Latest, Recent
  <2> QED BY <2>3, <2>4, <2>5
<1>3. CASE Write(c)
  <2> DEFINE row == [at |-> run[c].at, snap |-> run[c].snap]
  <2>1. row \in Row /\ row.at = run[c].at /\ row.snap = run[c].snap
    BY DEF Types, RunState, Row
  <2>2. rows \in Seq(Row) /\ Ordered(rows) /\ rows' = Insert(rows, row)
    BY <1>3 DEF Types, Write
  <2> HIDE DEF row
  <2>3. PICK i \in DOMAIN rows' : rows'[i] = row
    BY <2>1, <2>2, InsertKeeps
  <2> QED BY <1>1, <2>1, <2>3
<1> QED BY <1>2, <1>3

\* Every capture that ends leaves a row of what it saw, or found one no older
\* than a heartbeat, however captures overlap (topology_snapshot.py:13-15).
THEOREM CapturesAreWitnessed == Spec => EveryCaptureIsWitnessed
<1>1. Types /\ [Next]_vars
        => [\A c \in Capture : (Compare(c) \/ Write(c)) /\ run'[c] = IdleRun
              => \E i \in DOMAIN rows' : /\ rows'[i].snap = run[c].snap
                                         /\ rows'[i].at >= run[c].at - Heartbeat]_vars
  BY EndWitnessed
<1> QED BY <1>1, TypesAlways, PTL DEF Spec, EveryCaptureIsWitnessed

\* What stands first in the pairs of a function's graph.
LEMMA Firsts ==
  ASSUME NEW S, NEW f, NEW G,
         \A x \in S : <<x, f[x]>> \in G, \A n \in G : \E x \in S : n = <<x, f[x]>>
  PROVE  {n[1] : n \in G} = S
<1>1. \A x \in S : <<x, f[x]>> \in G /\ <<x, f[x]>>[1] = x
  OBVIOUS
<1>2. \A n \in G : n[1] \in S
  OBVIOUS
<1>3. \A x \in S : x \in {n[1] : n \in G}
  BY <1>1
<1>4. \A y \in {n[1] : n \in G} : y \in S
  BY <1>2
<1> QED BY <1>3, <1>4

\* The nodes and the ends of the edges of the one row, and the diff, give those
\* of the other.
LEMMA DiffApplied ==
  ASSUME NEW a, NEW b
  PROVE  LET d == Diff(a, b)
             new  == d.added_nodes \cup d.changed_nodes
             told == {n[1] : n \in new}
             kept == DOMAIN a.nodes \ (d.removed_nodes \cup told)
         IN /\ told = (DOMAIN b.nodes \ DOMAIN a.nodes) \cup ChangedNodes(a, b)
            /\ new \cup {<<e, a.nodes[e]>> : e \in kept} = {<<e, b.nodes[e]>> : e \in DOMAIN b.nodes}
            /\ (DOMAIN a.links \ d.removed_links) \cup {l[1] : l \in d.added_links} = DOMAIN b.links
<1> DEFINE A == DOMAIN a.nodes
           B == DOMAIN b.nodes
           changed == ChangedNodes(a, b)
           new  == {<<e, b.nodes[e]>> : e \in B \ A} \cup {<<e, b.nodes[e]>> : e \in changed}
           told == {n[1] : n \in new}
           kept == A \ ((A \ B) \cup told)
           fresh == {<<p, b.links[p]>> : p \in DOMAIN b.links \ DOMAIN a.links}
<1>1. changed = {e \in A \cap B : a.nodes[e] # b.nodes[e]}
  BY DEF ChangedNodes, Common
<1> HIDE DEF changed
<1>2. new = {<<e, b.nodes[e]>> : e \in (B \ A) \cup changed}
  OBVIOUS
<1>3. told = (B \ A) \cup changed
  <2>1. /\ \A e \in (B \ A) \cup changed : <<e, b.nodes[e]>> \in new
        /\ \A n \in new : \E e \in (B \ A) \cup changed : n = <<e, b.nodes[e]>>
    BY <1>2
  <2> HIDE DEF new
  <2> QED BY <2>1, Firsts
<1>4. kept = (A \cap B) \ changed
  <2> HIDE DEF told
  <2> QED BY <1>3
<1>5. (B \ A) \cup changed \cup kept = B /\ \A e \in kept : a.nodes[e] = b.nodes[e]
  <2> HIDE DEF kept
  <2> QED BY <1>1, <1>4
<1>6. new \cup {<<e, a.nodes[e]>> : e \in kept} = {<<e, b.nodes[e]>> : e \in B}
  <2> HIDE DEF new, kept
  <2>1. {<<e, a.nodes[e]>> : e \in kept} = {<<e, b.nodes[e]>> : e \in kept}
    BY <1>5
  <2> QED BY <1>2, <1>5, <2>1
<1>7. {l[1] : l \in fresh} = DOMAIN b.links \ DOMAIN a.links
  <2> DEFINE ends == DOMAIN b.links \ DOMAIN a.links
  <2>1. /\ \A p \in ends : <<p, b.links[p]>> \in fresh
        /\ \A l \in fresh : \E p \in ends : l = <<p, b.links[p]>>
    OBVIOUS
  <2> HIDE DEF fresh, ends
  <2>2. PICK f : f = b.links
    OBVIOUS
  <2>3. (\A p \in ends : <<p, f[p]>> \in fresh) /\ \A l \in fresh : \E p \in ends : l = <<p, f[p]>>
    BY <2>1, <2>2
  <2>4. {l[1] : l \in fresh} = ends
    BY <2>3, Firsts
  <2> QED BY <2>4 DEF ends
<1>8. (DOMAIN a.links \ (DOMAIN a.links \ DOMAIN b.links)) \cup {l[1] : l \in fresh} = DOMAIN b.links
  <2> HIDE DEF fresh
  <2> QED BY <1>7
<1>9. /\ Diff(a, b).added_nodes = {<<e, b.nodes[e]>> : e \in B \ A}
      /\ Diff(a, b).removed_nodes = A \ B
      /\ Diff(a, b).changed_nodes = {<<e, b.nodes[e]>> : e \in changed}
      /\ Diff(a, b).added_links = fresh
      /\ Diff(a, b).removed_links = DOMAIN a.links \ DOMAIN b.links
  BY DEF Diff, changed
<1> HIDE DEF fresh
<1> QED BY <1>3, <1>6, <1>8, <1>9 DEF changed

\* An edge that became, or ceased to be, one to a child is told by the child: in
\* the row in which it is one the child has a parent, so a child that is not
\* told has that parent in both.
LEMMA ChildTells ==
  ASSUME NEW a \in Snapshot, NEW b \in Snapshot,
         NEW p \in DOMAIN a.links \cap DOMAIN b.links, a.links[p] # b.links[p],
         p[2] \notin ChangedNodes(a, b)
  PROVE  a.nodes[p[2]].parent = b.nodes[p[2]].parent /\ b.nodes[p[2]].parent # None
<1>1. p[2] \in DOMAIN a.nodes /\ p[2] \in DOMAIN b.nodes
  BY DEF Snapshot
<1>2. a.nodes[p[2]] = b.nodes[p[2]]
  BY <1>1 DEF ChangedNodes, Common
<1>3. a.links[p] = "child" \/ b.links[p] = "child"
  BY DEF Snapshot, Graphs
<1>4. a.nodes[p[2]].parent # None \/ b.nodes[p[2]].parent # None
  BY <1>3 DEF Snapshot
<1> QED BY <1>2, <1>4

\* Between any two rows of the history every change is told, that of an edge to a
\* child by its child alone, whatever captures tore or overlapped (diff_topology).
THEOREM ChangesAreAllTold == Spec => []ChangesAreTold
<1>1. Types => ChangesAreTold
  <2> SUFFICES ASSUME Types PROVE ChangesAreTold
    OBVIOUS
  <2>1. \A i \in DOMAIN rows : rows[i].snap \in Snapshot
    <3>1. \A i \in DOMAIN rows : rows[i] \in Row
      BY RowTimes DEF Types
    <3> QED BY <3>1 DEF Row
  <2> SUFFICES ASSUME NEW i \in DOMAIN rows, NEW j \in DOMAIN rows
               PROVE  ChangesAreTold!(i, j)
    BY DEF ChangesAreTold
  <2> DEFINE a == rows[i].snap
             b == rows[j].snap
             d == Diff(a, b)
             new  == d.added_nodes \cup d.changed_nodes
             told == {n[1] : n \in new}
             kept == DOMAIN a.nodes \ (d.removed_nodes \cup told)
  <2>2. /\ told = (DOMAIN b.nodes \ DOMAIN a.nodes) \cup ChangedNodes(a, b)
        /\ new \cup {<<e, a.nodes[e]>> : e \in kept} = {<<e, b.nodes[e]>> : e \in DOMAIN b.nodes}
        /\ (DOMAIN a.links \ d.removed_links) \cup {l[1] : l \in d.added_links} = DOMAIN b.links
    BY DiffApplied
  <2>3. a \in Snapshot /\ b \in Snapshot
    BY <2>1
  <2> HIDE DEF a, b, told
  <2>4. ASSUME NEW p \in DOMAIN a.links \cap DOMAIN b.links, a.links[p] # b.links[p], p[2] \notin told
        PROVE  a.nodes[p[2]].parent = b.nodes[p[2]].parent /\ b.nodes[p[2]].parent # None
    BY <2>2, <2>3, <2>4, ChildTells
  <2> QED BY <2>2, <2>4 DEF a, b, told
<1> QED BY <1>1, TypesAlways, PTL

-----------------------------------------------------------------------------
(* one row per change *)

SparseRows ==
  \A i \in 1 .. Len(rows) - 1 :
    rows[i].snap = rows[i + 1].snap => rows[i + 1].at > rows[i].at + Heartbeat

\* Without overlap one capture is under way at most, no row is younger than it,
\* and what it found in the newest row is still so when it inserts.
AloneIsFresh ==
  ~overlapped =>
    /\ \A c, d \in Capture : c # d => run[c].pc = "idle" \/ run[d].pc = "idle"
    /\ \A c \in Capture : run[c].pc \in {"compare", "insert"}
                            => \A i \in DOMAIN rows : rows[i].at <= run[c].at
    /\ \A c \in Capture : run[c].pc = "insert" => ~Unchanged(c)
    /\ SparseRows

LEMMA ReadNodesFresh ==
  ASSUME Types, AloneIsFresh, NEW c \in Capture, ReadNodes(c)
  PROVE  AloneIsFresh'
<1> SUFFICES ASSUME ~overlapped' PROVE AloneIsFresh'
  BY DEF AloneIsFresh
<1>1. ~overlapped /\ rows' = rows /\ \A d \in Capture \ {c} : run[d].pc = "idle"
  BY DEF ReadNodes
<1>2. run'[c].pc = "links" /\ \A d \in Capture \ {c} : run'[d] = run[d]
  BY DEF ReadNodes, Types, IdleRun
<1> QED BY <1>1, <1>2 DEF AloneIsFresh, SparseRows

LEMMA ReadLinksFresh ==
  ASSUME Types, AloneIsFresh, NEW c \in Capture, ReadLinks(c)
  PROVE  AloneIsFresh'
<1> SUFFICES ASSUME ~overlapped' PROVE AloneIsFresh'
  BY DEF AloneIsFresh
<1>1. ~overlapped /\ rows' = rows /\ run[c].pc = "links"
  BY DEF ReadLinks
<1>2. run'[c].pc = "compare" /\ run'[c].at = clock /\ \A d \in Capture \ {c} : run'[d] = run[d]
  BY DEF ReadLinks, Types, IdleRun
<1>3. \A d \in Capture \ {c} : run[d].pc = "idle"
  BY <1>1 DEF AloneIsFresh
<1>4. \A i \in DOMAIN rows : rows[i].at <= clock
  BY DEF Types
<1> QED BY <1>1, <1>2, <1>3, <1>4 DEF AloneIsFresh, SparseRows

LEMMA CompareFresh ==
  ASSUME Types, AloneIsFresh, NEW c \in Capture, Compare(c)
  PROVE  AloneIsFresh'
<1> SUFFICES ASSUME ~overlapped' PROVE AloneIsFresh'
  BY DEF AloneIsFresh
<1>1. ~overlapped /\ rows' = rows /\ run[c].pc = "compare"
  BY DEF Compare
<1>2. \A d \in Capture \ {c} : run[d].pc = "idle" /\ run'[d] = run[d]
  BY <1>1 DEF AloneIsFresh, Compare, Types
<1>3. \A i \in DOMAIN rows : rows[i].at <= run[c].at
  BY <1>1 DEF AloneIsFresh
<1>4. CASE Unchanged(c)
  <2>1. run'[c].pc = "idle"
    BY <1>4 DEF Compare, Types, IdleRun
  <2> QED BY <1>1, <1>2, <2>1 DEF AloneIsFresh, SparseRows
<1>5. CASE ~Unchanged(c)
  <2>1. run'[c] = [run[c] EXCEPT !.pc = "insert"]
    BY <1>5 DEF Compare, Types
  <2>2. run'[c].pc = "insert" /\ run'[c].at = run[c].at /\ run'[c].snap = run[c].snap
    BY <2>1 DEF Types, RunState
  <2>3. ~Unchanged(c)'
    BY <1>1, <1>5, <2>2 DEF Unchanged, Recent, Latest
  <2> QED BY <1>1, <1>2, <1>3, <2>2, <2>3 DEF AloneIsFresh, SparseRows
<1> QED BY <1>4, <1>5

\* The row goes to the end, after one that differs or is old.
LEMMA WriteFresh ==
  ASSUME Types, AloneIsFresh, NEW c \in Capture, Write(c)
  PROVE  AloneIsFresh'
<1> SUFFICES ASSUME ~overlapped' PROVE AloneIsFresh'
  BY DEF AloneIsFresh
<1> DEFINE row == [at |-> run[c].at, snap |-> run[c].snap]
           n == Cardinality({i \in DOMAIN rows : rows[i].at <= row.at})
<1>1. ~overlapped /\ run[c].pc = "insert" /\ rows' = Insert(rows, row)
  BY DEF Write
<1>2. \A d \in Capture : run'[d].pc = "idle"
  BY <1>1 DEF AloneIsFresh, Write, Types, IdleRun
<1>3. row \in Row /\ row.at = run[c].at /\ row.snap = run[c].snap /\ rows \in Seq(Row)
  BY DEF Types, RunState, Row
<1>4. /\ ~Unchanged(c) /\ SparseRows
      /\ \A i \in 1 .. Len(rows) : rows[i].at <= row.at
  BY <1>1, <1>3 DEF AloneIsFresh
<1>5. /\ n \in 0 .. Len(rows)
      /\ \A i \in 1 .. Len(rows) : rows[i].at <= row.at <=> i <= n
  BY <1>3, InsertPlace DEF Types
<1>6. /\ rows' \in Seq(Row) /\ Len(rows') = Len(rows) + 1
      /\ \A i \in 1 .. Len(rows) + 1 :
           rows'[i] = IF i <= n THEN rows[i] ELSE IF i = n + 1 THEN row ELSE rows[i - 1]
  BY <1>1, <1>3, InsertRows DEF Types
<1> HIDE DEF n, row
<1>7. Len(rows) \in Nat
  BY <1>3
<1>8. n = Len(rows)
  <2>1. CASE Len(rows) = 0
    BY <1>5, <2>1
  <2>2. CASE Len(rows) # 0
    <3>1. Len(rows) \in 1 .. Len(rows)
      BY <1>7, <2>2
    <3> QED BY <1>4, <1>5, <1>7, <3>1
  <2> QED BY <2>1, <2>2
<1>9. rows'[Len(rows) + 1] = row /\ \A i \in 1 .. Len(rows) : rows'[i] = rows[i]
  BY <1>6, <1>7, <1>8
<1>10. ASSUME Len(rows) # 0, rows[Len(rows)].snap = row.snap
       PROVE  row.at > rows[Len(rows)].at + Heartbeat
  <2>1. rows # << >>
    BY <1>10
  <2>2. ~(rows[Len(rows)].at >= row.at - Heartbeat)
    BY <1>3, <1>4, <1>10, <2>1 DEF Unchanged, Latest, Recent
  <2>3. rows[Len(rows)].at \in Nat
    BY <1>3, <1>7, <1>10, RowTimes
  <2>4. row.at \in Nat
    BY <1>3 DEF Row
  <2>5. Heartbeat \in Nat
    BY SnapshotAssumption
  <2> QED BY <2>2, <2>3, <2>4, <2>5
<1>11. SparseRows'
  <2> SUFFICES ASSUME NEW i \in 1 .. Len(rows'), i < Len(rows'), rows'[i].snap = rows'[i + 1].snap
               PROVE  rows'[i + 1].at > rows'[i].at + Heartbeat
    BY <1>6, <1>7 DEF SparseRows
  <2>1. CASE i = Len(rows)
    <3>1. Len(rows) # 0 /\ rows'[i] = rows[i] /\ rows'[i + 1] = row
      BY <1>6, <1>7, <1>9, <2>1
    <3> QED BY <1>10, <2>1, <3>1
  <2>2. CASE i # Len(rows)
    <3>1. i \in 1 .. Len(rows) - 1 /\ i \in 1 .. Len(rows) /\ i + 1 \in 1 .. Len(rows)
      BY <1>6, <1>7, <2>2
    <3>2. rows'[i] = rows[i] /\ rows'[i + 1] = rows[i + 1]
      BY <1>9, <3>1
    <3> QED BY <1>4, <3>1, <3>2 DEF SparseRows
  <2> QED BY <2>1, <2>2
<1> QED BY <1>2, <1>11 DEF AloneIsFresh

LEMMA NextFresh == Types /\ AloneIsFresh /\ [Next]_vars => AloneIsFresh'
<1> SUFFICES ASSUME Types, AloneIsFresh, [Next]_vars PROVE AloneIsFresh'
  OBVIOUS
<1>1. CASE rows' = rows /\ run' = run /\ overlapped' = overlapped
  BY <1>1 DEF AloneIsFresh, SparseRows, Unchanged, Latest, Recent
<1>2. ASSUME NEW c \in Capture, ReadNodes(c) \/ Proceed(c)
      PROVE  AloneIsFresh'
  BY <1>2, ReadNodesFresh, ReadLinksFresh, CompareFresh, WriteFresh DEF Proceed
<1>3. CASE Restart
  <2>1. \A c \in Capture : run'[c].pc = "idle"
    BY <1>3 DEF Restart, IdleRun
  <2> QED BY <1>3, <2>1 DEF Restart, AloneIsFresh, SparseRows
<1>4. CASE NodeChanges \/ AttachChanges \/ LinkChanges \/ Tick \/ UNCHANGED vars
  BY <1>1, <1>4 DEF NodeChanges, AttachChanges, LinkChanges, Tick, vars
<1> QED BY <1>2, <1>3, <1>4 DEF Next

\* As long as no two captures overlap, two rows that follow each other differ
\* or are more than a heartbeat apart, over every history of changes, restarts
\* and captures (topology_snapshot.py:9-13).
THEOREM HistoryIsSparse == Spec => []Sparse
<1>1. Init => AloneIsFresh
  <2>1. Init => rows = << >> /\ \A c \in Capture : run[c].pc = "idle"
    BY DEF Init, IdleRun
  <2>2. rows = << >> => SparseRows
    BY DEF SparseRows
  <2> QED BY <2>1, <2>2 DEF AloneIsFresh
<1>2. AloneIsFresh => Sparse
  BY DEF AloneIsFresh, SparseRows, Sparse
<1> QED BY <1>1, <1>2, NextFresh, TypesAlways, PTL DEF Spec
=============================================================================
