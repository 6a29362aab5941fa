-------------------------- MODULE OtbrLogIngestProofs --------------------------
(***************************************************************************)
(* Proofs about OtbrLogIngest, for every number of processes, passes and   *)
(* add-ons, every window and every bound: types, and that a cursor stays   *)
(* with the log it was taken from.  The second needs that no pass is asked *)
(* for an add-on by name: such a pass writes the cursor it has read for    *)
(* the configured add-on beside the name it was asked for.                 *)
(***************************************************************************)
EXTENDS OtbrLogIngest, FiniteSetTheorems, TLAPS

\* The lines a pass has got are lines of the log it has asked for; logs grow.
LinesAreThere ==
  \A x \in Pass :
    /\ pass[x].pc # "idle" => pass[x].target \in Slug
    /\ pass[x].pc = "fetched" => /\ pass[x].first >= 1
                                 /\ pass[x].last <= Len(log[pass[x].target])

IInv == TypeOK /\ LinesAreThere

LEMMA MemoryType ==
  /\ NoMemory \in Memory /\ NoMemory.cursor = None
  /\ \A s \in Slug \cup {None}, t \in Text \cup {None} : [slug |-> s, cursor |-> t] \in Memory
  /\ \A m \in Memory : m.slug \in Slug \cup {None} /\ m.cursor \in Text \cup {None}
BY DEF NoMemory, Memory

\* What the bounded events have been counted to.
Counts == [sets : 0 .. MaxSets, restarts : 0 .. MaxRestarts, failures : 0 .. MaxFailures]

LEMMA CountType ==
  ASSUME count \in Counts
  PROVE  /\ count.sets < MaxSets => [count EXCEPT !.sets = @ + 1] \in Counts
         /\ count.restarts < MaxRestarts => [count EXCEPT !.restarts = @ + 1] \in Counts
         /\ \A n \in Nat : count.failures + n <= MaxFailures
                            => [count EXCEPT !.failures = @ + n] \in Counts
<1>1. MaxSets \in Nat /\ MaxRestarts \in Nat /\ MaxFailures \in Nat
  BY IngestAssumption
<1> QED BY <1>1 DEF Counts

\* The state a pass reads is that of its process, or none.
LEMMA ReadType ==
  ASSUME TypeOK, NEW p \in Process
  PROVE  ReadState(p) \in Memory /\ ReadState(p) \in {mem[p], NoMemory}
BY MemoryType DEF TypeOK, ReadState

LEMMA WriteType ==
  ASSUME TypeOK, NEW p \in Process, NEW m \in Memory, WriteState(p, m)
  PROVE  /\ mem' \in [Process -> Memory] /\ stored' \in BOOLEAN
         /\ mem'[p] = m /\ \A q \in Process \ {p} : mem'[q] = mem[q]
BY DEF TypeOK, WriteState

LEMMA IdleType ==
  IdlePass \in [pc : {"idle", "fetching", "fetched"}, target : Slug \cup {None},
                read : Memory, first : Nat, last : Nat]
BY MemoryType DEF IdlePass

LEMMA NoEventsType == NoEvents \in [Process -> [Slug -> [Line -> Nat]]]
BY DEF NoEvents

\* The log's last line, as far as a pass got it, is a line of the log.
LEMMA LastLine ==
  ASSUME IInv, NEW x \in Pass, pass[x].pc = "fetched", Got(x) # {}
  PROVE  /\ pass[x].last \in DOMAIN log[pass[x].target]
         /\ log[pass[x].target][pass[x].last] \in Text
<1>1. pass[x].first \in Nat /\ pass[x].last \in Nat /\ pass[x].target \in Slug
  BY DEF IInv, TypeOK, LinesAreThere
<1>2. log[pass[x].target] \in Seq(Text)
  BY <1>1 DEF IInv, TypeOK
<1>3. pass[x].first >= 1 /\ pass[x].last <= Len(log[pass[x].target])
  BY DEF IInv, LinesAreThere
<1>4. pass[x].last >= pass[x].first
  BY <1>1 DEF Got
<1>5. pass[x].last \in 1 .. Len(log[pass[x].target])
  BY <1>1, <1>2, <1>3, <1>4
<1> QED BY <1>2, <1>5

\* The state a pass writes at its end.
LEMMA WrittenType ==
  ASSUME IInv, NEW x \in Pass, pass[x].pc = "fetched"
  PROVE  [slug |-> pass[x].target,
          cursor |-> IF Got(x) = {} THEN pass[x].read.cursor
                     ELSE log[pass[x].target][pass[x].last]] \in Memory
<1>1. pass[x].target \in Slug
  BY DEF IInv, LinesAreThere
<1>2. pass[x].read.cursor \in Text \cup {None}
  BY MemoryType DEF IInv, TypeOK
<1> QED BY <1>1, <1>2, LastLine, MemoryType

-----------------------------------------------------------------------------
(* the steps *)

LEMMA BeginStep ==
  ASSUME IInv, NEW x \in Pass, Begin(x)
  PROVE  IInv'
<1>1. home[x] \in Process
  BY IngestAssumption
<1>2. ReadState(home[x]) \in Memory
  BY <1>1, ReadType DEF IInv
<1>3. CASE WriteState(home[x], ReadState(home[x])) /\ UNCHANGED pass
  BY <1>1, <1>2, <1>3, WriteType DEF Begin, IInv, TypeOK, LinesAreThere
<1>4. ASSUME NEW s \in Slug,
             pass' = [pass EXCEPT ![x] = [IdlePass EXCEPT !.pc = "fetching",
                                            !.read = ReadState(home[x]), !.target = s]],
             UNCHANGED <<mem, stored>>
      PROVE  IInv'
  <2>1. pass'[x] \in [pc : {"idle", "fetching", "fetched"}, target : Slug \cup {None},
                      read : Memory, first : Nat, last : Nat]
        /\ pass'[x].pc = "fetching" /\ pass'[x].target = s
    BY <1>2, <1>4 DEF IInv, TypeOK, IdlePass
  <2>2. \A y \in Pass \ {x} : pass'[y] = pass[y]
    BY <1>4 DEF IInv, TypeOK
  <2>3. TypeOK'
    BY <1>4, <2>1, <2>2 DEF Begin, IInv, TypeOK
  <2>4. LinesAreThere'
    BY <2>1, <2>2 DEF Begin, IInv, LinesAreThere
  <2> QED BY <2>3, <2>4 DEF IInv
<1>5. (\E s \in ({ReadState(home[x]).slug} \cup (IF x = Loop THEN {} ELSE Overrides)) \ {None} :
          pass' = [pass EXCEPT ![x] = [IdlePass EXCEPT !.pc = "fetching",
                                         !.read = ReadState(home[x]), !.target = s]])
        => \E s \in Slug :
             pass' = [pass EXCEPT ![x] = [IdlePass EXCEPT !.pc = "fetching",
                                            !.read = ReadState(home[x]), !.target = s]]
  BY <1>2, MemoryType, IngestAssumption
<1> QED BY <1>3, <1>4, <1>5 DEF Begin

LEMMA FetchedStep ==
  ASSUME IInv, NEW x \in Pass, Fetched(x)
  PROVE  IInv'
<1>1. pass[x].target \in Slug
  BY DEF IInv, LinesAreThere, Fetched
<1> DEFINE length == Len(log[pass[x].target])
<1>2. length \in Nat
  BY <1>1 DEF IInv, TypeOK
<1> DEFINE start == IF length > Window THEN length - Window + 1 ELSE 1
<1>3. start \in Nat /\ start >= 1
  BY <1>2, IngestAssumption
<1>4. pass' = [pass EXCEPT ![x].pc = "fetched", ![x].last = length, ![x].first = start]
  BY DEF Fetched
<1> HIDE DEF start
<1>5. /\ pass'[x] \in [pc : {"idle", "fetching", "fetched"}, target : Slug \cup {None},
                       read : Memory, first : Nat, last : Nat]
      /\ pass'[x].target = pass[x].target /\ pass'[x].read = pass[x].read
      /\ pass'[x].first = start /\ pass'[x].last = length
      /\ \A y \in Pass \ {x} : pass'[y] = pass[y]
  BY <1>2, <1>3, <1>4 DEF IInv, TypeOK
<1>6. TypeOK'
  BY <1>4, <1>5 DEF Fetched, IInv, TypeOK
<1>7. log' = log
  BY DEF Fetched
<1>8. LinesAreThere'
  <2> SUFFICES ASSUME NEW y \in Pass
               PROVE  /\ pass'[y].pc # "idle" => pass'[y].target \in Slug
                      /\ pass'[y].pc = "fetched" => /\ pass'[y].first >= 1
                                                    /\ pass'[y].last <= Len(log[pass'[y].target])
    BY <1>7 DEF LinesAreThere
  <2>1. CASE y = x
    BY <1>1, <1>2, <1>3, <1>5, <2>1
  <2>2. CASE y # x
    BY <1>5, <2>2 DEF IInv, LinesAreThere
  <2> QED BY <2>1, <2>2
<1> QED BY <1>6, <1>8 DEF IInv

\* A pass that ends: memory and row are written, and the pass is idle.
LEMMA EndStep ==
  ASSUME IInv, NEW x \in Pass, NEW m \in Memory, WriteState(home[x], m),
         pass' = [pass EXCEPT ![x] = IdlePass],
         inserted' \in [Process -> [Slug -> [Line -> Nat]]],
         count' \in Counts,
         UNCHANGED <<log, wanted, scans>>
  PROVE  IInv'
<1>1. home[x] \in Process
  BY IngestAssumption
<1>2. TypeOK'
  BY <1>1, WriteType, IdleType DEF IInv, TypeOK, Counts
<1>3. pass'[x].pc = "idle" /\ \A y \in Pass \ {x} : pass'[y] = pass[y]
  BY DEF IInv, TypeOK, IdlePass
<1>4. LinesAreThere'
  BY <1>3 DEF IInv, LinesAreThere
<1> QED BY <1>2, <1>4 DEF IInv

LEMMA FetchFailsStep ==
  ASSUME IInv, NEW x \in Pass, FetchFails(x)
  PROVE  IInv'
<1>1. pass[x].read \in Memory
  BY DEF IInv, TypeOK
<1>2. inserted' \in [Process -> [Slug -> [Line -> Nat]]] /\ count' \in Counts
  BY DEF FetchFails, IInv, TypeOK, Counts
<1> QED BY <1>1, <1>2, EndStep DEF FetchFails

LEMMA IngestStep ==
  ASSUME IInv, NEW x \in Pass, Ingest(x)
  PROVE  IInv'
<1>1. home[x] \in Process /\ pass[x].target \in Slug
  BY IngestAssumption DEF IInv, LinesAreThere, Ingest
<1>2. PICK lost \in SUBSET NewLines(x) :
        /\ count.failures + Cardinality(lost) <= MaxFailures
        /\ count' = [count EXCEPT !.failures = @ + Cardinality(lost)]
        /\ inserted' = [inserted EXCEPT ![home[x]][pass[x].target] =
             [i \in Line |-> IF i \in NewLines(x) \ lost THEN @[i] + 1 ELSE @[i]]]
  BY DEF Ingest
<1>3. Cardinality(lost) \in Nat
  <2>1. pass[x].first \in Int /\ pass[x].last \in Int
    BY DEF IInv, TypeOK
  <2>2. IsFiniteSet(Got(x))
    BY <2>1, FS_Interval DEF Got
  <2>3. lost \in SUBSET Got(x)
    BY DEF NewLines
  <2> QED BY <2>2, <2>3, FS_Subset, FS_CardinalityType
<1>4. count' \in Counts
  BY <1>2, <1>3, CountType DEF IInv, TypeOK, Counts
<1>5. inserted' \in [Process -> [Slug -> [Line -> Nat]]]
  <2> DEFINE old == inserted[home[x]][pass[x].target]
             new == [i \in Line |-> IF i \in NewLines(x) \ lost THEN old[i] + 1 ELSE old[i]]
  <2>1. new \in [Line -> Nat]
    BY <1>1 DEF IInv, TypeOK
  <2>2. inserted' = [inserted EXCEPT ![home[x]][pass[x].target] = new]
    BY <1>2
  <2> HIDE DEF new
  <2> QED BY <1>1, <2>1, <2>2 DEF IInv, TypeOK
<1> QED BY <1>4, <1>5, WrittenType, EndStep DEF Ingest

LEMMA SetSlugStep ==
  ASSUME IInv, NEW p \in Setters, NEW s \in Slug, SetSlug(p, s)
  PROVE  IInv'
<1>1. p \in Process /\ SlugSet(p, s) \in Memory
  BY IngestAssumption, MemoryType DEF SlugSet
<1>2. mem' \in [Process -> Memory] /\ stored' \in BOOLEAN
  BY <1>1, WriteType DEF SetSlug, IInv
<1>3. count' \in Counts
  BY CountType DEF SetSlug, IInv, TypeOK, Counts
<1>4. scans' \in [Process -> Nat]
  BY <1>1 DEF SetSlug, IInv, TypeOK
<1>5. TypeOK'
  BY <1>2, <1>3, <1>4 DEF SetSlug, IInv, TypeOK, Counts
<1> QED BY <1>5 DEF SetSlug, IInv, LinesAreThere

LEMMA RestartStep ==
  ASSUME IInv, NEW p \in Process, Restart(p)
  PROVE  IInv'
<1>1. mem' \in [Process -> Memory]
  BY MemoryType DEF Restart, IInv, TypeOK
<1>2. pass' \in [Pass -> [pc : {"idle", "fetching", "fetched"}, target : Slug \cup {None},
                          read : Memory, first : Nat, last : Nat]]
  BY IdleType DEF Restart, IInv, TypeOK
<1>3. inserted' \in [Process -> [Slug -> [Line -> Nat]]] /\ stored' \in BOOLEAN
  BY NoEventsType DEF Restart, IInv, TypeOK
<1>4. count' \in Counts
  BY CountType DEF Restart, IInv, TypeOK, Counts
<1>5. scans' \in [Process -> Nat]
  BY DEF Restart, IInv, TypeOK
<1>6. log' = log /\ wanted' = wanted
  BY DEF Restart
<1>7. TypeOK'
  BY <1>1, <1>2, <1>3, <1>4, <1>5, <1>6 DEF IInv, TypeOK, Counts
<1>8. LinesAreThere'
  <2>1. \A x \in Pass : pass'[x] = pass[x] \/ pass'[x].pc = "idle"
    BY DEF Restart, IdlePass
  <2> QED BY <1>6, <2>1 DEF IInv, LinesAreThere
<1> QED BY <1>7, <1>8 DEF IInv

\* A log that grows keeps its lines.
LEMMA GrownLog ==
  ASSUME TypeOK, NEW s \in Slug, LogGrows(s)
  PROVE  /\ log' \in [Slug -> Seq(Text)]
         /\ \A r \in Slug : /\ Len(log[r]) <= Len(log'[r])
                            /\ \A i \in DOMAIN log[r] : i \in DOMAIN log'[r] /\ log'[r][i] = log[r][i]
<1>1. PICK t \in Text : log' = [log EXCEPT ![s] = Append(@, t)]
  BY IngestAssumption DEF LogGrows
<1>2. log[s] \in Seq(Text)
  BY DEF TypeOK
<1>3. /\ Append(log[s], t) \in Seq(Text)
      /\ Len(Append(log[s], t)) = Len(log[s]) + 1
      /\ \A i \in 1 .. Len(log[s]) : Append(log[s], t)[i] = log[s][i]
  BY <1>2
<1>4. \A r \in Slug : log[r] \in Seq(Text) /\ log'[r] = IF r = s THEN Append(log[s], t) ELSE log[r]
  BY <1>1 DEF TypeOK
<1>5. log' \in [Slug -> Seq(Text)]
  BY <1>1, <1>3 DEF TypeOK
<1>6. ASSUME NEW r \in Slug
      PROVE  /\ Len(log[r]) <= Len(log'[r])
             /\ \A i \in DOMAIN log[r] : i \in DOMAIN log'[r] /\ log'[r][i] = log[r][i]
  <2>1. CASE r = s
    <3> DEFINE grown == Append(log[s], t)
    <3>1. log[r] = log[s] /\ log'[r] = grown
      BY <1>4, <2>1
    <3>2. DOMAIN log[s] = 1 .. Len(log[s]) /\ Len(log[s]) \in Nat
      BY <1>2
    <3>3. DOMAIN grown = 1 .. Len(log[s]) + 1
      BY <1>2
    <3>4. Len(log[s]) <= Len(grown)
      BY <1>3, <3>2
    <3>5. \A i \in DOMAIN log[s] : i \in DOMAIN grown /\ grown[i] = log[s][i]
      BY <1>3, <3>2, <3>3
    <3> HIDE DEF grown
    <3> QED BY <3>1, <3>4, <3>5
  <2>2. CASE r # s
    BY <1>4, <2>2
  <2> QED BY <2>1, <2>2
<1> QED BY <1>5, <1>6

LEMMA LogGrowsStep ==
  ASSUME IInv, NEW s \in Slug, LogGrows(s)
  PROVE  IInv'
<1>1. TypeOK'
  BY GrownLog DEF LogGrows, IInv, TypeOK
<1>2. LinesAreThere'
  <2>1. \A r \in Slug : Len(log[r]) <= Len(log'[r]) /\ Len(log[r]) \in Nat /\ Len(log'[r]) \in Nat
    BY GrownLog DEF IInv, TypeOK
  <2>2. \A x \in Pass : pass[x].last \in Nat /\ pass'[x] = pass[x]
    BY DEF LogGrows, IInv, TypeOK
  <2> SUFFICES ASSUME NEW x \in Pass
               PROVE  /\ pass[x].pc # "idle" => pass[x].target \in Slug
                      /\ pass[x].pc = "fetched" => /\ pass[x].first >= 1
                                                   /\ pass[x].last <= Len(log'[pass[x].target])
    BY <2>2 DEF LinesAreThere
  <2>3. CASE pass[x].pc # "fetched"
    BY <2>3 DEF IInv, LinesAreThere
  <2>4. CASE pass[x].pc = "fetched"
    <3>1. /\ pass[x].target \in Slug /\ pass[x].first >= 1
          /\ pass[x].last <= Len(log[pass[x].target])
      BY <2>4 DEF IInv, LinesAreThere
    <3> QED BY <3>1, <2>1, <2>2
  <2> QED BY <2>3, <2>4
<1> QED BY <1>1, <1>2 DEF IInv

LEMMA InitIInv == Init => IInv
<1> SUFFICES ASSUME Init PROVE IInv
  OBVIOUS
<1>1. log \in [Slug -> Seq(Text)]
  BY DEF Init
<1>2. mem \in [Process -> Memory] /\ stored \in BOOLEAN
  BY MemoryType DEF Init
<1>3. inserted \in [Process -> [Slug -> [Line -> Nat]]]
  BY NoEventsType DEF Init
<1>4. pass \in [Pass -> [pc : {"idle", "fetching", "fetched"}, target : Slug \cup {None},
                         read : Memory, first : Nat, last : Nat]]
  BY IdleType DEF Init
<1>5. count \in Counts /\ wanted \in Slug \cup {None} /\ scans \in [Process -> Nat]
  BY IngestAssumption DEF Init, Counts
<1>6. TypeOK
  BY <1>1, <1>2, <1>3, <1>4, <1>5 DEF TypeOK, Counts
<1>7. LinesAreThere
  BY DEF Init, LinesAreThere, IdlePass
<1> QED BY <1>6, <1>7 DEF IInv

LEMMA NextIInv == IInv /\ [Next]_vars => IInv'
<1> SUFFICES ASSUME IInv, [Next]_vars PROVE IInv'
  OBVIOUS
<1>1. CASE UNCHANGED vars
  BY <1>1 DEF vars, IInv, TypeOK, LinesAreThere
<1>2. CASE Next
  BY <1>2, BeginStep, FetchedStep, FetchFailsStep, IngestStep, SetSlugStep, RestartStep, LogGrowsStep
     DEF Next
<1> QED BY <1>1, <1>2

\* Memory and passes hold what the code's dictionaries hold, however passes,
\* calls of set_slug and restarts interleave (pipeline/otbr_adapter.py).
THEOREM TypesHold == Spec => []TypeOK
<1>1. Spec => []IInv
  BY InitIInv, NextIInv, PTL DEF Spec
<1>2. IInv => TypeOK
  BY DEF IInv
<1> QED BY <1>1, <1>2, PTL

-----------------------------------------------------------------------------
(* cursors *)

\* The cursor of a state is a line of the log of its add-on.
Held(m) == m.cursor # None => /\ m.slug \in Slug
                              /\ \E i \in DOMAIN log[m.slug] : log[m.slug][i] = m.cursor

\* What a pass has read is as good as what memory holds, and it ingests the
\* add-on it has read, since nobody names another.
PassesAreFaithful ==
  \A x \in Pass : pass[x].pc # "idle" => /\ Held(pass[x].read)
                                        /\ pass[x].target = pass[x].read.slug

CursorsHeld == (\A p \in Process : Held(mem[p])) /\ PassesAreFaithful

LEMMA NoMemoryHeld == Held(NoMemory) /\ \A s : Held([slug |-> s, cursor |-> None])
BY DEF Held, NoMemory

\* What is held stays held.
LEMMA HeldStays ==
  ASSUME TypeOK, NEW m, Held(m),
         log' = log \/ \E s \in Slug : LogGrows(s)
  PROVE  Held(m)'
<1>1. CASE log' = log
  BY <1>1 DEF Held
<1>2. ASSUME NEW s \in Slug, LogGrows(s)
      PROVE  Held(m)'
  BY <1>2, GrownLog DEF Held
<1> QED BY <1>1, <1>2

\* A step that writes one held state, and starts or ends passes, keeps them.
LEMMA WriteHeld ==
  ASSUME TypeOK, CursorsHeld, log' = log, NEW p \in Process, NEW m \in Memory, Held(m),
         WriteState(p, m),
         \A x \in Pass : pass'[x] = pass[x] \/ pass'[x].pc = "idle"
  PROVE  CursorsHeld'
<1>1. mem'[p] = m /\ \A q \in Process \ {p} : mem'[q] = mem[q]
  BY WriteType
<1>2. \A q \in Process : Held(mem[q])'
  BY <1>1 DEF CursorsHeld, Held
<1>3. PassesAreFaithful'
  BY DEF CursorsHeld, PassesAreFaithful, Held
<1> QED BY <1>2, <1>3 DEF CursorsHeld

LEMMA BeginHeld ==
  ASSUME IInv, CursorsHeld, Overrides = {}, NEW x \in Pass, Begin(x)
  PROVE  CursorsHeld'
<1>1. home[x] \in Process /\ log' = log
  BY IngestAssumption DEF Begin
<1>2. ReadState(home[x]) \in Memory /\ Held(ReadState(home[x]))
  BY <1>1, ReadType, NoMemoryHeld DEF IInv, CursorsHeld
<1>3. CASE WriteState(home[x], ReadState(home[x])) /\ UNCHANGED pass
  BY <1>1, <1>2, <1>3, WriteHeld DEF IInv
<1>4. CASE /\ pass' = [pass EXCEPT ![x] = [IdlePass EXCEPT !.pc = "fetching",
                                             !.read = ReadState(home[x]),
                                             !.target = ReadState(home[x]).slug]]
           /\ UNCHANGED <<mem, stored>>
  <2>1. /\ pass'[x].read = ReadState(home[x]) /\ pass'[x].target = ReadState(home[x]).slug
        /\ \A y \in Pass \ {x} : pass'[y] = pass[y]
    BY <1>4 DEF IInv, TypeOK, IdlePass
  <2>2. PassesAreFaithful'
    BY <1>1, <1>2, <2>1 DEF CursorsHeld, PassesAreFaithful, Held
  <2> QED BY <1>1, <1>4, <2>2 DEF CursorsHeld, Held
<1> QED BY <1>3, <1>4 DEF Begin

LEMMA FetchedHeld ==
  ASSUME IInv, CursorsHeld, NEW x \in Pass, Fetched(x)
  PROVE  CursorsHeld'
<1>1. /\ pass'[x].read = pass[x].read /\ pass'[x].target = pass[x].target
      /\ \A y \in Pass \ {x} : pass'[y] = pass[y]
  BY DEF Fetched, IInv, TypeOK
<1>2. log' = log /\ mem' = mem /\ pass[x].pc = "fetching"
  BY DEF Fetched
<1> QED BY <1>1, <1>2 DEF CursorsHeld, PassesAreFaithful, Held

LEMMA FetchFailsHeld ==
  ASSUME IInv, CursorsHeld, NEW x \in Pass, FetchFails(x)
  PROVE  CursorsHeld'
<1>1. home[x] \in Process /\ log' = log /\ pass[x].read \in Memory
  BY IngestAssumption DEF FetchFails, IInv, TypeOK
<1>2. Held(pass[x].read)
  BY DEF FetchFails, CursorsHeld, PassesAreFaithful
<1>3. \A y \in Pass : pass'[y] = pass[y] \/ pass'[y].pc = "idle"
  BY DEF FetchFails, IInv, TypeOK, IdlePass
<1> QED BY <1>1, <1>2, <1>3, WriteHeld DEF FetchFails, IInv

\* A pass that got no line keeps the cursor it has read, and one that got some
\* takes the last of them.
LEMMA IngestHeld ==
  ASSUME IInv, CursorsHeld, NEW x \in Pass, Ingest(x)
  PROVE  CursorsHeld'
<1> DEFINE written == [slug |-> pass[x].target,
                       cursor |-> IF Got(x) = {} THEN pass[x].read.cursor
                                  ELSE log[pass[x].target][pass[x].last]]
<1>1. home[x] \in Process /\ log' = log /\ pass[x].pc = "fetched"
  BY IngestAssumption DEF Ingest
<1>2. written \in Memory
  BY <1>1, WrittenType
<1>3. Held(written)
  <2>1. Held(pass[x].read) /\ pass[x].target = pass[x].read.slug /\ pass[x].target \in Slug
    BY <1>1 DEF IInv, CursorsHeld, PassesAreFaithful, LinesAreThere
  <2>2. CASE Got(x) = {}
    BY <2>1, <2>2 DEF Held
  <2>3. CASE Got(x) # {}
    BY <1>1, <2>1, <2>3, LastLine DEF Held
  <2> QED BY <2>2, <2>3
<1>4. \A y \in Pass : pass'[y] = pass[y] \/ pass'[y].pc = "idle"
  BY DEF Ingest, IInv, TypeOK, IdlePass
<1>5. WriteState(home[x], written)
  BY DEF Ingest
<1> HIDE DEF written
<1> QED BY <1>1, <1>2, <1>3, <1>4, <1>5, WriteHeld DEF IInv

LEMMA SetSlugHeld ==
  ASSUME IInv, CursorsHeld, NEW p \in Setters, NEW s \in Slug, SetSlug(p, s)
  PROVE  CursorsHeld'
<1>1. p \in Process /\ SlugSet(p, s) \in Memory /\ Held(SlugSet(p, s))
  BY IngestAssumption, MemoryType, NoMemoryHeld DEF SlugSet
<1>2. log' = log /\ pass' = pass
  BY DEF SetSlug
<1> QED BY <1>1, <1>2, WriteHeld DEF SetSlug, IInv

LEMMA RestartHeld ==
  ASSUME IInv, CursorsHeld, NEW p \in Process, Restart(p)
  PROVE  CursorsHeld'
<1>1. log' = log /\ \A q \in Process : mem'[q] = mem[q] \/ mem'[q] = NoMemory
  BY DEF Restart, IInv, TypeOK
<1>2. \A x \in Pass : pass'[x] = pass[x] \/ pass'[x].pc = "idle"
  BY DEF Restart, IdlePass
<1>3. \A q \in Process : Held(mem[q])'
  BY <1>1, NoMemoryHeld DEF CursorsHeld, Held
<1> QED BY <1>1, <1>2, <1>3 DEF CursorsHeld, PassesAreFaithful, Held

LEMMA LogGrowsHeld ==
  ASSUME IInv, CursorsHeld, NEW s \in Slug, LogGrows(s)
  PROVE  CursorsHeld'
<1>1. mem' = mem /\ pass' = pass
  BY DEF LogGrows
<1>2. ASSUME NEW m, Held(m)
      PROVE  Held(m)'
  BY <1>2, HeldStays DEF IInv
<1>3. \A p \in Process : Held(mem[p])'
  BY <1>1, <1>2 DEF CursorsHeld, Held
<1>4. PassesAreFaithful'
  BY <1>1, <1>2 DEF CursorsHeld, PassesAreFaithful, Held
<1> QED BY <1>3, <1>4 DEF CursorsHeld

LEMMA NextHeld ==
  ASSUME Overrides = {}
  PROVE  IInv /\ CursorsHeld /\ [Next]_vars => CursorsHeld'
<1> SUFFICES ASSUME IInv, CursorsHeld, [Next]_vars PROVE CursorsHeld'
  OBVIOUS
<1>1. CASE UNCHANGED vars
  BY <1>1 DEF vars, CursorsHeld, PassesAreFaithful, Held
<1>2. CASE Next
  BY <1>2, BeginHeld, FetchedHeld, FetchFailsHeld, IngestHeld, SetSlugHeld, RestartHeld, LogGrowsHeld
     DEF Next
<1> QED BY <1>1, <1>2

\* As long as nobody asks for an add-on by name, a cursor in memory is a line
\* of the log of the add-on it is remembered with, whatever calls of set_slug
\* are made during a fetch, in whichever process, and whoever writes last
\* (pipeline/otbr_adapter.py:97).
THEOREM CursorsStayWithTheirLog ==
  ASSUME Overrides = {}
  PROVE  Spec => []CursorIsOfItsLog
<1>1. Init => CursorsHeld
  BY NoMemoryHeld DEF Init, CursorsHeld, PassesAreFaithful, IdlePass
<1>2. IInv /\ CursorsHeld /\ [Next]_vars => CursorsHeld'
  BY NextHeld
<1>3. CursorsHeld => CursorIsOfItsLog
  BY DEF CursorsHeld, Held, CursorIsOfItsLog
<1>4. Spec => []IInv
  BY InitIInv, NextIInv, PTL DEF Spec
<1> QED BY <1>1, <1>2, <1>3, <1>4, PTL DEF Spec

-----------------------------------------------------------------------------
(* scans *)

\* The line up to which a state m of the process p has been read: from there
\* on, and in the logs of other add-ons, nothing was inserted in this scan.
Below(p, slug, k) ==
  \A s \in Slug, i \in Line : s # slug \/ i > k => inserted[p][s][i] < scans[p]

Stands(p, m, k) ==
  /\ IF m.cursor = None THEN k = 0
     ELSE m.slug \in Slug /\ k \in DOMAIN log[m.slug] /\ log[m.slug][k] = m.cursor
  /\ Below(p, m.slug, k)

Counted(p) ==
  /\ scans[p] >= 1
  /\ \A s \in Slug, i \in Line : inserted[p][s][i] <= scans[p]
  /\ \E k \in Nat : Stands(p, mem[p], k)

\* A pass stands where the state it has read does; the lines it got reach
\* that far.
Reaches(x) ==
  pass[x].pc # "idle" =>
    /\ pass[x].target = pass[x].read.slug
    /\ \E k \in Nat : /\ Stands(home[x], pass[x].read, k)
                      /\ pass[x].pc = "fetched" => k <= pass[x].last

Unwritten == ~stored => \A p \in Process, s \in Slug, i \in Line : inserted[p][s][i] = 0

ScansInv == (\A p \in Process : Counted(p)) /\ (\A x \in Pass : Reaches(x)) /\ Unwritten

\* Nobody names another add-on, and a process has one pass.
OnePass == Overrides = {} /\ \A x, y \in Pass : home[x] = home[y] => x = y

LEMMA EventTypes ==
  ASSUME TypeOK
  PROVE  \A p \in Process : /\ scans[p] \in Nat
                            /\ \A s \in Slug, i \in Line : inserted[p][s][i] \in Nat
BY DEF TypeOK

LEMMA LineIsNat == Line \subseteq Nat
<1>1. \A s \in Slug : MaxLines[s] \in Nat
  BY IngestAssumption
<1> QED BY <1>1 DEF Line

\* Where a state stands it stays, when logs grow, scans begin and events go.
LEMMA StandsStays ==
  ASSUME TypeOK, TypeOK', NEW p \in Process, NEW m, NEW k \in Nat, Stands(p, m, k),
         log' = log \/ \E s \in Slug : LogGrows(s),
         scans[p] <= scans'[p],
         \A s \in Slug, i \in Line : inserted'[p][s][i] <= inserted[p][s][i]
  PROVE  Stands(p, m, k)'
<1>1. Below(p, m.slug, k)'
  <2>1. /\ scans[p] \in Nat /\ scans'[p] \in Nat
        /\ \A s \in Slug, i \in Line : inserted[p][s][i] \in Nat /\ inserted'[p][s][i] \in Nat
    BY DEF TypeOK
  <2> QED BY <2>1 DEF Stands, Below
<1>2. ASSUME m.slug \in Slug, k \in DOMAIN log[m.slug], log[m.slug][k] = m.cursor
      PROVE  k \in DOMAIN log'[m.slug] /\ log'[m.slug][k] = m.cursor
  <2>1. CASE log' = log
    BY <1>2, <2>1
  <2>2. CASE \E s \in Slug : LogGrows(s)
    BY <1>2, <2>2, GrownLog
  <2> QED BY <2>1, <2>2
<1> QED BY <1>1, <1>2 DEF Stands

\* A scan begins: nothing was inserted in it.
LEMMA NewScan ==
  ASSUME NEW p \in Process, NEW m, m.cursor = None,
         \A s \in Slug, i \in Line : inserted[p][s][i] < scans[p]
  PROVE  \E k \in Nat : Stands(p, m, k)
<1>1. Stands(p, m, 0)
  BY DEF Stands, Below
<1> QED BY <1>1

\* A step of the passes of others, of the logs or of the count of scans leaves a
\* process and its passes where they stand.
LEMMA Bystander ==
  ASSUME TypeOK, TypeOK', ScansInv, NEW p \in Process,
         log' = log \/ \E s \in Slug : LogGrows(s),
         scans[p] <= scans'[p],
         \A s \in Slug, i \in Line : inserted'[p][s][i] <= inserted[p][s][i]
  PROVE  /\ mem'[p] = mem[p] => Counted(p)'
         /\ \A x \in Pass : home[x] = p /\ (pass'[x] = pass[x] \/ pass'[x].pc = "idle") => Reaches(x)'
<1>1. /\ scans[p] \in Nat /\ scans'[p] \in Nat
      /\ \A s \in Slug, i \in Line : inserted[p][s][i] \in Nat /\ inserted'[p][s][i] \in Nat
  BY DEF TypeOK
<1>2. Counted(p)
  BY DEF ScansInv
<1>3. scans'[p] >= 1 /\ \A s \in Slug, i \in Line : inserted'[p][s][i] <= scans'[p]
  BY <1>1, <1>2 DEF Counted
<1>4. \A m : \A k \in Nat : Stands(p, m, k) => Stands(p, m, k)'
  BY StandsStays
<1>5. ASSUME mem'[p] = mem[p] PROVE Counted(p)'
  <2>1. PICK k \in Nat : Stands(p, mem[p], k)
    BY <1>2 DEF Counted
  <2>2. PICK m : m = mem[p] /\ m = mem'[p]
    BY <1>5
  <2>3. Stands(p, m, k)'
    BY <1>4, <2>1, <2>2 DEF Stands, Below
  <2>4. Stands(p, mem[p], k)'
    BY <2>2, <2>3 DEF Stands, Below
  <2> QED BY <1>3, <2>4 DEF Counted
<1>6. ASSUME NEW x \in Pass, home[x] = p, pass'[x] = pass[x] \/ pass'[x].pc = "idle"
      PROVE  Reaches(x)'
  <2>1. CASE pass'[x].pc = "idle"
    BY <2>1 DEF Reaches
  <2>2. CASE pass'[x].pc # "idle" /\ pass'[x] = pass[x]
    <3>1. PICK k \in Nat : /\ Stands(p, pass[x].read, k)
                           /\ pass[x].pc = "fetched" => k <= pass[x].last
      BY <1>6, <2>2 DEF ScansInv, Reaches
    <3>2. PICK m : m = pass[x].read /\ m = pass'[x].read
      BY <2>2
    <3>3. Stands(p, m, k)'
      BY <1>4, <3>1, <3>2 DEF Stands, Below
    <3>4. Stands(home[x], pass[x].read, k)'
      BY <1>6, <3>2, <3>3 DEF Stands, Below
    <3> QED BY <2>2, <3>1, <3>4 DEF ScansInv, Reaches
  <2> QED BY <1>6, <2>1, <2>2
<1> QED BY <1>5, <1>6

\* The state that a pass begins with.
LEMMA ReadStands ==
  ASSUME TypeOK, ScansInv, NEW p \in Process
  PROVE  \E k \in Nat : Stands(p, ReadState(p), k)
<1>1. CASE stored
  BY <1>1 DEF ScansInv, Counted, ReadState
<1>2. CASE ~stored
  <2>1. \A s \in Slug, i \in Line : inserted[p][s][i] < scans[p]
    BY <1>2, EventTypes DEF ScansInv, Unwritten, Counted
  <2> QED BY <1>2, <2>1, NewScan, MemoryType DEF ReadState
<1> QED BY <1>1, <1>2

\* A step that inserts nothing, and writes where a state stands for the process
\* or nothing at all.
LEMMA Writes ==
  ASSUME TypeOK, TypeOK', ScansInv, NEW p \in Process, NEW m \in Memory,
         UNCHANGED <<log, inserted, scans>>,
         \/ WriteState(p, m) /\ \E k \in Nat : Stands(p, m, k)
         \/ UNCHANGED <<mem, stored>>
  PROVE  (\A q \in Process : Counted(q)') /\ Unwritten'
<1>1. \A q \in Process : scans[q] <= scans'[q]
  BY DEF TypeOK
<1>2. \A q \in Process, s \in Slug, i \in Line : inserted'[q][s][i] <= inserted[q][s][i]
  BY EventTypes
<1>3. \A q \in Process : mem'[q] = mem[q] => Counted(q)'
  BY <1>1, <1>2, Bystander
<1>4. CASE UNCHANGED <<mem, stored>>
  BY <1>3, <1>4 DEF ScansInv, Unwritten
<1>5. CASE WriteState(p, m) /\ \E k \in Nat : Stands(p, m, k)
  <2>1. mem'[p] = m /\ (\A q \in Process \ {p} : mem'[q] = mem[q]) /\ stored'
    BY <1>5, WriteType DEF WriteState
  <2>2. PICK k \in Nat : Stands(p, m, k)
    BY <1>5
  <2>3. Stands(p, mem[p], k)'
    BY <2>1, <2>2 DEF Stands, Below
  <2>4. Counted(p)'
    BY <2>3 DEF ScansInv, Counted
  <2> QED BY <1>3, <2>1, <2>4 DEF Unwritten
<1> QED BY <1>4, <1>5

\* Nothing happens to a pass in a step that inserts nothing.
LEMMA ReachesStays ==
  ASSUME TypeOK, TypeOK', ScansInv, UNCHANGED <<log, inserted, scans>>,
         NEW x \in Pass, pass'[x] = pass[x] \/ pass'[x].pc = "idle"
  PROVE  Reaches(x)'
<1>1. home[x] \in Process
  BY IngestAssumption
<1>2. scans[home[x]] <= scans'[home[x]]
  BY <1>1, EventTypes
<1>3. \A s \in Slug, i \in Line : inserted'[home[x]][s][i] <= inserted[home[x]][s][i]
  BY <1>1, EventTypes
<1> QED BY <1>1, <1>2, <1>3, Bystander

LEMMA BeginScans ==
  ASSUME IInv, IInv', ScansInv, Overrides = {}, NEW x \in Pass, Begin(x)
  PROVE  ScansInv'
<1>1. home[x] \in Process /\ UNCHANGED <<log, inserted, scans>>
  BY IngestAssumption DEF Begin
<1>2. ReadState(home[x]) \in Memory /\ \E k \in Nat : Stands(home[x], ReadState(home[x]), k)
  BY <1>1, ReadType, ReadStands DEF IInv
<1>3. (\A q \in Process : Counted(q)') /\ Unwritten'
  <2>1. WriteState(home[x], ReadState(home[x])) \/ UNCHANGED <<mem, stored>>
    BY DEF Begin
  <2> QED BY <1>1, <1>2, <2>1, Writes DEF IInv
<1>4. CASE UNCHANGED pass
  <2>1. \A y \in Pass : Reaches(y)'
    BY <1>1, <1>4, ReachesStays DEF IInv
  <2> QED BY <1>3, <2>1 DEF ScansInv
<1>5. CASE pass' = [pass EXCEPT ![x] = [IdlePass EXCEPT !.pc = "fetching",
                                          !.read = ReadState(home[x]),
                                          !.target = ReadState(home[x]).slug]]
  <2>1. /\ pass'[x].read = ReadState(home[x]) /\ pass'[x].target = ReadState(home[x]).slug
        /\ pass'[x].pc = "fetching"
        /\ \A y \in Pass \ {x} : pass'[y] = pass[y]
    BY <1>5 DEF IInv, TypeOK, IdlePass
  <2>2. PICK k \in Nat : Stands(home[x], ReadState(home[x]), k)
    BY <1>2
  <2>3. Stands(home[x], pass[x].read, k)'
    BY <1>1, <2>1, <2>2 DEF Stands, Below
  <2>4. Reaches(x)'
    BY <2>1, <2>3 DEF Reaches
  <2>5. \A y \in Pass \ {x} : Reaches(y)'
    BY <1>1, <2>1, ReachesStays DEF IInv
  <2> QED BY <1>3, <2>4, <2>5 DEF ScansInv
<1> QED BY <1>4, <1>5 DEF Begin

LEMMA FetchedScans ==
  ASSUME IInv, IInv', ScansInv, NEW x \in Pass, Fetched(x)
  PROVE  ScansInv'
<1> DEFINE length == Len(log[pass[x].target])
<1>1. /\ pass'[x].read = pass[x].read /\ pass'[x].target = pass[x].target
      /\ pass'[x].last = length
      /\ \A y \in Pass \ {x} : pass'[y] = pass[y]
  BY DEF Fetched, IInv, TypeOK
<1>2. /\ UNCHANGED <<log, mem, stored, inserted, scans>>
      /\ pass[x].pc = "fetching" /\ home[x] \in Process
  BY IngestAssumption DEF Fetched
<1>3. (\A q \in Process : Counted(q)') /\ Unwritten'
  BY <1>2 DEF ScansInv, Counted, Stands, Below, Unwritten
<1>4. PICK k \in Nat : Stands(home[x], pass[x].read, k) /\ pass[x].target = pass[x].read.slug
  BY <1>2 DEF ScansInv, Reaches
<1>5. Stands(home[x], pass[x].read, k)'
  BY <1>1, <1>2, <1>4 DEF Stands, Below
<1>6. k <= length
  <2>1. pass[x].target \in Slug
    BY <1>2 DEF IInv, LinesAreThere
  <2>2. log[pass[x].target] \in Seq(Text)
    BY <2>1 DEF IInv, TypeOK
  <2>3. k = 0 \/ k \in DOMAIN log[pass[x].target]
    BY <1>4 DEF Stands
  <2> QED BY <2>2, <2>3
<1>7. Reaches(x)'
  BY <1>1, <1>4, <1>5, <1>6 DEF Reaches
<1>8. \A y \in Pass \ {x} : Reaches(y)'
  BY <1>1, <1>2, ReachesStays DEF IInv
<1> QED BY <1>3, <1>7, <1>8 DEF ScansInv

LEMMA FetchFailsScans ==
  ASSUME IInv, IInv', ScansInv, NEW x \in Pass, FetchFails(x)
  PROVE  ScansInv'
<1>1. /\ home[x] \in Process /\ UNCHANGED <<log, inserted, scans>> /\ pass[x].read \in Memory
  BY IngestAssumption DEF FetchFails, IInv, TypeOK
<1>2. \E k \in Nat : Stands(home[x], pass[x].read, k)
  BY DEF FetchFails, ScansInv, Reaches
<1>3. (\A q \in Process : Counted(q)') /\ Unwritten'
  BY <1>1, <1>2, Writes DEF FetchFails, IInv
<1>4. \A y \in Pass : pass'[y] = pass[y] \/ pass'[y].pc = "idle"
  BY DEF FetchFails, IInv, TypeOK, IdlePass
<1>5. \A y \in Pass : Reaches(y)'
  BY <1>1, <1>4, ReachesStays DEF IInv
<1> QED BY <1>3, <1>5 DEF ScansInv

\* The lines a pass inserts are past the line where it stands.
LEMMA NewLinesArePast ==
  ASSUME IInv, NEW x \in Pass, pass[x].pc = "fetched", pass[x].target = pass[x].read.slug,
         NEW k \in Nat, Stands(home[x], pass[x].read, k), k <= pass[x].last
  PROVE  \A i \in NewLines(x) : i > k
<1>1. /\ pass[x].first \in Nat /\ pass[x].last \in Nat /\ pass[x].first >= 1
  BY DEF IInv, TypeOK, LinesAreThere
<1> SUFFICES ASSUME NEW i \in NewLines(x) PROVE i > k
  OBVIOUS
<1>2. i \in Got(x) /\ (\A j \in Found(x) : i > j)
  BY DEF NewLines
<1>3. i \in Nat /\ i >= pass[x].first
  BY <1>1, <1>2 DEF Got
<1>4. CASE k < pass[x].first
  BY <1>1, <1>3, <1>4
<1>5. CASE k >= pass[x].first
  <2>1. k \in Got(x)
    BY <1>1, <1>5 DEF Got
  <2>2. log[pass[x].target][k] = pass[x].read.cursor
    BY <1>1, <1>5 DEF Stands
  <2> QED BY <1>2, <2>1, <2>2 DEF Found
<1> QED BY <1>1, <1>4, <1>5

\* What an ingest adds: at most one to lines past the line where it stands.
LEMMA IngestAdds ==
  ASSUME IInv, ScansInv, NEW x \in Pass, Ingest(x)
  PROVE  \A q \in Process, s \in Slug, i \in Line :
           \/ inserted'[q][s][i] = inserted[q][s][i]
           \/ /\ q = home[x] /\ s = pass[x].target /\ i \in NewLines(x)
              /\ inserted'[q][s][i] = inserted[q][s][i] + 1
<1>1. home[x] \in Process /\ pass[x].target \in Slug
  BY IngestAssumption DEF IInv, LinesAreThere, Ingest
<1>2. PICK lost \in SUBSET NewLines(x) :
        inserted' = [inserted EXCEPT ![home[x]][pass[x].target] =
             [i \in Line |-> IF i \in NewLines(x) \ lost THEN @[i] + 1 ELSE @[i]]]
  BY DEF Ingest
<1> DEFINE old == inserted[home[x]][pass[x].target]
           new == [i \in Line |-> IF i \in NewLines(x) \ lost THEN old[i] + 1 ELSE old[i]]
<1>3. inserted' = [inserted EXCEPT ![home[x]][pass[x].target] = new]
  BY <1>2
<1>4. \A i \in Line : new[i] = old[i] \/ (i \in NewLines(x) /\ new[i] = old[i] + 1)
  OBVIOUS
<1> HIDE DEF new
<1>5. \A q \in Process, s \in Slug :
        inserted'[q][s] = IF q = home[x] /\ s = pass[x].target THEN new ELSE inserted[q][s]
  BY <1>1, <1>3 DEF IInv, TypeOK
<1> QED BY <1>4, <1>5

LEMMA IngestScans ==
  ASSUME IInv, IInv', ScansInv, OnePass, NEW x \in Pass, Ingest(x)
  PROVE  ScansInv'
<1> DEFINE p == home[x]
           s == pass[x].target
           written == [slug |-> s, cursor |-> IF Got(x) = {} THEN pass[x].read.cursor
                                              ELSE log[s][pass[x].last]]
<1>1. /\ p \in Process /\ s \in Slug /\ s = pass[x].read.slug /\ pass[x].pc = "fetched"
      /\ log' = log /\ scans' = scans
  BY IngestAssumption DEF Ingest, IInv, LinesAreThere, ScansInv, Reaches
<1>2. PICK k \in Nat : Stands(p, pass[x].read, k) /\ k <= pass[x].last
  BY <1>1 DEF ScansInv, Reaches
<1>3. \A i \in NewLines(x) : i > k
  BY <1>1, <1>2, NewLinesArePast
<1>4. \A q \in Process, r \in Slug, i \in Line :
        \/ inserted'[q][r][i] = inserted[q][r][i]
        \/ q = p /\ r = s /\ i \in NewLines(x) /\ inserted'[q][r][i] = inserted[q][r][i] + 1
  BY IngestAdds
<1>5. PICK m \in Memory : WriteState(p, m) /\ m = written
  BY <1>1, WrittenType DEF Ingest
<1>6. mem'[p] = m /\ stored' /\ \A q \in Process \ {p} : mem'[q] = mem[q]
  BY <1>1, <1>5, WriteType DEF IInv, WriteState
<1>7. pass'[x].pc = "idle" /\ \A y \in Pass \ {x} : pass'[y] = pass[y]
  BY DEF Ingest, IInv, TypeOK, IdlePass
<1>8. Counted(p)'
  <2>1. \A r \in Slug, i \in Line : /\ inserted[p][r][i] \in Nat /\ scans[p] \in Nat
                                    /\ inserted[p][r][i] <= scans[p]
                                    /\ r # s \/ i > k => inserted[p][r][i] < scans[p]
    BY <1>1, <1>2, EventTypes DEF IInv, ScansInv, Counted, Stands, Below
  <2>2. \A r \in Slug, i \in Line : inserted'[p][r][i] <= scans[p]
    BY <1>1, <1>3, <1>4, <2>1
  <2>3. \E j \in Nat : Stands(p, m, j)'
    <3>1. CASE Got(x) = {}
      <4>1. NewLines(x) = {}
        BY <3>1 DEF NewLines
      <4>2. \A r \in Slug, i \in Line : inserted'[p][r][i] = inserted[p][r][i]
        BY <1>1, <1>4, <4>1
      <4>3. m.slug = pass[x].read.slug /\ m.cursor = pass[x].read.cursor
        BY <1>1, <1>5, <3>1
      <4>4. Stands(p, m, k)'
        BY <1>1, <1>2, <4>2, <4>3 DEF Stands, Below
      <4> QED BY <4>4
    <3>2. CASE Got(x) # {}
      <4>1. /\ pass[x].last \in DOMAIN log[s] /\ log[s][pass[x].last] \in Text
            /\ pass[x].last \in Nat /\ pass[x].first \in Nat
        BY <1>1, <3>2, LastLine DEF IInv, TypeOK
      <4>2. \A i \in NewLines(x) : i <= pass[x].last
        BY <4>1 DEF NewLines, Got
      <4>3. m.slug = s /\ m.cursor = log[s][pass[x].last] /\ m.cursor # None
        BY <1>5, <3>2, <4>1, IngestAssumption
      <4>4. \A r \in Slug, i \in Line : r # s \/ i > pass[x].last => inserted'[p][r][i] < scans[p]
        BY <1>1, <1>2, <1>4, <2>1, <4>1, <4>2, LineIsNat
      <4> DEFINE last == pass[x].last
      <4> HIDE DEF last
      <4>5. last \in Nat /\ last \in DOMAIN log[s] /\ m.cursor = log[s][last]
            /\ \A r \in Slug, i \in Line : r # s \/ i > last => inserted'[p][r][i] < scans[p]
        BY <4>1, <4>3, <4>4 DEF last
      <4>6. PICK j \in Nat : j = last
        BY <4>5
      <4>7. Stands(p, m, j)'
        BY <1>1, <4>3, <4>5, <4>6 DEF Stands, Below
      <4> QED BY <4>7
    <3> QED BY <3>1, <3>2
  <2>4. scans'[p] >= 1
    BY <1>1 DEF ScansInv, Counted
  <2>5. \E j \in Nat : Stands(p, mem[p], j)'
    BY <1>6, <2>3 DEF Stands, Below
  <2> QED BY <1>1, <2>2, <2>4, <2>5 DEF Counted
<1>9. ASSUME NEW q \in Process, q # p
      PROVE  Counted(q)' /\ \A y \in Pass : home[y] = q => Reaches(y)'
  <2>1. scans[q] <= scans'[q] /\ \A r \in Slug, i \in Line : inserted'[q][r][i] <= inserted[q][r][i]
    BY <1>1, <1>4, <1>9, EventTypes DEF IInv
  <2>2. \A y \in Pass : home[y] = q => pass'[y] = pass[y]
    BY <1>7, <1>9
  <2>3. mem'[q] = mem[q]
    BY <1>6, <1>9
  <2> QED BY <1>1, <2>1, <2>2, <2>3, Bystander DEF IInv
<1>10. \A y \in Pass : Reaches(y)'
  <2>1. Reaches(x)'
    BY <1>7 DEF Reaches
  <2>2. \A y \in Pass \ {x} : home[y] \in Process /\ home[y] # p
    BY IngestAssumption DEF OnePass
  <2> QED BY <1>9, <2>1, <2>2
<1> QED BY <1>6, <1>8, <1>9, <1>10 DEF ScansInv, Unwritten

\* A process starts from no cursor: its scan has inserted nothing.
LEMMA Restarts ==
  ASSUME TypeOK, TypeOK', ScansInv, NEW p \in Process, log' = log,
         scans' = [scans EXCEPT ![p] = @ + 1], mem'[p].cursor = None,
         \A q \in Process \ {p} : mem'[q] = mem[q],
         \A q \in Process, s \in Slug, i \in Line : inserted'[q][s][i] <= inserted[q][s][i],
         \A x \in Pass : pass'[x] = pass[x] \/ pass'[x].pc = "idle"
  PROVE  (\A q \in Process : Counted(q)') /\ (\A x \in Pass : Reaches(x)')
<1>1. \A q \in Process : scans[q] \in Nat /\ scans'[q] = IF q = p THEN scans[q] + 1 ELSE scans[q]
  BY DEF TypeOK
<1>2. \A q \in Process : scans[q] <= scans'[q]
  BY <1>1
<1>3. \A q \in Process : \A x \in Pass : home[x] = q => Reaches(x)'
  BY <1>2, Bystander
<1>4. \A q \in Process \ {p} : Counted(q)'
  BY <1>2, Bystander
<1>5. Counted(p)'
  <2>1. \A s \in Slug, i \in Line : inserted'[p][s][i] < scans'[p]
    <3>1. \A s \in Slug, i \in Line : /\ inserted[p][s][i] \in Nat /\ inserted'[p][s][i] \in Nat
                                      /\ inserted[p][s][i] <= scans[p]
      BY EventTypes DEF ScansInv, Counted, TypeOK
    <3> QED BY <1>1, <3>1
  <2>2. Stands(p, mem[p], 0)'
    BY <2>1 DEF Stands, Below
  <2>3. scans'[p] >= 1
    BY <1>1 DEF ScansInv, Counted
  <2>4. \A s \in Slug, i \in Line : inserted'[p][s][i] <= scans'[p]
    BY <2>1, <1>1 DEF TypeOK
  <2> QED BY <2>2, <2>3, <2>4 DEF Counted
<1>6. \A x \in Pass : home[x] \in Process
  BY IngestAssumption
<1> QED BY <1>3, <1>4, <1>5, <1>6

LEMMA SetSlugScans ==
  ASSUME IInv, IInv', ScansInv, NEW p \in Setters, NEW s \in Slug, SetSlug(p, s)
  PROVE  ScansInv'
<1>1. /\ p \in Process /\ SlugSet(p, s) \in Memory /\ SlugSet(p, s).cursor = None
      /\ WriteState(p, SlugSet(p, s)) /\ UNCHANGED <<log, inserted, pass>>
      /\ scans' = [scans EXCEPT ![p] = @ + 1]
  BY IngestAssumption, MemoryType DEF SetSlug, SlugSet
<1>2. mem'[p].cursor = None /\ stored' /\ \A q \in Process \ {p} : mem'[q] = mem[q]
  BY <1>1, WriteType DEF IInv, WriteState
<1>3. \A q \in Process, r \in Slug, i \in Line : inserted'[q][r][i] <= inserted[q][r][i]
  BY <1>1, EventTypes DEF IInv
<1>4. (\A q \in Process : Counted(q)') /\ (\A x \in Pass : Reaches(x)')
  BY <1>1, <1>2, <1>3, Restarts DEF IInv
<1> QED BY <1>2, <1>4 DEF ScansInv, Unwritten

LEMMA RestartScans ==
  ASSUME IInv, IInv', ScansInv, NEW p \in Process, Restart(p)
  PROVE  ScansInv'
<1>1. log' = log /\ scans' = [scans EXCEPT ![p] = @ + 1] /\ mem' = [mem EXCEPT ![p] = NoMemory]
  BY DEF Restart
<1>2. mem'[p].cursor = None /\ \A q \in Process \ {p} : mem'[q] = mem[q]
  BY <1>1, MemoryType DEF IInv, TypeOK
<1>3. \A x \in Pass : pass'[x] = pass[x] \/ pass'[x].pc = "idle"
  BY DEF Restart, IdlePass
<1>4. inserted' = NoEvents => \A q \in Process, s \in Slug, i \in Line : inserted'[q][s][i] = 0
  BY DEF NoEvents
<1>5. \A q \in Process, s \in Slug, i \in Line : inserted'[q][s][i] <= inserted[q][s][i]
  BY <1>4, EventTypes DEF Restart, IInv
<1>6. Unwritten'
  BY <1>4 DEF Restart, ScansInv, Unwritten
<1>7. (\A q \in Process : Counted(q)') /\ (\A x \in Pass : Reaches(x)')
  BY <1>1, <1>2, <1>3, <1>5, Restarts DEF IInv
<1> QED BY <1>6, <1>7 DEF ScansInv

LEMMA LogGrowsScans ==
  ASSUME IInv, IInv', ScansInv, NEW s \in Slug, LogGrows(s)
  PROVE  ScansInv'
<1>1. UNCHANGED <<mem, stored, inserted, pass, scans>>
  BY DEF LogGrows
<1>2. \A p \in Process : scans[p] <= scans'[p]
  BY <1>1, EventTypes DEF IInv
<1>3. \A p \in Process, r \in Slug, i \in Line : inserted'[p][r][i] <= inserted[p][r][i]
  BY <1>1, EventTypes DEF IInv
<1>4. \A p \in Process : Counted(p)' /\ \A x \in Pass : home[x] = p => Reaches(x)'
  BY <1>1, <1>2, <1>3, Bystander DEF IInv
<1>5. \A x \in Pass : home[x] \in Process
  BY IngestAssumption
<1> QED BY <1>1, <1>4, <1>5 DEF ScansInv, Unwritten

LEMMA NextScans ==
  ASSUME OnePass
  PROVE  IInv /\ ScansInv /\ [Next]_vars => ScansInv'
<1> SUFFICES ASSUME IInv, ScansInv, [Next]_vars PROVE ScansInv'
  OBVIOUS
<1>1. CASE UNCHANGED vars
  BY <1>1 DEF vars, ScansInv, Counted, Reaches, Unwritten, Stands, Below
<1>2. CASE Next
  <2>1. IInv'
    BY NextIInv
  <2> QED BY <1>2, <2>1, BeginScans, FetchedScans, FetchFailsScans, IngestScans, SetSlugScans,
             RestartScans, LogGrowsScans DEF Next, OnePass
<1> QED BY <1>1, <1>2

LEMMA InitScans == Init => ScansInv
<1> SUFFICES ASSUME Init PROVE ScansInv
  OBVIOUS
<1>1. \A p \in Process, s \in Slug, i \in Line : inserted[p][s][i] = 0 /\ scans[p] = 1
  BY DEF Init, NoEvents
<1>2. \A p \in Process : mem[p].cursor = None /\ scans[p] = 1
  BY MemoryType DEF Init
<1>3. \A p \in Process : Counted(p)
  BY <1>1, <1>2, NewScan DEF Counted
<1>4. \A x \in Pass : Reaches(x)
  BY DEF Init, IdlePass, Reaches
<1> QED BY <1>1, <1>3, <1>4 DEF ScansInv, Unwritten

\* As long as a process has one pass at a time and nobody asks for an add-on by
\* name, a line is inserted at most once for each time the process started from
\* no cursor, even when texts repeat, the log rotates and fetches fail
\* (pipeline/otbr_adapter.py:5-7).
THEOREM LinesOncePerScan ==
  ASSUME OnePass
  PROVE  Spec => []OncePerScan
<1>1. ScansInv => OncePerScan
  BY DEF ScansInv, Counted, OncePerScan
<1>2. IInv /\ ScansInv /\ [Next]_vars => ScansInv'
  BY NextScans
<1>3. Spec => []IInv
  BY InitIInv, NextIInv, PTL DEF Spec
<1> QED BY <1>1, <1>2, <1>3, InitScans, PTL DEF Spec
=============================================================================
