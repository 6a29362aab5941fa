---------------------------- MODULE OtbrLogIngest ----------------------------
(***************************************************************************)
(* The ingest of the border router's log (pipeline/otbr_adapter.py): fetch *)
(* the newest lines from the Supervisor, find the line where the previous  *)
(* pass stopped, insert the events of the lines after it.                  *)
(*                                                                         *)
(* The core service and the MCP service are two processes over one         *)
(* database.  The configured add-on and the cursor (the hash of the last   *)
(* line seen) are in each process's memory; the ingest_state row only      *)
(* holds counters, but while there is no row the memory is not read.  A    *)
(* pass awaits the fetch, and other passes and calls run meanwhile.        *)
(***************************************************************************)
EXTENDS Naturals, Sequences, FiniteSetsExt, Functions

CONSTANTS
  Process,      \* the services
  Core,         \* the one whose pipeline loop ingests
  Pass,         \* passes that can be in flight
  Loop,         \* the one of the pipeline loop
  home,         \* the process of each pass
  Slug,         \* add-ons with a log
  Text,         \* lines, as far as their hash tells them apart
  Texts,        \* those that each log may have
  None,
  Window,       \* how many lines the Supervisor returns
  Setters,      \* the processes whose set_slug is called
  Overrides,    \* the add-ons that ingest_now is asked for by name
  MaxLines,     \* bound: lines of each log
  MaxSets, MaxRestarts, MaxFailures   \* bounds: calls of set_slug, restarts of a
                                      \* process, inserts that fail

ASSUME IngestAssumption ==
  /\ Core \in Process /\ Loop \in Pass /\ Setters \subseteq Process
  /\ Overrides \subseteq Slug
  /\ home \in [Pass -> Process] /\ home[Loop] = Core
  /\ None \notin Slug \cup Text
  /\ Window \in Nat \ {0}
  /\ MaxLines \in [Slug -> Nat] /\ Texts \in [Slug -> SUBSET Text]
  /\ {MaxSets, MaxRestarts, MaxFailures} \subseteq Nat

VARIABLES
  log,        \* the add-ons' logs
  mem,        \* _MEM_STATE of each process: slug, and cursor (last_line_hash)
  stored,     \* whether the ingest_state row exists
  inserted,   \* how often each line is in the events table, by who inserted it
  pass,       \* where each pass stands
  count,      \* how often each bounded event has happened
  wanted,     \* history: the add-on set_slug was last called with
  scans       \* history: how often each process has started from no cursor

vars == <<log, mem, stored, inserted, pass, count, wanted, scans>>

Line     == UNION {1 .. MaxLines[s] : s \in Slug}
Memory   == [slug : Slug \cup {None}, cursor : Text \cup {None}]
NoMemory == [slug |-> None, cursor |-> None]
NoEvents == [p \in Process |-> [s \in Slug |-> [i \in Line |-> 0]]]

\* read: the state as the pass read it; first, last: the lines it got.
IdlePass == [pc |-> "idle", target |-> None, read |-> NoMemory, first |-> 1, last |-> 0]

Init ==
  /\ log = [s \in Slug |-> << >>]
  /\ mem = [p \in Process |-> NoMemory] /\ stored = FALSE
  /\ inserted = NoEvents
  /\ pass = [x \in Pass |-> IdlePass]
  /\ count = [sets |-> 0, restarts |-> 0, failures |-> 0]
  /\ wanted = None /\ scans = [p \in Process |-> 1]

\* _read_state
ReadState(p) == IF stored THEN mem[p] ELSE NoMemory

\* _write_state: memory and row.
WriteState(p, state) == mem' = [mem EXCEPT ![p] = state] /\ stored' = TRUE

\* ingest_once up to its fetch.  The loop names no add-on; without a target
\* the pass only notes the error.
Begin(x) ==
  LET read   == ReadState(home[x])
      Target == {read.slug} \cup (IF x = Loop THEN {} ELSE Overrides)
  IN /\ pass[x].pc = "idle"
     /\ \/ /\ read.slug = None
           /\ WriteState(home[x], read)
           /\ UNCHANGED pass
        \/ /\ \E s \in Target \ {None} :
                pass' = [pass EXCEPT ![x] = [IdlePass EXCEPT !.pc = "fetching",
                                                !.read = read, !.target = s]]
           /\ UNCHANGED <<mem, stored>>
     /\ UNCHANGED <<log, inserted, count, wanted, scans>>

\* The Supervisor sends the end of the log.
Fetched(x) ==
  LET length == Len(log[pass[x].target])
  IN /\ pass[x].pc = "fetching"
     /\ pass' = [pass EXCEPT ![x].pc = "fetched", ![x].last = length,
                   ![x].first = IF length > Window THEN length - Window + 1 ELSE 1]
     /\ UNCHANGED <<log, mem, stored, inserted, count, wanted, scans>>

\* The fetch fails: the state goes back as it was read.
FetchFails(x) ==
  /\ pass[x].pc = "fetching"
  /\ WriteState(home[x], pass[x].read)
  /\ pass' = [pass EXCEPT ![x] = IdlePass]
  /\ UNCHANGED <<log, inserted, count, wanted, scans>>

Got(x)   == pass[x].first .. pass[x].last
Found(x) == {i \in Got(x) : log[pass[x].target][i] = pass[x].read.cursor}

\* Broken: the cursor's own line is taken again.
NewLinesInclusive(x) ==
  IF Found(x) = {} THEN Got(x) ELSE {i \in Got(x) : i >= Max(Found(x))}

\* Broken: nothing is new when the cursor has scrolled away.
NewLinesUnrotated(x) ==
  IF Found(x) = {} /\ pass[x].read.cursor # None THEN {}
  ELSE {i \in Got(x) : \A j \in Found(x) : i > j}

\* _slice_new_lines: after the last line with the cursor's hash, or all.
NewLines(x) == {i \in Got(x) : \A j \in Found(x) : i > j}

\* The rest of ingest_once.  An insert that fails is logged and passed over.
Ingest(x) ==
  LET p == home[x]
      s == pass[x].target
  IN /\ pass[x].pc = "fetched"
     /\ \E lost \in SUBSET NewLines(x) :
          /\ count.failures + Cardinality(lost) <= MaxFailures
          /\ count' = [count EXCEPT !.failures = @ + Cardinality(lost)]
          /\ inserted' = [inserted EXCEPT ![p][s] =
               [i \in Line |-> IF i \in NewLines(x) \ lost THEN @[i] + 1 ELSE @[i]]]
     /\ WriteState(p, [slug |-> s,
                       cursor |-> IF Got(x) = {} THEN pass[x].read.cursor
                                  ELSE log[s][pass[x].last]])
     /\ pass' = [pass EXCEPT ![x] = IdlePass]
     /\ UNCHANGED <<log, wanted, scans>>

\* Broken: the cursor stays that of the add-on before.
SlugSetKeepingCursor(p, s) == [mem[p] EXCEPT !.slug = s]

SlugSet(p, s) == [slug |-> s, cursor |-> None]

SetSlug(p, s) ==
  /\ count.sets < MaxSets
  /\ count' = [count EXCEPT !.sets = @ + 1]
  /\ WriteState(p, SlugSet(p, s))
  /\ wanted' = s
  /\ scans' = [scans EXCEPT ![p] = @ + 1]
  /\ UNCHANGED <<log, inserted, pass>>

\* A process restarts and its memory is gone; the core service may wipe events
\* and ingest_state.
Restart(p) ==
  /\ count.restarts < MaxRestarts
  /\ count' = [count EXCEPT !.restarts = @ + 1]
  /\ mem' = [mem EXCEPT ![p] = NoMemory]
  /\ pass' = [x \in Pass |-> IF home[x] = p THEN IdlePass ELSE pass[x]]
  /\ scans' = [scans EXCEPT ![p] = @ + 1]
  /\ \/ UNCHANGED <<stored, inserted>>
     \/ p = Core /\ stored' = FALSE /\ inserted' = NoEvents
  /\ UNCHANGED <<log, wanted>>

LogGrows(s) ==
  /\ Len(log[s]) < MaxLines[s]
  /\ \E text \in Texts[s] : log' = [log EXCEPT ![s] = Append(@, text)]
  /\ UNCHANGED <<mem, stored, inserted, pass, count, wanted, scans>>

Next ==
  \/ \E x \in Pass : Begin(x) \/ Fetched(x) \/ FetchFails(x) \/ Ingest(x)
  \/ \E p \in Setters, s \in Slug : SetSlug(p, s)
  \/ \E p \in Process : Restart(p)
  \/ \E s \in Slug : LogGrows(s)

Spec == Init /\ [][Next]_vars

\* The loop starts passes for ever, a fetch ends by its timeout, and does not
\* fail for ever.  The other passes need not go on.
Fairness ==
  /\ WF_vars(Begin(Loop)) /\ SF_vars(Fetched(Loop))
  /\ WF_vars(FetchFails(Loop)) /\ WF_vars(Ingest(Loop))

FairSpec == Spec /\ Fairness
-----------------------------------------------------------------------------
(* properties *)

\* Memory and passes hold what the code's dictionaries hold.
TypeOK ==
  /\ log \in [Slug -> Seq(Text)]
  /\ mem \in [Process -> Memory]
  /\ stored \in BOOLEAN
  /\ inserted \in [Process -> [Slug -> [Line -> Nat]]]
  /\ pass \in [Pass -> [pc : {"idle", "fetching", "fetched"}, target : Slug \cup {None},
                        read : Memory, first : Nat, last : Nat]]
  /\ count \in [sets : 0 .. MaxSets, restarts : 0 .. MaxRestarts, failures : 0 .. MaxFailures]
  /\ wanted \in Slug \cup {None}
  /\ scans \in [Process -> Nat]

\* A cursor is a line of the log of the add-on it is remembered with: calls of
\* set_slug during a fetch, whoever writes last, never pair an add-on with
\* another one's cursor.  "Reset cursor when switching add-ons"
\* (pipeline/otbr_adapter.py:97); a pass that names its add-on does not.
CursorIsOfItsLog ==
  \A p \in Process : mem[p].cursor # None =>
    \E i \in DOMAIN log[mem[p].slug] : log[mem[p].slug][i] = mem[p].cursor

\* A process whose passes do not overlap inserts a line at most once for each
\* time its cursor was reset, by set_slug or a restart.
OncePerScan ==
  \A p \in Process, s \in Slug, i \in Line : inserted[p][s][i] <= scans[p]

\* Every line that stays in the window is inserted in the end, as long as the
\* core service stays configured for its add-on, no insert fails, and no two
\* lines of its log are alike (one like the last line seen is taken for it).
WindowIsIngested ==
  \A s \in Slug :
    <>[](mem[Core].slug = s /\ IsInjective(log[s]) /\ count.failures = 0) =>
      <>[](\A i \in DOMAIN log[s] : i + Window > Len(log[s])
             => \E p \in Process : inserted[p][s][i] > 0)

\* set_slug persists the add-on to ingest from (pipeline/otbr_adapter.py:93),
\* and the background loop uses it (api/mcp_tools.py:566-567).
SlugTakesEffect ==
  \A s \in Slug : <>[](wanted = s) => <>[](mem[Core].slug = s)
=============================================================================
