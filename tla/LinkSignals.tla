----------------------------- MODULE LinkSignals -----------------------------
(***************************************************************************)
(* The links one reporter tells of in one of its tables: the rows that     *)
(* replace_links_for_reporter of storage/sqlite_store.py swaps, the        *)
(* history it appends to link_signal_samples in the same transaction, and  *)
(* the events that pipeline/device_discovery.py derives from what changed. *)
(*                                                                         *)
(* The Matter server answers each run over a connection of its own, so an  *)
(* answer may be persisted after a later one; a run without an answer      *)
(* persists the cached one again.  A signal has a figure that must move by *)
(* Threshold to be written again (rssi) and one that need not (the other   *)
(* fields).                                                                *)
(***************************************************************************)
EXTENDS Integers, Absent

CONSTANTS
  Link,       \* neighbors of the reporter
  Signal,     \* bound: records [rssi, rest] a report may hold
  LinkRun,    \* discovery runs that may be under way at a time
  Threshold,  \* _LINK_SIGNAL_RSSI_CHANGE_DB
  Heartbeat,  \* _LINK_SIGNAL_HEARTBEAT_MINUTES, in ticks
  Ttl,        \* age at which the sweep deletes a row
  MaxFrames   \* bound: frame counters, and sessions

ASSUME LinkAssumption ==
  /\ Threshold \in Nat \ {0} /\ Heartbeat \in Nat \ {0} /\ {Ttl, MaxFrames} \subseteq Nat
  /\ \A s \in Signal : s.rssi \in Int
  /\ None \notin [signal : Signal, air : [session : Nat, frames : Nat], at : Nat]
  /\ None \notin [present : BOOLEAN, signal : Signal, at : Nat]

VARIABLES
  air,       \* session of each neighbor, and the frame counter it keeps in it
  report,    \* the answer that is on its way to a run
  cache,     \* _LAST_MATTER_RICH_INFO: the report of the answer persisted last
  links,     \* rows of the reporter
  last,      \* newest link_signal_samples row of each link
  told,      \* newest event of each link since the reporter's row was written
  known,     \* the node row of the reporter has diagnostics
  vanished   \* history: links whose row went without a report

linkVars == <<air, report, cache, links, last, told, known, vanished>>

NoReport == [pc |-> "idle", heard |-> << >>, stale |-> FALSE]

LinkInit ==
  /\ air = [l \in Link |-> [session |-> 0, frames |-> 0]]
  /\ report = [r \in LinkRun |-> NoReport]
  /\ links = [l \in Link |-> None] /\ last = [l \in Link |-> None]
  /\ told = [l \in Link |-> "none"] /\ known = FALSE
  /\ cache = None /\ vanished = {}

Present == {l \in Link : links[l] # None}
-----------------------------------------------------------------------------
(* the world, and the fetch *)

Sends(l) ==
  /\ air[l].frames < MaxFrames
  /\ air' = [air EXCEPT ![l].frames = @ + 1]
  /\ UNCHANGED <<report, cache, links, last, told, known, vanished>>

\* A neighbor attaches anew, with new keys and counters.
Attaches(l) ==
  /\ air[l].session < MaxFrames
  /\ air' = [air EXCEPT ![l] = [session |-> @.session + 1, frames |-> 0]]
  /\ UNCHANGED <<report, cache, links, last, told, known, vanished>>

\* The server answers the run.
Answers(r) ==
  /\ report[r].pc = "idle"
  /\ \E L \in SUBSET Link : \E heard \in [L -> Signal] :
       report' = [report EXCEPT ![r] =
         [pc |-> "fetched", stale |-> FALSE,
          heard |-> [l \in L |-> [signal |-> heard[l], air |-> air[l]]]]]
  /\ UNCHANGED <<air, cache, links, last, told, known, vanished>>
-----------------------------------------------------------------------------
(* replace_links_for_reporter *)

Distance(a, b) == IF a < b THEN b - a ELSE a - b

\* Broken: the age of the row counts, not that of its newest sample.
SampledOfRow(l, signal, at) ==
  \/ links[l] = None
  \/ Distance(links[l].signal.rssi, signal.rssi) >= Threshold
  \/ links[l].signal.rest # signal.rest
  \/ at - links[l].at >= Heartbeat

\* _link_signal_sample_reason: added, changed (against the row before, so that
\* a slow drift is not), or due.
Sampled(l, signal, at) ==
  \/ links[l] = None
  \/ Distance(links[l].signal.rssi, signal.rssi) >= Threshold
  \/ links[l].signal.rest # signal.rest
  \/ last[l] = None
  \/ at - last[l].at >= Heartbeat

Added(heard)   == DOMAIN heard \ Present
Removed(heard) == Present \ DOMAIN heard

\* Broken: a removal tells no figures.
SampleBare(present, signal, at) ==
  [present |-> present, signal |-> IF present THEN signal ELSE None, at |-> at]

Sample(present, signal, at) == [present |-> present, signal |-> signal, at |-> at]

Swap(heard, at) ==
  /\ links' = [l \in Link |->
       IF l \in DOMAIN heard
       THEN [signal |-> heard[l].signal, air |-> heard[l].air, at |-> at] ELSE None]
  /\ last' = [l \in Link |->
       CASE l \in DOMAIN heard /\ Sampled(l, heard[l].signal, at) ->
              Sample(TRUE, heard[l].signal, at)
         [] l \in Removed(heard) -> Sample(FALSE, links[l].signal, at)
         [] OTHER -> last[l]]
-----------------------------------------------------------------------------
(* discover_matter_devices persists the report *)

\* Broken: an empty table publishes nothing.
ToldOfSome(heard) ==
  [l \in Link |-> CASE known /\ l \in Added(heard) -> "acquired"
                    [] known /\ heard # << >> /\ l \in Removed(heard) -> "lost"
                    [] OTHER -> told[l]]

\* link_acquired and link_lost; the first report is the baseline.
Told(heard) ==
  [l \in Link |-> CASE known /\ l \in Added(heard)   -> "acquired"
                    [] known /\ l \in Removed(heard) -> "lost"
                    [] OTHER -> told[l]]

\* Broken: a counter that stands still is a new one.
ReattachedOrIdle(heard) ==
  {l \in Present \cap DOMAIN heard : heard[l].air.frames <= links[l].air.frames}

\* Neighbors a re_attached_node event is published of, after the first report.
Reattached(heard) ==
  {l \in Present \cap DOMAIN heard : heard[l].air.frames < links[l].air.frames}

\* The report is persisted in one go of the event loop, with what it publishes.
Persist(heard, at) ==
  /\ Swap(heard, at)
  /\ told' = Told(heard)
  /\ known' = TRUE
  /\ cache' = heard
  /\ vanished' = vanished \ DOMAIN heard

\* The answer arrives; one that was given before and is still on its way is stale.
Arrives(r, at) ==
  /\ report[r].pc = "fetched"
  /\ Persist(report[r].heard, at)
  /\ report' = [q \in LinkRun |->
       CASE q = r -> NoReport
         [] q # r /\ report[q].pc = "fetched" -> [report[q] EXCEPT !.stale = TRUE]
         [] OTHER -> report[q]]
  /\ UNCHANGED air

\* A run that got no answer in time.
PersistsCached(at) ==
  /\ cache # None
  /\ Persist(cache, at)
  /\ UNCHANGED <<air, report>>

\* The answer is lost, or the transaction fails.
Drop(r) ==
  /\ report[r].pc = "fetched"
  /\ report' = [report EXCEPT ![r] = NoReport]
  /\ UNCHANGED <<air, cache, links, last, told, known, vanished>>

\* sweep_stale_links: a reporter that fell silent; no sample, and no event.
Sweep(at) ==
  LET stale == {l \in Present : links[l].at < at - Ttl}
  IN /\ stale # {}
     /\ links' = [l \in Link |-> IF l \in stale THEN None ELSE links[l]]
     /\ vanished' = vanished \cup stale
     /\ UNCHANGED <<air, report, cache, last, told, known>>

\* The node row of the reporter is purged, and its links with it.
PurgeReporter ==
  /\ known
  /\ known' = FALSE
  /\ links' = [l \in Link |-> None]
  /\ vanished' = vanished \cup Present
  /\ told' = [l \in Link |-> "none"]
  /\ UNCHANGED <<air, report, cache, last>>

\* A restart wipes rows and events, and not the history.
RestartLinks ==
  /\ report' = [r \in LinkRun |-> NoReport] /\ cache' = None
  /\ links' = [l \in Link |-> None]
  /\ told' = [l \in Link |-> "none"]
  /\ known' = FALSE
  /\ vanished' = vanished \cup Present
  /\ UNCHANGED <<air, last>>

LinkNext(at) ==
  \/ \E l \in Link : Sends(l) \/ Attaches(l)
  \/ \E r \in LinkRun : Answers(r) \/ Arrives(r, at) \/ Drop(r)
  \/ PersistsCached(at) \/ Sweep(at) \/ PurgeReporter
-----------------------------------------------------------------------------
(* properties *)

LinksTyped ==
  LET heard == [session : 0 .. MaxFrames, frames : 0 .. MaxFrames]
  IN /\ air \in [Link -> heard]
     /\ links \in [Link -> [signal : Signal, air : heard, at : Nat] \cup {None}]
     /\ last \in [Link -> [present : BOOLEAN, signal : Signal, at : Nat] \cup {None}]
     /\ told \in [Link -> {"none", "acquired", "lost"}]
     /\ known \in BOOLEAN
     /\ vanished \subseteq Link

\* The history follows the row: its newest sample of a link that is there says
\* so, tells the fields of the row that are written exactly, and is less than a
\* heartbeat older than the row, however often the row was refreshed.
HistoryFollowsRow ==
  \A l \in Present : /\ last[l] # None /\ last[l].present
                     /\ last[l].signal.rest = links[l].signal.rest
                     /\ links[l].at - last[l].at < Heartbeat

\* The events do not contradict the rows: a link last told lost has no row, and
\* one last told acquired has one unless it vanished, whatever late or cached
\* reports were persisted.
EventsFollowRows ==
  \A l \in Link : /\ told[l] = "lost" => links[l] = None
                  /\ told[l] = "acquired" => links[l] # None \/ l \in vanished

\* A re_attached_node event tells of a neighbor that did attach anew, as long as
\* no answer that was given later is persisted before.
ReattachmentsAreReal ==
  \A r \in LinkRun : report[r].pc = "fetched" /\ ~report[r].stale /\ known =>
    \A l \in Reattached(report[r].heard) : report[r].heard[l].air.session # links[l].air.session
=============================================================================
