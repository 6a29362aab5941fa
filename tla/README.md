# Thread Observability: a TLA+ verification project

This directory holds TLA+ models of the add-on under
`src/addons/thread-observability/app/src/thread_observability` (all paths below
are relative to it unless they start with `src/`), the TLC configurations that
check them, and TLAPS proofs of the properties that matter most.

The add-on watches a Thread mesh from inside Home Assistant: it reads the Home
Assistant device registry, the Matter server and the OpenThread border router,
keeps what it learns in SQLite, derives node statuses, topology history and
issues from it, and lets users and agents query it over HTTP and MCP.

## 1. The system

Two operating system processes run side by side (s6 services):

* the **core** service (`services/core_service.py`, `api/http_api.py`), with an
  event loop that runs the ingest pipeline in the background and asynchronous
  handlers, and a thread pool that runs the synchronous handlers;
* the **mcp** service (`services/mcp_service.py`, `api/mcp_tools.py`), whose
  tools call the same modules.

They share one SQLite file through `storage/sqlite_store.py`. Each process has
its own connection, its own lock (one method of the store is one critical
section, and one transaction) and its own module-level memory. So there are
four sources of interleaving: coroutines of one event loop (between two
`await`s), threads (between two calls of the store), the two processes (between
two transactions, and with memory that is *not* shared), and restarts.

### Components

| component | source | state | operations | modelled in |
|---|---|---|---|---|
| pipeline runner | `pipeline/runner.py` | `_last_tick`; table `pipeline_ticks` | tick of the loop, requested tick | `PipelineRunner` |
| node and link store | `storage/sqlite_store.py` | tables `nodes`, `links` | upsert, diagnostics, availability, statuses, purge, replace, sweep | `NodeRegistry` (part) |
| Matter device discovery | `pipeline/device_discovery.py`, `pipeline/ha_availability.py` | cache `_LAST_MATTER_RICH_INFO`; the tables; `partition_split` issues | one run | `DeviceDiscovery` (part), `LinkSignals` (events) |
| border router REST ingest | `pipeline/otbr_rest.py` | the tables | node, neighbor table, route table | `DeviceDiscovery` (part) |
| reasoner | `pipeline/reasoner.py` | table `issues` | paused: closes what is open | `DeviceDiscovery` (part) |
| border router log ingest | `pipeline/otbr_adapter.py` | `_MEM_STATE` per process; `ingest_state`; `events` | pass, `set_slug` | `OtbrLogIngest` |
| observer events | `pipeline/observer_events.py` | `_last_state`, `_open_event_ids`; `observer_events` | poll, self start | `ObserverEvents` |
| topology history | `pipeline/topology.py`, `pipeline/topology_snapshot.py` | `topology_snapshots` | capture, diff | `TopologySnapshot` (part) |
| assessment scheduler | `services/assessment/scheduler.py` | one row `assessment_schedule` | snapshot, decide, record, engage, enable | `AssessmentScheduler` |
| assessment engine, findings, feedback | `services/assessment/engine.py`, `feedback.py` | `assessment_findings`, `assessment_feedback` | report, clear, dismiss, mark outcome | `AssessmentFindings`, `FindingLedger` (part) |
| counter samples and retention | `pipeline/device_discovery.py`, store, `api/counter_series.py` | `node_counter_samples` | record, prune, series and deltas | `CounterSamples` |
| link signal samples | `pipeline/device_discovery.py`, store | `link_signal_samples` | sample on change or heartbeat | `LinkSignals` |
| chat memory | `services/chat_memory.py` | sessions; `chat_session_memory` | load, record, prune, transcript | `ChatMemory` |
| direct chat loop | `services/direct_chat.py`, `api/http_api.py` | locals of a turn | tool loop with budget, audit, repair | `DirectChat`, `ChatService` (part) |
| routing walk | `pipeline/routing.py`, `pipeline/nodes.py` | locals of a walk | path over the route tables | `MeshTables`, `RouteWalk` (part) |
| network health scoring | `network_health_scoring.py`, `network_health.py`, `pipeline/topology.py` | none | scores, bands, facts, placements | `MeshScoring`, `MeshDiagnosis` (part) |
| HTTP API | `api/http_api.py` | none of its own | handlers | with the component each calls (part) |
| node, timeline and link views | `pipeline/nodes.py` and others | none | read-only projections | next hops in `RouteWalk` (part) |
| MCP sessions and tools | `api/mcp_tools.py` | a library's | connect, post, close | not modelled |
| Supervisor client | `api/supervisor_client.py` | none | HTTP calls, self-update | not modelled |
| log parser, diagnostics | `pipeline/otbr_parser.py` and others | none | text to records | not modelled |
| InfluxDB store | `storage/influx_store.py` | external | output only | not modelled |
| configuration, health, logging, entry points | `config.py` and others | options | start-up | not modelled |

A tick runs the stages in this order: `otbr_log_ingest`, `observer_events`,
`otbr_rest`, `matter_discovery`, `topology_snapshot`, `reasoner`. The loop
(`runner.py:170-194`) rests between two of its ticks, but
`POST /v1/pipeline/run` and some tools start a whole tick or one of its stages
at any time, so each stage can overlap itself.

### What is hard, and what makes each part correct

* **Discovery** writes rows and links, awaits Home Assistant, then judges and
  purges; meanwhile another run or the REST ingest writes the same tables, and
  the mesh changes. Correct means: no purge takes a registered device, no link
  says `neighbor_known` of a node that is gone, and when the world rests the
  tables come to mirror it (statuses, links, ghosts, partition issue).
* **Scheduler**: read, decide, write in separate critical sections. Correct
  means: the row never mixes the state of one call with the cadence of another,
  the budget is charged for real assessments only and caps them.
* **Observer events**: a cache in memory against rows in a table, answers in any
  order, failing writes, restarts. Correct means: one window per outage, closed
  when the outage ends, and never somebody else's.
* **Runner**: one dictionary for all ticks. Correct means: the recorded ticks
  are whole, failures are named, and the loop goes on.
* **Log ingest**: a cursor over a log that rotates, read before an await and
  written after it, in two processes. Correct means: a cursor belongs to its
  log, each scan inserts a line once, nothing in the window is missed.
* **Findings**: check, then write, in threads of two processes. Correct means:
  one open finding per key, every report counted once.
* **Topology history**: nodes, links and the newest row are read at different
  moments. Correct means: graphs are coherent, the history is sparse and catches
  up, a diff tells what changed.
* **Radio history**: answers of the Matter server cross, cached ones are persisted
  again, rows go by sweep, purge and restart; old counters are averaged. Correct
  means: history and events do not contradict the rows, averaging invents no
  counter reset and leaves no hole.
* **Chat**: memory, row, a transcript thread and overlapping turns of one
  conversation; a model that may call tools without end. Correct means: a turn
  ends, within its budget, and the memory never forgets what the row has.
* **Mesh views**: three ways to a next hop, a walk that reads hop by hop under
  writes, a health request that reads them one after another, a hand-written
  depth-first search, thresholds. Correct means: a walk answers for one state of
  the tables, the views agree, choke points are exact, bands and reasons fit
  together whatever was written between the reads.

## 2. Modules

| module | extends | what it is |
|---|---|---|
| `Absent` | | the constant `None`, shared by the modules that use it in common |
| `NodeRegistry` | | operators: each store method on `nodes` and `links`, as a function of the tables before it |
| `DeviceDiscovery` | `NodeRegistry` | state machine of the stages that write these tables |
| `AssessmentScheduler`, `ObserverEvents`, `PipelineRunner`, `OtbrLogIngest`, `TopologySnapshot` | | one component each |
| `FindingLedger` | | abstract: a board with at most one card per finding key |
| `AssessmentFindings` | | the engine, the findings and the feedback; instantiates `FindingLedger` with a refinement mapping (`LedgerKept`) |
| `CounterSamples`, `LinkSignals` | | the counters of a node, the links of a reporter |
| `RadioHistory` | both | their composition: one clock, one restart |
| `DirectChat`, `ChatMemory` | | one turn of the chat loop, the memory of sessions |
| `ChatService` | both | the chat routes that compose them |
| `MeshTables` | | what the views read of `nodes`, `links` and route rows |
| `RouteWalk` | `MeshTables` | the walk, the next hop of the node list and of the neighbor view |
| `MeshScoring` | | the formulas of the scores, in integers |
| `MeshDiagnosis` | `MeshTables`, `MeshScoring` | one health request: reading, articulation points, scores, facts, placements |
| `MeshViews` | `RouteWalk`, `MeshDiagnosis` | both requests while discovery writes |
| `MC<module>` | the module | constants for TLC |
| `CollectionLemmas` | | lemmas: induction over the naturals, sums and extremes of finite sets, sequences |
| `DeviceDiscoveryProofs`, `AssessmentSchedulerProofs`, `OtbrLogIngestProofs`, `TopologySnapshotProofs` | the module | theorems and their proofs |
| `PipelineProofs` | `PipelineRunner`, `ObserverEvents` | the same, of both |
| `ServiceProofs` | `AssessmentFindings`, `ChatService` | the same, of both |
| `MeasurementProofs` | `RadioHistory`, `MeshViews` | the same, of both |

Definitions whose comment says *Broken* are variants of the definition they
precede, with a plausible slip in it. Nothing uses them; each is there because
the property named for it in `PROJECT.json` (`mutants`) fails when it takes the
place of the original, which shows that the property depends on that code.

### How code becomes actions

* Asynchronous code between two awaits is one action (`DeviceDiscovery`,
  `ObserverEvents`, `OtbrLogIngest`, `PipelineRunner`).
* A call from a thread is one action per critical section of the store
  (`AssessmentScheduler`, `AssessmentFindings`, `TopologySnapshot`).
* Module-level memory is a variable, per process where two processes have it; a
  restart clears it and keeps the tables (or wipes those that `reset_data`
  wipes, when the option says so).
* The world outside (mesh, registry, add-ons, logs, clock) has actions of its
  own. Requests and tool calls may come at any time.

**NodeRegistry.** A row has the columns that the status machine reads or writes:
whether there is a device, availability, whether it sleeps, the age of
`last_referenced_at`, status. Timestamps are ages up to `Old`, which is past
every window: the code only compares "now minus timestamp" with a window.

**DeviceDiscovery.** One run is `ReadRegistry` (`_load_device_registry`), then
the part from the answer of the Matter server to the request to Home Assistant
(`SyncAndPersist`, or `NothingFound` and `SyncRegistryOnly` for the early
returns), then `Conclude`: availability, statuses, purge, partition issue, sweep.
`rich` is the cache, which survives a silent server. `OtbrNode` and `OtbrTable`
are the REST ingest. `CloseIssue` is the reasoner, paused by `ISSUES_PAUSED`, and
the `close_issue` tool.

**AssessmentScheduler.** A call is `Call` (or `Assess`, for the record call after
an admitted assessment), `Read`, `Merge` (the read inside the upsert), `Write`;
`mine` is the call's copy of the row, `base` the row the upsert merges into.
`ran` is a history variable: assessments recorded per day.

**ObserverEvents.** `Begin`, `Ask` per add-on (the answer may be late or fail),
`Handle` or `Skip`, `WriteFails` for the exception that ends a poll after the
state was cached. `healthy` and `born` are history: which add-ons this process
saw started, and how many rows there were when it started.

**PipelineRunner.** `Start`, `NextStage`, `Finish`, `Restart`. The reference
semantics of `_last_tick["stages"]` are kept: it holds whose dictionary it is.

**OtbrLogIngest.** `Begin`, `Fetched` or `FetchFails`, `Ingest`; `SetSlug` and
`Restart` per process. `stored` is all that decisions read of `ingest_state`.
`Fetched` leaves the choice of the moment open, so the log grows and rotates
before, between and after fetches.

**AssessmentFindings.** `Ask`, `Heard` or `Unheard` (the agent answers, or fails, or
cannot be read), `Upsert` (the engine); `Dismiss`, `MarkOutcome`, `Clear`, `Record`
(feedback); `WindowEnds` when a dismissal no longer suppresses; `Restart` of a caller.
`reported` counts recorded concerns.
The mapping to `FindingLedger` reads the open finding of each key as its card and
the ids of all rows as the ids used.

**TopologySnapshot.** `ReadNodes`, `ReadLinks` (which builds the graph), `Compare`,
`Write`; `Insert` orders rows by `captured_at`, as the queries do. `attached` is the
parent in the newest attach or parent-change event of a node, while it is fresh (the
events of discovery name none); it is read with the nodes and counts when no reporter
has the node for a child (`Parent`). `Diff` is `diff_topology`.

**CounterSamples.** A run is `Fetch` (or `FetchCached`), `Record`, `Prune`. Values
are in thousandths because averages are rounded to three places. `Window`,
`Bucketed` and `Deltas` are what the series and the deltas answer. `broken`
remembers which counters really fell or were missing, `recorded` when samples
were taken.

**LinkSignals.** `Answers` puts a report on its way, `Arrives` persists it in one
go (rows, samples, events), `PersistsCached` is a run without an answer, `Drop`
loses one; `Sweep`, `PurgeReporter` and `RestartLinks` delete rows. A neighbor has
a session and a frame counter (`air`), which the program does not see: it only
compares counters, which is what `ReattachmentsAreReal` judges. `stale` marks an
answer that another one has overtaken.

**DirectChat.** One step per await of `direct_chat_turn`: `Gather` (prefetch),
`Complete`, `RunTool` and `ToolsDone`, `Audit`, `ForceAnswer`, `After`. A text is only
where it comes from, a question the classes its keywords put it in.

**ChatMemory, ChatService.** `Start` loads the context, `Finish` records the turn
(memory and, if transcripts are persisted, the row) in one go; a question is pushed as
`Kept`, the text stripped again, and settled by the text before that. `Fail` ends it with
nothing recorded. `LookUp` and `Show` are the transcript route, which runs in a
thread: two steps. `lost` names the turns that a failed load or this route drops.

**RouteWalk.** `AskRoute` reads the nodes, `Locate` reads them again for the border
router, `Hop` reads one row under the lock. `NextHopToOtbr` and `EffectiveNextHop`
are the other two views.

**MeshDiagnosis.** A request has a step for each of its reads: `ReadTopology` and
`ReadLinks` (`build_topology`), `ReadNodes`, `ReadParents` (`_build_parent_map`, whose
query has no order, so of several reporters any may come last), `ReadSignals` for each
sleepy device without a reporter (its parent is then the device that hears it best),
`ReadBack` (the reverse readings), `ReadCounts` for each device. `Call`, `Root`, `Look`,
`Return`, `Answer` are the steps of `_find_articulation_points`, a recursive function:
the model's stack is that of its calls. It is called for the scores before the counters
are read, for the facts after. `Conclude` computes scores, reasons, facts and placements.
In `MeshViews` discovery writes rows of nodes, routes, neighbors and counters between
these steps (`SomeNode`, `SomeRoute`, `SomePeer`, `SomeCounts`).

## 3. Runs

| run | question | bounds | distinct states |
|---|---|---|---|
| `MCDeviceDiscovery_safety` | do two runs, the REST ingest, ageing, a restart or a change of the world break rows or links? | 3 addresses (border router, sleepy Matter device, Thread device), 2 meshes, 2 registries, 1 change, all windows 0 (a row is fresh or past them all) | 322,879 |
| `MCDeviceDiscovery_settles` | do the tables come to mirror a world that rests? | 3 meshes (whole, parted, router lost), 1 run in flight, 1 change, windows of 1 | 183,516 |
| `MCAssessmentScheduler_threads` | can two threads tear the row, or charge what was not run? | 2 callers, all operations between them, budget 1, days of 1 tick, clock to 1 | 5,259,599 |
| `MCAssessmentScheduler_budget` | is `daily_budget_calls` a cap with two requests? (violated) | 2 callers, budget 1 | |
| `MCObserverEvents_windows` | do overlapping polls record each outage once, and end it? | 2 add-ons, 3 states, 2 changes, 1 restart, 1 failed write | 648,486 |
| `MCPipelineRunner_overlap` | what can two overlapping ticks not lose? | 2 ticks, 3 stages, any of which may fail, restarts | 59,231 |
| `MCOtbrLogIngest_cursors` | does the cursor follow its log? | 2 processes with a pass each, logs of 3 and 1 lines (texts may repeat), window 2, 2 `set_slug`, 1 restart | 319,842 |
| `MCAssessmentFindings_safety` | do the tables implement the ledger, and is every report counted? | 2 callers, 2 keys (one that of an unreadable verdict), 2 ids, 2 reports per key | 774,009 |
| `MCTopologySnapshot_overlap` | what do overlapping captures guarantee? | 2 routers, 2 captures, 1 change, 2 ticks of the clock; eight initial tables (`MCInit`): the second router hidden, attached to the first, or reported by it and reporting it | 481,106 |
| `MCChatService_turns` | does a turn end within its budget, and does memory keep what the row has? | a direct and a Home Assistant client on one conversation, 2 rounds, 2 calls in all, 2 per round, 2 turns, 2 ticks, a question and a long one that is the same but for the blank it was cut after | 204,984 |
| `MCRadioHistory_retention` | do averages, samples and events tell what happened? | 1 counter, buckets of 3 ticks, 4 samples; 1 link, 2 signals, 2 runs in flight, 2 sessions; 7 ticks | 793,565 |
| `MCMeshViews_answers` | do the views agree with each other and with the mesh? | all route tables of 3 devices to the border router with 1 write under the walk; all graphs of 5 good routers, of 4 routers of mixed quality with an end device; on 4 good routers, joined in pairs at least, with a sleepy child, 1 write of a node, a neighbor row or the counters between any two reads (`Between`) | 526,917 |

Why these bounds are enough to be interesting: every hazard of `PROJECT.json`
that a property covers needs two actors (two runs, calls, polls, ticks, passes
or captures), one change of the world between two of their steps, and one
window, heartbeat or day to pass; each run allows that, with a third device or a
second key, add-on or log for what must *not* be affected. Three devices are what
it takes for one to be known by its Thread connection, one by its Matter node id
and one not by Home Assistant at all. The two windows of the log run matter:
three lines outgrow a window of two, so the cursor both is found inside the
window and rotates out of it. A bucket of three ticks with a full resolution of
three is straddled by the cutoff in two ticks of three, and four samples put two
rows into one bucket and leave one on each side. A walk loops, dead-ends, exceeds
its hops or arrives on the tables of three devices; four routers are the least in
which a router joins two others and an alternate path goes round it, and five the
least with two blocks of a cycle.

What the runs show, and where the properties stop:

* `KnownLinksResolve` and `RegisteredNeverPurged` hold although a run purges what
  another one has just linked: every block that deletes rows deletes the links on
  both sides, and rows are only purged without a device.
* `DevicelessStatus` (proved, section 5): between two actions a row without a
  device is `online` or `unregistered`. So the `offline` branch of
  `purge_expired_nodes` with its retention window, and `purge_phantom_nodes`, never
  find a row to delete.
* `MeshIsMirrored`, `StatusesSettle`, `GhostsArePurged`, `HealedSplitCloses` are
  conditional on a world that is `Observable` for good: all three services
  answer, some device needs the Matter server, and some device is known.
* `BudgetCap` holds for calls one after the other, which is proved
  (`SerialCallsKeepTheBudget`, section 5); `MCAssessmentScheduler_budget` has the
  counterexample for two that overlap.
* `OneWindowPerOutage` and `WatchedOutagesEnd` are about the windows of the
  running process, while no write failed; see section 6 for the others.
* `OncePerScan` counts the scans a process starts from no cursor (start,
  `set_slug`): within a scan no line is inserted twice, even when texts repeat.
  It is about passes of one process that do not overlap.
* `EveryCaptureIsWitnessed` and `HistoryCatchesUp` are what is left of the history
  when captures overlap: duplicates can be written (section 6), but every capture
  leaves or finds a row of what it saw, and the newest row ends up right.
* `ChangesAreTold` is what a reader of a diff can rely on. It can rebuild the nodes and
  the ends of the links. That a kept link changed between plain and child is in no list,
  which the docstring of `diff_topology` promises; it shows as another parent of that
  child, but for the case the property names: an attach event (in the run) or another
  reporter (with a third device) gives the child the same parent before and after.
* `SettledNotPending` says nothing of a question that was cut before a blank: the code
  keeps it without the blank and settles it with it, so it stays pending (section 6). The
  run asks such a question and the one it is kept as.
* `LedgerKept` is a refinement: whatever two callers interleave, each step of the
  tables is a step on one card of the board or on none, so no finding is doubled,
  changes id or verdict while open, or comes back under an old id.
  `ReportsAreCounted` adds that the counts sum up to the recorded concerns.
* `NoFalseReset`: a counter that every sample told and that never fell shows no
  reset, in either resolution. Both conditions are needed (section 6: a missing
  key biases the average). `ReattachmentsAreReal` needs that no later answer has
  overtaken the one judged; the model contains the overtaking.
* `CallsInBudget` holds although one completion may ask for more calls than are
  left; `TurnsEnd` bounds rounds, repairs and forced answers together.
  `MemoryKeepsRow` names its two exceptions in `lost`.
* `AnswerIsOfOneTable` is about one write during a walk, after which the nodes are
  as they were asked for; with two the walk can answer what was never there. It is
  about walks that are not cut off at the limit of hops: one that is cut off only
  reports the hops it made. `ViewsAgree` says where the three views do name the same
  hop; section 6 has where they do not. `ViewsTyped` holds on the same instance (it
  bounds the bookkeeping of the search) but is not among the properties of the run.
* The properties of a health request hold whatever is written between its reads: what
  it says fits what it has read, which need not be one state of the tables.
* `ChokePointsAreExact` compares the search with the definition of a cut vertex on
  every graph of the run; section 5 has it for all graphs, and with it
  `FragilityIsTold`. `HealthyIsEarned` and `BadIsExplained` relate bands to the
  mesh and to the reasons; their exceptions are in section 6. Of a healthy network
  the first asks a third of its redundancy, up to the rounding of the score (scores
  are integers here).

## 4. Fairness

Safety runs assume none. The liveness runs assume what the program schedules:

* `run_forever` starts its stages again and again, whatever they raise
  (`runner.py:170-194`, `_run_stage` turns exceptions into results): weak fairness
  of the loop's own first step (`ReadRegistry(Loop)`, `Begin(Loop)`,
  `Start(LoopTick)`, `ReadNodes(Loop)`), of the REST ingest and of the reasoner.
* Every await has a timeout, so a run that is under way ends. In
  `DeviceDiscovery` this is `[]<>(run[r].pc = "idle")`: weak fairness of
  `Proceed(r)`, which is enabled from the start to the end of a run, in a form
  that TLC evaluates quickly.
* An answer that stays possible comes in the end (strong fairness): the request
  of `ObserverEvents` for each add-on, the fetch of `OtbrLogIngest`. A Supervisor
  that never answers again would refute any statement about what it knows.
* `PipelineRunner` supposes that the service does not restart for ever.
* In `ChatService` every await of a request ends, with an answer or a timeout: weak
  fairness of `Proceed(c)` per client. The model may answer anything.
* The clock goes on in `DeviceDiscovery` (rows age).

Requests, tool calls and what they started, restarts, failures and changes of the world are never fair.

## 5. Proofs

TLAPS checks these for every value of the constants that satisfies the named
assumptions in the modules (knobs are positive, `None` is no value, the loop is
one of the ticks, and so on); the runs show the same properties on instances.

| module | inductive invariant | theorems |
|---|---|---|
| `DeviceDiscoveryProofs` | `TypeOK`, `KnownLinksResolve`, `DevicelessStatus` | `TypesHold`, `KnownLinksHaveRows`, `DevicelessRowsSettled`, `RegisteredRowsSurvive` |
| `AssessmentSchedulerProofs` | `TypeOK`, the row is a good one, and so is every copy that a call holds; `Serial` | `TypesHold`, `RowIsNeverTorn`, `ChargesAreEarned`; `SerialCallsKeepTheBudget` |
| `PipelineProofs`, observer events | `TypeOK`, `IdsPointAtOpenWindows`; `OutagesTold` | `TypesHold`, `WindowsAreTheirOwn`, `OutagesAreRecordedOnce` |
| `PipelineProofs`, runner | `TicksTyped`, `RowsAreWhole`, `FailuresAreNamed`, `QuietWhenIdle`, and `StartIsKnown` | `TicksStayTyped`, `RowsTellAllStages`, `FailuresAreTold`, `IdleIsShown` |
| `OtbrLogIngestProofs` | `TypeOK`, `LinesAreThere`; `CursorsHeld`; `ScansInv` | `TypesHold`, `CursorsStayWithTheirLog`, `LinesOncePerScan` |
| `TopologySnapshotProofs` | `Types` (with coherence, and the order of the rows); `AloneIsFresh` | `TypesHold`, `GraphsAreCoherent`, `CapturesAreWitnessed`, `ChangesAreAllTold`, `HistoryIsSparse` |
| `ServiceProofs`, findings | `TypeOK`, `SeenIsReported`, `OneOpenPerKey`; `CallsHaveKeys`; `CountInv` | `TypesHold`, `KeysAreUnique`, `TablesKeepTheLedger`, `NoReportIsLost` |
| `ServiceProofs`, chat | `TurnsInv`, `MemoryInv`, `RequestsInv` | `ChatStaysTyped`, `ToolBudgetHolds`, `MemoryIsNotBehind`, `SettledStaysSettled` |
| `MeasurementProofs`, radio history | `CounterValues`; `Covered`; `LinkTypes` with `HistoryFollowsRow` and `EventsInv`; `AirInv` | `RadioStaysTyped`, `RetentionInventsNoReset`, `NoHoles`, `HistoryNeverFallsBehind`, `EventsNeverContradict`, `ReattachmentsAreTrue` |
| `MeasurementProofs`, mesh views | `TablesTyped`; `Walking`; `Diagnosed`; `SearchInv`, with `Searching` | `NextHopsAgree`, `AnswersAreOfOneTable`, `GoodBandsAreEarned`, `BadBandsAreExplained`, `ChokePointsAreAllFound`, `FragileMeshesAreTold` |

`CollectionLemmas` has what these share: `Induction` over the naturals, stated for a
set of naturals so that the provers can use it; sums, least and greatest elements of
finite sets; and lemmas on sequences. The two modules that are proved about in one
proofs module share no variable, at most the constant `None`; the theorems of one
use nothing of the other.

* **DeviceDiscovery.** `DevicelessStatus` is not a consequence of types: it
  holds because a new row defaults to `online` and because the block that
  computes `phantom` deletes those rows before its next await. The proof needs
  it to know that no row without a device slips through the purge with another
  status. `RegisteredNeverPurged` follows from the purge's condition on the one
  action that deletes, and from the form of `Restart` otherwise. Lemmas say
  what each store method preserves.
* **AssessmentScheduler.** The row alone is not inductive: a call writes from
  copies it took long ago. The strengthening says that every copy (`mine`, and
  the `base` of a pending upsert) is itself a row with a proper cadence and an
  earned budget for its day. Lost updates are then harmless for these
  properties, and only for these: `BudgetCap` is not among them. It holds when a
  call begins only after the last one ended (`SerialSpec`): then the row counts
  exactly the assessments of its day (`RowTells`), and what the one call under way
  has copied is still what the row says (`Current`), so an admitted assessment
  finds room when it is charged. With the counterexample of the run this locates the
  flaw: overlap is all it takes, and nothing but overlap does it.
* **ObserverEvents.** An id is in memory only while the cached state is one that
  was opened from `started`; `WriteFails` keeps this since the id is dropped
  before the write.
* **PipelineRunner.** `last.stages` is set to the finishing tick's own dictionary
  before the row is written, so rows are whole whatever ran alongside.
  `StartIsKnown` (a tick in flight implies that `_last_tick` was initialized
  since the restart) is what makes the row's type hold.
* **AssessmentFindings.** The refinement needs that a pending upsert still finds
  what it decided on, which the single critical section of the upsert gives, and
  that ids are fresh; each action is shown to be a step on one card or a stutter.
  `NoReportIsLost` is an induction of its own: a step of a caller adds as much to the
  `seen` of one row as to what was reported of its key (`CountMove`), and a lemma on
  sums over finite sets carries that to the sum of the key's rows.
* **OtbrLogIngest.** `CursorsStayWithTheirLog` assumes `Overrides = {}`: a pass that
  is asked for an add-on by name (`ingest_now` with a slug) writes the configured
  add-on's cursor beside that name when its log is empty. `LinesOncePerScan`
  assumes that and one pass per process. Its invariant gives every state, in memory
  or read by a pass, a line up to which it has read, past which nothing was
  inserted in this scan; repeated texts can only move that line forward.
* **TopologySnapshot.** A capture in flight carries a graph that is coherent by
  itself; the witness of a capture is the row it compared with or the one it wrote.
  `ChangesAreAllTold` needs how a graph came to be: where a link says child, its parent
  in that graph is a device, by the claims or by the attach event (`ChildTells`).
* **RadioHistory.** `NoHoles` rests on a bucket's own start lying in the bucket and
  not after it. `ReattachmentsAreTrue` orders what is heard of a neighbor by session
  and frame counter: rows and cache are never ahead of an answer that nothing has
  overtaken, so a smaller counter must come with a larger session. `LinkAssumption`
  says that "no row" is not a row.
  `RetentionInventsNoReset` rests on `CountersRise`: the samples of a counter that
  has not fallen rise with their time, and a bucket's average, which lies between the
  least and the greatest of what it averages (a lemma on sums, with the division of
  the code), keeps its place among them when it replaces them.
* **Chat.** A turn is `Frugal` when what it has dispatched is within what it has
  counted and within the budget; every step of the loop keeps that, whatever the
  model asks for. `SettledNotPending` is a statement about two lists that are each
  cut to a length: it follows from every state that travels between memory, row and
  transcript thread being `Sound`, which recording a turn and every copy keep. It is
  about questions that are kept under the text they are settled by.
  `MemoryKeepsRow` needs in addition that a request under way has its session and the
  id its turn will be recorded with (`RequestsInv`).
* **Mesh views, the walk.** The walk reads one row per hop while a row is written. The
  invariant `Walking` says that what it has followed so far is the way of the old
  table or that of the new one: the hops are distinct, so the row that differs is
  read at most once, and until it is read both tables agree on the way. The answer of
  a table is defined by reachability over all its rows, not by the walk, so a second
  part shows that a walk that stops says what its table's reachability says
  (`VerdictIs`). `NextHopsAgree` compares the three lookups case by case.
* **Mesh views, the bands.** `Diagnosed` gives what the scores are computed from; the
  rest is integer arithmetic, rounding included: bounds on each part of a score, so
  that a sum above the threshold of a good band forces the redundancy it promises,
  and one below that of a bad band forces a reason to be among those listed.
* **Mesh views, the search.** `ChokePointsAreAllFound` says that the recursive
  depth-first search, with its calls, discovery times and low links, lists the cut
  vertices of every graph, no more and no fewer. Its invariant `Searching(d, up)`
  speaks of one thing the code does not keep: `up[x]`, the vertices on the way from
  `x` up to the root of its tree. The invariant says that there is such an `up`
  (`Sought`), and each step of the search says what becomes of it: a root is above
  itself, a discovered vertex has its parent's way and itself. The parts are:
  the ways form trees in which discovery times fall on the way up (`Forest`); the stack is
  the way down to the call under way (`Trail`); an edge that was looked at joins a
  vertex with one above it, and a call that returned has looked at all its edges
  (`Across`); `low[x]` is the time of a vertex that an edge from below `x` reaches,
  and no more than that of an edge that `x` or a branch it has closed looked at
  (`Lows`); `children` and `cut` are what the trees say so far (`CutSoFar`). None of these is inductive without the others.
  When the search has ended (`Searched`, `Trees`), a branch whose low value is not
  smaller than the time of its parent is closed but for the parent, so the parent
  cuts it off; and where no branch is like that, each has a way round the parent to
  the part above. Reachability is what the model's `Reach` says: the lemmas use it
  as the least set that is closed under the edges.
  Around the search, `Noted` says what is known of the partitions already answered
  and `Sought` what is asked of the one under way; discovery may write rows between
  all of it. `FragileMeshesAreTold` follows: a weak edge is a `weak_links` fact; when
  there is none, the healthy graph of a partition is the graph of the facts, so a cut
  vertex of the one is a `choke_point` of the other; and a graph of fewer than three
  vertices, for which the facts ask no search, has no cut vertex.
  TLC had checked `Searching` first, with the ways that the parents give, on the
  instance of `MCMeshViews_answers`. `TablesAssumption` says that partition ids are
  numbers (`topology.py`: the facts are derived in their order).

Not proved, and why. The liveness properties (`MeshIsMirrored`, `StatusesSettle`,
`GhostsArePurged`, `HealedSplitCloses`, `WatchedOutagesEnd`, `LoopKeepsTicking`,
`WindowIsIngested`, `HistoryCatchesUp`, `TurnsEnd`): the prover has no `ENABLED`, so
fairness cannot be used. Every invariant, action property and refinement that a
passing run checks is a theorem; `BudgetCap` is violated by its run, and proved for
calls one after the other. No module uses a RECURSIVE operator, and no theorem of
the library that takes an operator as a parameter is used.

## 6. Where code and documentation differ

One is shown by a run: `MCAssessmentScheduler_budget` (the daily cap is checked
when a call starts and charged when it ends).

The others were met while modelling; the models contain the behaviour, no run is
kept for them:

* Discovery opens a `partition_split` issue without asking whether issues are
  paused (`device_discovery.py:1601`); `reasoner.py:107-109` says that later calls
  find nothing to close.
* A silent Matter server: the cached reports are persisted again with a fresh
  `observed_at` on every run (`device_discovery.py:1045`), so the sweep of
  `sqlite_store.py:2391-2399` never expires those links.
* A device removed from Home Assistant is in no availability answer, keeps
  `available = 1` and stays online (`sqlite_store.py:1909-1911` says "right now").
  Likewise a border router that is gone: `otbr_rest.py:609` marks it available,
  and nothing takes that back, so it never becomes a phantom
  (`sqlite_store.py:1932-1933`).
* A verdict other than `ok` recorded on a disabled schedule makes it
  `heightened` (`scheduler.py:397`, against `:16`). A row initialized before the
  user opted in stays disabled, since nothing that the program calls enables it.
  `engaged` with concerns never decays: `engaged_decay_minutes` is not read
  (`:14-15`, `:389`).
* A restart during an outage orphans its window, which is then never closed
  (`observer_events.py:129`, against `:35-38`).
* Requested ticks overlap those of the loop (`runner.py:18-21` says "we never
  overlap ticks"), and the recorded row can carry the start, or the error, of the
  other one (`:81-84`).
* A pass of the log ingest writes back the slug it read before its fetch, over one
  that `set_slug` set meanwhile.
* The cursor and the slug of the log ingest live in memory: after a restart the
  window is inserted again (`otbr_adapter.py:5-7`, "idempotent") and the slug is
  forgotten (`:93`, "persist"); the MCP tool sets it in a process whose memory the
  loop never sees (`mcp_tools.py:566-567`). A failed insert is skipped for good.
  Naming another add-on in one pass switches to it without resetting the cursor
  (`:97`); the runs therefore leave that call out (`Overrides = {}`). Two passes of
  one process insert the same lines twice.
* A finding dismissed between the engine's check and its write is reported
  nevertheless (`engine.py:476`; `sqlite_store.py:3101`). `mark_outcome` acts on the
  open findings of the key, not on the finding it was given (`feedback.py:28-29`,
  `:42-43`). The engine records no `ignored_expired` (`sqlite_store.py:555-558`).
* An agent that fails is recorded as `ok`, which clears findings and lets the
  scheduler leave `engaged`; `ok` clears only findings of its own key. Without a
  `finding_type` the key is inferred from the headline, so a rewording opens a
  second row. A repeat keeps the first verdict while severity and evidence are
  overwritten, so a row may say `investigate` with less evidence than
  `parse_envelope` demands.
* Two captures that overlap both insert the same graph (`topology_snapshot.py:109`,
  against `:9-13`). The diff lists no changed links (`:191`, against `:143-145`): a
  link that became one to a child changes the fingerprint (`:60`) and shows, if at all,
  in its child's parent.
* Counters: rows of a bucket that straddles the cutoff are deleted without entering
  its average (`sqlite_store.py:1616` against `:1683-1689`). The average divides by
  all rows, so a row without a key biases it low. A 24 h query returns the oldest
  2000 rows of its window, not the newest.
* Links: a drift of less than 3 dB per report is not sampled until the heartbeat.
  `link_signal_samples` is never pruned. Sweep, purge and restart delete rows
  without a "removed" sample. Answers of two runs may be persisted in the wrong
  order, which tells of a `re_attached_node` that was none. The first report of a
  node publishes nothing; a reporter that itself attached anew publishes no
  `re_attached_node` for its neighbors.
* Chat: a question of more than 240 characters that is cut before a blank stays pending
  after it was settled: it is stored stripped (`chat_memory.py:413`) and removed
  unstripped (`:401`). The message about a node question promises the mesh view, but
  `get_mesh_state` is excluded there and answers an error; a node question without
  an EUI64 gathers nothing. The result of `query_history` is wrapped, so its rows
  read as empty and the hint of `_topology_history_is_empty` never shows. A
  candidate answer sent back in the last round is thrown away. A failing web search
  or malformed tool arguments fail the whole turn; a tool call without a name gets
  no reply. Turns recorded while persistence is off are written with the next
  persisted one. A failed load starts a fresh session whose next write replaces the
  row; the transcript route can put an older state over a newer session, and shows
  expired rows. Facts are never derived for the direct chat.
* Routing: a next hop of 63 ("no route") counts as direct in the walk and in the
  node list and as unknown in the neighbor view. The node list disagrees with the
  walk on direct links and has no fallback to the leader. Of rows with one router id
  the last wins. The border router's row is of a later read than the index of the
  routers. `has_marginal_hop` can miss a marginal hop behind one whose link is not
  known.
* Health: an end device takes 0.5 for a parent that is listed after it. An edge
  without readings scores 0.5, which is where it counts as a usable alternate. The
  `PARTITION_SPLIT` branch cannot be reached, and a split mesh can be "healthy". The
  removal of mirrored peer edges keeps the first direction only, so a weak reading
  of the other is hidden from the facts. `healthy_peer_neighbors` does not look at
  partitions. Error rates are not scored. A placement can have no reasons, a
  critical router no fact and no placement, an edge about to become stale no reason;
  a critical network with many end devices can be unexplained.
* Reading only: `recompute_node_statuses` returns the number of rows it updated,
  all of them (`sqlite_store.py:1946-1947` says those that changed);
  `note_user_engaged` and `set_enabled` have no caller outside tests; the engine is
  wired without an agent, so its verdict is `ok`; the HTTP routes for dismissal and
  feedback take an integer while finding ids are strings.

## 7. What the models leave out

Not modelled at all, with the reason:

* MCP sessions and tools: the sessions are a library's; the tools are reads or calls
  of a modelled component. Supervisor client: requests without state, whose answers
  are inputs of the models. Log parser and D-Bus diagnostics: text to records.
  InfluxDB store: output that nothing reads back. Configuration, health, logging and
  entry points: start-up without decisions after it.

Left out of the modelled parts:

* Names, texts, prompts, formatting; events of parents, partitions and short
  addresses; the network data and the dataset of the border router; duplicate
  hardware rows in the store; route-table rows of the topology; columns other than the
  routing role.
* `reset_data` runs in a worker thread while requests are served already; the
  model wipes the tables with the restart.
* A report that names a neighbor twice breaks the primary key and rolls its table
  back; reports are sets here.
* Which log lines parse into events: every line counts as one.
* The rules of the reasoner, behind the pause.
* Chat: goal, focus, facts, hypotheses and recent tools, which are lists kept as the
  pending questions are; trimming of tool results; telemetry.
* Mesh views: the two counter windows of a device are one read here, and so are the two
  queries for its signals; phantoms and route-table edges in scores, location labels and
  confidence of placements, the order of candidates, the figures of hops.

## 8. What is left

1. an abstract outage log that `ObserverEvents` implements, and a register of
   topology versions for `TopologySnapshot`;
2. the reasoner's rules, once they are enabled;
3. the self-update of the Supervisor client.
