---------------------------- MODULE PipelineRunner ----------------------------
(***************************************************************************)
(* The tick of pipeline/runner.py: every ingest stage in order, then a row *)
(* in pipeline_ticks.  The background loop runs ticks with a rest between  *)
(* them, and POST /v1/pipeline/run starts one at any time.  All ticks      *)
(* write the one module-level dictionary _last_tick; a tick lets go of the *)
(* event loop only while a stage runs, so what it does between two stages, *)
(* at its start and at its end is one action each.                         *)
(*                                                                         *)
(* _last_tick["stages"] is a reference to the dictionary of one tick, and  *)
(* changes as that tick goes on: it is modelled by whose dictionary it is. *)
(***************************************************************************)
EXTENDS Naturals, FiniteSets, Absent

CONSTANTS
  Tick,      \* ticks that can be in flight
  LoopTick,  \* the one of run_forever
  Stages     \* how many stages a tick has

ASSUME TickAssumption ==
  /\ LoopTick \in Tick /\ None \notin Tick
  /\ Stages \in Nat \ {0}

Stage == 1 .. Stages

VARIABLES
  tick,     \* of each tick: the stage it is in (0: none), the stages that are
            \* done and those that failed, and whether it is over
  last,     \* _last_tick
  row       \* the newest row of pipeline_ticks

runnerVars == <<tick, last, row>>

TickState == [at : 0 .. Stages, done : SUBSET Stage, failed : SUBSET Stage]

\* error: the failed stages it names.  started, stages: whose they are.
Last == [running : BOOLEAN, current : 0 .. Stages, started : Tick \cup {None},
         finished : BOOLEAN, error : SUBSET Stage, stages : Tick \cup {None}]

\* What record_pipeline_tick stores, and the tick that stored it.
Row == [by : Tick, started : Tick, done : SUBSET Stage, failed : SUBSET Stage,
        error : SUBSET Stage]

Fresh == [running |-> FALSE, current |-> 0, started |-> None, finished |-> FALSE,
          error |-> {}, stages |-> None]

RunnerInit ==
  /\ tick = [t \in Tick |-> [at |-> 0, done |-> {}, failed |-> {}]]
  /\ last = Fresh
  /\ row = None

\* run_tick up to the first stage.
Start(t) ==
  /\ tick[t].at = 0
  /\ tick' = [tick EXCEPT ![t] = [at |-> 1, done |-> {}, failed |-> {}]]
  /\ last' = [running |-> TRUE, current |-> 1, started |-> t, finished |-> FALSE,
              error |-> {}, stages |-> t]
  /\ UNCHANGED row

\* Broken: a failed stage is tried again.
ResultRetried(t, ok) ==
  [at     |-> IF ~ok THEN tick[t].at ELSE IF tick[t].at = Stages THEN 0 ELSE tick[t].at + 1,
   done   |-> tick[t].done \cup {tick[t].at},
   failed |-> tick[t].failed]

\* The tick after the result of its stage: _run_stage turns an exception into a
\* failed stage.
Result(t, ok) ==
  [at     |-> IF tick[t].at = Stages THEN 0 ELSE tick[t].at + 1,
   done   |-> tick[t].done \cup {tick[t].at},
   failed |-> IF ok THEN tick[t].failed ELSE tick[t].failed \cup {tick[t].at}]

\* A stage ends, and the next begins.
NextStage(t) ==
  /\ tick[t].at \in 1 .. Stages - 1
  /\ \E ok \in BOOLEAN : tick' = [tick EXCEPT ![t] = Result(t, ok)]
  /\ last' = [last EXCEPT !.current = tick[t].at + 1]
  /\ UNCHANGED row

\* Broken: the summary keeps the stages it had.
EndedNoStages(t, failed) ==
  [last EXCEPT !.running = FALSE, !.current = 0, !.finished = TRUE,
               !.error = IF failed # {} THEN failed ELSE @]

\* The summary at the end: an error is set, never cleared.
Ended(t, failed) ==
  [last EXCEPT !.running = FALSE, !.current = 0, !.finished = TRUE, !.stages = t,
               !.error = IF failed # {} THEN failed ELSE @]

\* The last stage ends; the tick is written from _last_tick, or that fails.
Finish(t) ==
  /\ tick[t].at = Stages
  /\ \E ok \in BOOLEAN :
       LET over == Result(t, ok)
           end  == Ended(t, over.failed)
           told == IF end.stages = t THEN over ELSE tick[end.stages]
       IN /\ tick' = [tick EXCEPT ![t] = over]
          /\ last' = end
          /\ \/ row' = [by |-> t, started |-> end.started, done |-> told.done,
                        failed |-> told.failed, error |-> end.error]
             \/ UNCHANGED row

\* Shutdown cancels the tick the loop is in, wherever it is, and the service
\* starts anew.
RunnerRestart ==
  /\ tick' = [t \in Tick |-> [at |-> 0, done |-> {}, failed |-> {}]]
  /\ last' = Fresh
  /\ UNCHANGED row

RunnerNext ==
  \/ \E t \in Tick : Start(t) \/ NextStage(t) \/ Finish(t)
  \/ RunnerRestart

RunnerSpec == RunnerInit /\ [][RunnerNext]_runnerVars

\* Every stage ends: its requests have timeouts, its threads compute.  The loop
\* starts the next tick after its rest; the service does not restart for ever.
RunnerFairness ==
  /\ WF_runnerVars(Start(LoopTick))
  /\ \A t \in Tick : WF_runnerVars(NextStage(t)) /\ WF_runnerVars(Finish(t))
  /\ <>[][~RunnerRestart]_runnerVars

RunnerFairSpec == RunnerSpec /\ RunnerFairness
-----------------------------------------------------------------------------
(* properties *)

\* Types; the stages of a tick run in order, one at a time.
TicksTyped ==
  /\ tick \in [Tick -> TickState]
  /\ \A t \in Tick : /\ tick[t].failed \subseteq tick[t].done
                     /\ tick[t].at # 0 => tick[t].done = 1 .. tick[t].at - 1
  /\ last \in Last
  /\ row \in Row \cup {None}

\* A persisted tick tells the results of all the stages, and of one tick, even
\* when another tick is half way and has taken over _last_tick meanwhile.
RowsAreWhole == row # None => row.done = Stage

\* A failed stage is never hidden: a row whose stages failed has an error that
\* names them, whatever tick ran alongside and reset it.
FailuresAreNamed == row # None /\ row.failed # {} => row.error = row.failed

\* While no tick is in flight, what the API shows is that: not running, no
\* current stage.
QuietWhenIdle ==
  (\A t \in Tick : tick[t].at = 0) => ~last.running /\ last.current = 0

\* The loop's ticks go on for ever, whatever stages fail and whatever requests
\* start alongside.
LoopKeepsTicking == []<>(tick[LoopTick].at = Stages) /\ []<>(tick[LoopTick].at = 0)
=============================================================================
