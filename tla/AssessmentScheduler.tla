------------------------- MODULE AssessmentScheduler -------------------------
(***************************************************************************)
(* The adaptive scheduler of the background assessments                    *)
(* (services/assessment/scheduler.py) over its single SQLite row.          *)
(*                                                                         *)
(* Its callers are request handlers: threads of the core service's pool    *)
(* and of the MCP service's.  The store takes its lock for each read and   *)
(* each write, never across the two, so a call is a sequence of reads and  *)
(* writes of the row: a read (which may find no row and initialize one), a *)
(* rollover of the budget when the day changed, and the final upsert,      *)
(* which itself reads the row before it writes it.                         *)
(***************************************************************************)
EXTENDS Naturals

CONSTANTS
  Caller,             \* request threads
  Calls,              \* the operations each of them calls
  None,               \* no row; SQL NULL
  ProbationInterval, ProbationChecks, RelaxingInitial, RelaxingMax,
  HeightenedInitial,  \* the knobs of ScheduleConfig, in one unit of time
  MinInterval,        \* the 60 s floor of an 'investigate'
  EngagedInterval, DailyBudget,
  DayLength,          \* units of time in a UTC day
  MaxTime,            \* bound: when the clock stops
  MaxRuns             \* bound: no record call starts on a day with so many

Op == {"snapshot", "decide", "force", "engage", "enable", "disable", "record"}

ASSUME KnobAssumption ==
  /\ {ProbationInterval, ProbationChecks, RelaxingInitial, RelaxingMax,
      HeightenedInitial, MinInterval, EngagedInterval, DayLength}
       \subseteq Nat \ {0}
  /\ {DailyBudget, MaxTime, MaxRuns} \subseteq Nat
  /\ RelaxingInitial <= RelaxingMax
  /\ Calls \in [Caller -> SUBSET (Op \ {"record"})]
  /\ None \notin Nat

State   == {"probation", "relaxing", "steady", "heightened", "engaged", "disabled"}
Verdict == {"ok", "watch", "investigate"}

Day(time) == time \div DayLength
Days      == {Day(time) : time \in 0 .. MaxTime}

ScheduleRow == [state    : State,
                since    : Nat,                 \* state_since
                next     : Nat \cup {None},     \* next_assessment_at
                ok       : Nat,                 \* consecutive_ok
                concern  : Nat,                 \* consecutive_concern
                interval : Nat,                 \* current_interval_seconds
                used     : Nat,                 \* budget_calls_used
                window   : Nat]                 \* day of budget_window_start_at
ASSUME NoRowAssumption == None \notin ScheduleRow

VARIABLES
  option,   \* assessment.enabled of the add-on options
  row,      \* the assessment_schedule row
  call,     \* where each caller stands
  now,      \* the clock
  ran       \* history: assessments recorded, by the day of the record call

vars == <<option, row, call, now, ran>>

\* Where a call stands; `mine` is its copy of the row, `base` the row its
\* pending upsert merges into, `write` which upsert that is.
Idle == [pc |-> "idle", op |-> "snapshot", verdict |-> "ok", at |-> 0,
         mine |-> None, base |-> None, write |-> "final"]

CallState == [pc : {"idle", "read", "merge", "write", "running"},
              op : Op, verdict : Verdict, at : 0 .. MaxTime,
              mine : ScheduleRow \cup {None}, base : ScheduleRow \cup {None},
              write : {"init", "roll", "final"}]

Min2(a, b) == IF a <= b THEN a ELSE b
Max2(a, b) == IF a >= b THEN a ELSE b
-----------------------------------------------------------------------------
(* the state machine *)

\* The row _initialize writes, whatever was there.  A call of set_enabled
\* goes by its argument, every other by the option.
InitialRow(op, at) ==
  LET enabled == op = "enable" \/ (option /\ op # "disable")
  IN [state |-> IF enabled THEN "probation" ELSE "disabled", since |-> at,
      next |-> IF enabled THEN at + ProbationInterval ELSE None,
      ok |-> 0, concern |-> 0, interval |-> ProbationInterval,
      used |-> 0, window |-> Day(at)]

\* Broken: the rollover moves the window but keeps the count.
RolledKeepingCount(base, at) == [base EXCEPT !.window = Day(at)]

\* _roll_budget_if_needed
Rolled(base, at) == [base EXCEPT !.used = 0, !.window = Day(at)]

Relaxed(interval) == Min2(2 * interval, RelaxingMax)

\* _on_ok: the state and the interval after a clean verdict, ok the streak.
OnOk(state, interval, ok) ==
  CASE state = "probation" ->
         IF ok >= ProbationChecks THEN <<"relaxing", RelaxingInitial>>
                                  ELSE <<"probation", ProbationInterval>>
    [] state = "disabled" -> <<"disabled", interval>>
    [] OTHER -> <<IF Relaxed(interval) >= RelaxingMax THEN "steady" ELSE "relaxing",
                  Relaxed(interval)>>

\* _on_concern: 'investigate' halves the heightened interval.
OnConcern(state, verdict) ==
  IF state = "engaged" THEN <<"engaged", EngagedInterval>>
  ELSE <<"heightened",
         IF verdict = "investigate" THEN Max2(MinInterval, HeightenedInitial \div 2)
                                    ELSE HeightenedInitial>>

\* record_assessment writes every column, from the caller's copy.
Recorded(mine, verdict, at) ==
  LET ok   == IF verdict = "ok" THEN mine.ok + 1 ELSE 0
      then == IF verdict = "ok" THEN OnOk(mine.state, mine.interval, ok)
                                ELSE OnConcern(mine.state, verdict)
  IN [state |-> then[1],
      since |-> IF then[1] = mine.state THEN mine.since ELSE at,
      next |-> at + then[2],
      ok |-> ok,
      concern |-> IF verdict = "ok" THEN 0 ELSE mine.concern + 1,
      interval |-> then[2],
      used |-> mine.used + 1,
      window |-> mine.window]

\* Broken: the interval of the state before it is kept.
EngagedKeepingInterval(mine, base, at) ==
  [base EXCEPT !.state = "engaged", !.since = at, !.next = at + EngagedInterval,
               !.used = mine.used, !.window = mine.window]

\* note_user_engaged writes the budget back as its first read had it.
Engaged(mine, base, at) ==
  [base EXCEPT !.state = "engaged", !.since = at, !.interval = EngagedInterval,
               !.next = at + EngagedInterval,
               !.used = mine.used, !.window = mine.window]

\* set_enabled
Enabled(base, at) ==
  [base EXCEPT !.state = "probation", !.since = at, !.interval = ProbationInterval,
               !.next = at + ProbationInterval, !.ok = 0, !.concern = 0]

Disabled(base, at) ==
  [base EXCEPT !.state = "disabled", !.since = at, !.next = None]

\* decide, on a copy whose budget was rolled.
Admitted(mine, at, force) ==
  /\ option /\ mine.state # "disabled"
  /\ mine.used < DailyBudget
  /\ force \/ mine.next = None \/ at >= mine.next
-----------------------------------------------------------------------------
(* the calls *)

\* An operation is called; it takes the time before it reads the row.
Start(c, op, verdict) ==
  call' = [call EXCEPT ![c] = [Idle EXCEPT !.pc = "read", !.op = op,
                                           !.verdict = verdict, !.at = now]]

\* snapshot, decide(force) of run-now, decide of the cadence, note_user_engaged
\* and set_enabled.
Call(c) ==
  /\ call[c].pc = "idle"
  /\ \E op \in Calls[c] : Start(c, op, "ok")
  /\ UNCHANGED <<option, row, now, ran>>

\* The assessment that a decision admitted ends with a verdict, which is
\* recorded, or fails.
Assess(c) ==
  /\ call[c].pc = "running"
  /\ \/ /\ ran[Day(now)] < MaxRuns
        /\ \E verdict \in Verdict : Start(c, "record", verdict)
     \/ call' = [call EXCEPT ![c] = Idle]
  /\ UNCHANGED <<option, row, now, ran>>

\* What a call does once it has its copy of the row, with the budget rolled.
Decided(self, mine) ==
  CASE self.op = "snapshot" -> Idle
    [] self.op \in {"decide", "force"} ->
         IF Admitted(mine, self.at, self.op = "force")
         THEN [Idle EXCEPT !.pc = "running"] ELSE Idle
    [] self.op = "record" ->
         [self EXCEPT !.pc = "write", !.write = "final", !.mine = mine]
    [] self.op = "engage" ->
         [self EXCEPT !.pc = "merge", !.write = "final", !.mine = mine]
    [] self.op \in {"enable", "disable"} ->
         [self EXCEPT !.pc = "merge", !.write = "final"]

\* The first read.  Only snapshot, decide and record_assessment look at the day.
Read(c) ==
  LET self == call[c]
      late == /\ self.op \in {"snapshot", "decide", "force", "record"}
              /\ row.window # Day(self.at)
  IN /\ self.pc = "read"
     /\ call' = [call EXCEPT ![c] =
          IF row = None THEN [self EXCEPT !.pc = "write", !.write = "init"]
          ELSE IF late THEN [self EXCEPT !.pc = "merge", !.write = "roll",
                                         !.mine = Rolled(row, self.at)]
          ELSE Decided(self, row)]
     /\ UNCHANGED <<option, row, now, ran>>

\* upsert_assessment_schedule reads the row it merges its fields into (a step
\* left out where the caller's fields are every column) ...
Merge(c) ==
  /\ call[c].pc = "merge"
  /\ call' = [call EXCEPT ![c].pc = "write", ![c].base = row]
  /\ UNCHANGED <<option, row, now, ran>>

Upserted(self) ==
  IF self.write = "init" THEN InitialRow(self.op, self.at)
  ELSE IF self.write = "roll" THEN Rolled(self.base, self.at)
  ELSE CASE self.op = "record"  -> Recorded(self.mine, self.verdict, self.at)
         [] self.op = "engage"  -> Engaged(self.mine, self.base, self.at)
         [] self.op = "enable"  -> Enabled(self.base, self.at)
         [] self.op = "disable" -> Disabled(self.base, self.at)

\* ... and writes it.  A call that initialized the row reads it again.
Write(c) ==
  LET self    == call[c]
      records == self.write = "final" /\ self.op = "record"
  IN /\ self.pc = "write"
     /\ row' = Upserted(self)
     /\ call' = [call EXCEPT ![c] =
          CASE self.write = "init"  -> [self EXCEPT !.pc = "read"]
            [] self.write = "roll"  -> Decided(self, self.mine)
            [] self.write = "final" -> Idle]
     /\ ran' = IF records THEN [ran EXCEPT ![Day(self.at)] = @ + 1] ELSE ran
     /\ UNCHANGED <<option, now>>

\* The add-on restarts, with the options as edited; the row survives.
Restart ==
  /\ option' \in BOOLEAN
  /\ call' = [c \in Caller |-> Idle]
  /\ UNCHANGED <<row, now, ran>>

Tick ==
  /\ now < MaxTime
  /\ now' = now + 1
  /\ UNCHANGED <<option, row, call, ran>>

Init ==
  /\ option \in BOOLEAN /\ row = None /\ now = 0
  /\ call = [c \in Caller |-> Idle]
  /\ ran = [d \in Days |-> 0]

Proceed(c) == Read(c) \/ Merge(c) \/ Write(c)

Next ==
  \/ \E c \in Caller : Call(c) \/ Assess(c) \/ Proceed(c)
  \/ Restart
  \/ Tick

Spec == Init /\ [][Next]_vars

\* A call begins when no other is under way ...
OneAtATime ==
  \A c, d \in Caller : c # d /\ call[c].pc = "idle" /\ call'[c].pc # "idle" => call[d].pc = "idle"

\* ... if there is one client, which waits for each answer.
SerialSpec == Init /\ [][Next /\ OneAtATime]_vars
-----------------------------------------------------------------------------
(* properties *)

\* The columns hold what the schema and the state machine allow, and a call's
\* copies are rows.
TypeOK ==
  /\ option \in BOOLEAN /\ now \in 0 .. MaxTime
  /\ row \in ScheduleRow \cup {None}
  /\ call \in [Caller -> CallState]
  /\ ran \in [Days -> Nat]

\* The interval, the streaks and the next check belong to the state: though a
\* call's reads and writes interleave with other calls', no row ever mixes the
\* state of one with the cadence of another.
Cadence(r, time) ==
  /\ r.state = "probation"  => r.interval = ProbationInterval /\ r.ok < ProbationChecks
  /\ r.state = "relaxing"   => r.interval <= RelaxingMax
  /\ r.state = "steady"     => r.interval = RelaxingMax
  /\ r.state = "heightened" => r.interval \in {HeightenedInitial,
                                 Max2(MinInterval, HeightenedInitial \div 2)}
  /\ r.state = "engaged"    => r.interval = EngagedInterval
  /\ r.state # "disabled"   => r.next # None
  /\ r.next # None          => r.next <= time + r.interval
  /\ r.ok = 0 \/ r.concern = 0

CadenceMatchesState == row # None => Cadence(row, now)

\* The budget is never charged for an assessment that was not recorded that
\* day: however calls interleave, and whatever updates they lose, a stale
\* count of yesterday is never read as today's.
Charged(r, count) == r.window \in Days /\ r.used <= count[r.window]

OnlyRunsAreCharged == row # None => Charged(row, ran)

\* daily_budget_calls caps the assessments of a UTC day
\* (services/assessment/scheduler.py:24-25).
BudgetCap == \A d \in Days : ran[d] <= DailyBudget
=============================================================================
