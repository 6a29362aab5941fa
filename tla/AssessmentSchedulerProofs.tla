---------------------- MODULE AssessmentSchedulerProofs ----------------------
(***************************************************************************)
(* Two invariants of the schedule row, for any number of callers, any      *)
(* knobs, and every interleaving of the callers' reads and writes, and     *)
(* the cap of the budget for calls that do not overlap.                    *)
(*                                                                         *)
(* Neither invariant of the row is inductive alone: what is written was    *)
(* computed from copies the callers took earlier.  The strengthening says  *)
(* the same of every copy, and that a copy is there when it is needed.     *)
(***************************************************************************)
EXTENDS AssessmentScheduler, TLAPS

Clock  == 0 .. MaxTime
Counts == [Days -> Nat]

GoodRow(r, time, count) ==
  r \in ScheduleRow /\ Cadence(r, time) /\ Charged(r, count)

\* What a call needs of its copies, by what it is about to write.
CopiesOK(self) ==
  /\ self.write = "roll" =>
       /\ self.op \in {"snapshot", "decide", "force", "record"}
       /\ self.mine # None /\ self.mine.window = Day(self.at)
  /\ self.write = "final" =>
       /\ self.op \in {"record", "engage", "enable", "disable"}
       /\ self.op \in {"record", "engage"} => self.mine # None
       /\ self.op = "record" => self.mine.window = Day(self.at)

CallOK(self, r, time, count) ==
  /\ self \in CallState
  /\ self.at <= time
  /\ self.mine # None => GoodRow(self.mine, time, count)
  /\ self.base # None => GoodRow(self.base, time, count)
  /\ self.pc \in {"merge", "write"} => CopiesOK(self)
  /\ self.pc = "merge" => r # None
  /\ self.pc = "write" =>
       \/ self.write = "init"
       \/ self.write = "final" /\ self.op = "record"
       \/ self.base # None

RowOK(r, time, count) == r # None => GoodRow(r, time, count)

\* The inductive invariant.
IInv ==
  /\ TypeOK
  /\ RowOK(row, now, ran)
  /\ \A c \in Caller : CallOK(call[c], row, now, ran)

\* The knobs and the times, one by one.
LEMMA KnobTypes ==
  /\ ProbationInterval \in Nat /\ ProbationChecks \in Nat /\ ProbationChecks > 0
  /\ RelaxingInitial \in Nat /\ RelaxingMax \in Nat
  /\ RelaxingInitial <= RelaxingMax
  /\ HeightenedInitial \in Nat /\ MinInterval \in Nat
  /\ Max2(MinInterval, HeightenedInitial \div 2) \in Nat
  /\ EngagedInterval \in Nat
  /\ Clock \subseteq Nat /\ None \notin Nat
BY KnobAssumption DEF Clock, Max2

\* The day of an instant the clock reaches is one of the days counted.
LEMMA DayInDays ==
  ASSUME NEW time \in Clock
  PROVE  Day(time) \in Days
BY DEF Days, Clock

\* Good rows stay good when time passes and runs are recorded.
LEMMA GoodRowLater ==
  ASSUME NEW r, NEW t \in Clock, NEW u \in Clock, t <= u,
         NEW m \in Counts, NEW n \in Counts, \A d \in Days : m[d] <= n[d],
         GoodRow(r, t, m)
  PROVE  GoodRow(r, u, n)
<1>1. r \in ScheduleRow /\ Cadence(r, t) /\ Charged(r, m)
  BY DEF GoodRow
<1>2. Cadence(r, u)
  <2>1. r.next # None => r.next <= u + r.interval
    BY <1>1 DEF Cadence, ScheduleRow, Clock
  <2> QED BY <1>1, <2>1 DEF Cadence
<1>3. Charged(r, n)
  <2>1. r.window \in Days /\ r.used <= m[r.window] /\ r.used \in Nat
    BY <1>1 DEF Charged, ScheduleRow
  <2> QED BY <2>1 DEF Charged, Counts
<1> QED BY <1>1, <1>2, <1>3 DEF GoodRow

\* ... and so do calls, as long as the row does not vanish.
LEMMA CallLater ==
  ASSUME NEW self, NEW r, NEW s, r # None => s # None,
         NEW t \in Clock, NEW u \in Clock, t <= u,
         NEW m \in Counts, NEW n \in Counts, \A d \in Days : m[d] <= n[d],
         CallOK(self, r, t, m)
  PROVE  CallOK(self, s, u, n)
<1>1. self.at <= u
  BY DEF CallOK, CallState, Clock
<1>2. /\ self.mine # None => GoodRow(self.mine, u, n)
      /\ self.base # None => GoodRow(self.base, u, n)
  BY GoodRowLater DEF CallOK
<1> QED BY <1>1, <1>2 DEF CallOK
-----------------------------------------------------------------------------
(* what each upsert writes *)

\* The row _initialize writes is good, opted in or out.
LEMMA InitialRowGood ==
  ASSUME option \in BOOLEAN, NEW at \in Clock, NEW t \in Clock, at <= t,
         NEW m \in Counts, NEW op
  PROVE  GoodRow(InitialRow(op, at), t, m)
<1>1. Day(at) \in Days /\ Day(at) \in Nat
  BY DayInDays, KnobAssumption DEF Day, Clock
<1>2. InitialRow(op, at) \in ScheduleRow
  BY <1>1, KnobAssumption DEF InitialRow, ScheduleRow, State, Clock
<1>3. Cadence(InitialRow(op, at), t)
  BY KnobAssumption DEF InitialRow, Cadence, Clock
<1>4. Charged(InitialRow(op, at), m)
  BY <1>1 DEF InitialRow, Charged, Counts
<1> QED BY <1>2, <1>3, <1>4 DEF GoodRow

\* Rolling the budget over keeps a row good and makes its window today.
LEMMA RolledGood ==
  ASSUME NEW at \in Clock, NEW t \in Clock, NEW m \in Counts,
         NEW base, GoodRow(base, t, m)
  PROVE  GoodRow(Rolled(base, at), t, m) /\ Rolled(base, at).window = Day(at)
<1> DEFINE new == Rolled(base, at)
<1>1. base \in ScheduleRow /\ Cadence(base, t) /\ Charged(base, m)
  BY DEF GoodRow
<1>2. Day(at) \in Days /\ Day(at) \in Nat
  BY DayInDays, KnobAssumption DEF Day, Clock
<1>3. /\ new \in ScheduleRow /\ new.window = Day(at) /\ new.used = 0
      /\ new.state = base.state /\ new.interval = base.interval
      /\ new.next = base.next /\ new.ok = base.ok /\ new.concern = base.concern
  BY <1>1, <1>2 DEF Rolled, ScheduleRow
<1> HIDE DEF new
<1>4. Cadence(new, t)
  BY <1>1, <1>3 DEF Cadence
<1>5. Charged(new, m)
  BY <1>2, <1>3 DEF Charged, Counts
<1>6. GoodRow(new, t, m) /\ new.window = Day(at)
  BY <1>3, <1>4, <1>5 DEF GoodRow
<1> QED BY <1>6 DEF new

\* note_user_engaged puts a good row on the cadence of `engaged`.
LEMMA EngagedGood ==
  ASSUME NEW at \in Clock, NEW t \in Clock, at <= t, NEW m \in Counts,
         NEW base, GoodRow(base, t, m), NEW mine, GoodRow(mine, t, m)
  PROVE  GoodRow(Engaged(mine, base, at), t, m)
<1> DEFINE new == Engaged(mine, base, at)
<1>0. at \in Nat /\ t \in Nat /\ at + EngagedInterval \in Nat
  BY KnobTypes
<1>1. /\ base \in ScheduleRow /\ Cadence(base, t)
      /\ mine \in ScheduleRow /\ Charged(mine, m)
  BY DEF GoodRow
<1>2. /\ new \in ScheduleRow /\ new.state = "engaged"
      /\ new.interval = EngagedInterval /\ new.next = at + EngagedInterval
      /\ new.ok = base.ok /\ new.concern = base.concern
      /\ new.used = mine.used /\ new.window = mine.window
  BY <1>0, <1>1, KnobTypes DEF Engaged, ScheduleRow, State
<1> HIDE DEF new
<1>3. Cadence(new, t)
  BY <1>0, <1>1, <1>2, KnobTypes DEF Cadence
<1>4. Charged(new, m)
  BY <1>0, <1>1, <1>2 DEF Charged
<1>5. GoodRow(new, t, m)
  BY <1>2, <1>3, <1>4 DEF GoodRow
<1> QED BY <1>5 DEF new

\* set_enabled keeps a row good, whichever way it switches.
LEMMA SwitchedGood ==
  ASSUME NEW at \in Clock, NEW t \in Clock, at <= t, NEW m \in Counts,
         NEW base, GoodRow(base, t, m)
  PROVE  GoodRow(Enabled(base, at), t, m) /\ GoodRow(Disabled(base, at), t, m)
<1> DEFINE on == Enabled(base, at)  off == Disabled(base, at)
<1>0. at \in Nat /\ t \in Nat /\ at + ProbationInterval \in Nat
  BY KnobTypes
<1>1. base \in ScheduleRow /\ Cadence(base, t) /\ Charged(base, m)
  BY DEF GoodRow
<1>2. /\ on \in ScheduleRow /\ on.state = "probation"
      /\ on.interval = ProbationInterval /\ on.next = at + ProbationInterval
      /\ on.ok = 0 /\ on.concern = 0
      /\ on.used = base.used /\ on.window = base.window
  BY <1>0, <1>1, KnobTypes DEF Enabled, ScheduleRow, State
<1>3. /\ off \in ScheduleRow /\ off.state = "disabled" /\ off.next = None
      /\ off.ok = base.ok /\ off.concern = base.concern
      /\ off.used = base.used /\ off.window = base.window
  BY <1>0, <1>1, KnobTypes DEF Disabled, ScheduleRow, State
<1> HIDE DEF on, off
<1>4. GoodRow(on, t, m)
  BY <1>0, <1>1, <1>2, KnobTypes DEF GoodRow, Cadence, Charged
<1>5. GoodRow(off, t, m)
  BY <1>0, <1>1, <1>3 DEF GoodRow, Cadence, Charged
<1> QED BY <1>4, <1>5 DEF on, off

\* The state machine's two verdict branches return a state with its cadence.
LEMMA OnOkCadence ==
  ASSUME NEW state \in State, NEW interval \in Nat, NEW ok \in Nat
  PROVE  LET then == OnOk(state, interval, ok)
         IN /\ then = <<then[1], then[2]>>
            /\ then[1] \in State /\ then[2] \in Nat
            /\ then[1] = "probation"
                 => then[2] = ProbationInterval /\ ok < ProbationChecks
            /\ then[1] = "relaxing" => then[2] <= RelaxingMax
            /\ then[1] = "steady"   => then[2] = RelaxingMax
            /\ then[1] \notin {"heightened", "engaged"}
<1>1. CASE state = "probation"
  BY <1>1, KnobTypes DEF OnOk, State
<1>2. CASE state = "disabled"
  BY <1>2 DEF OnOk, State
<1>3. CASE state \notin {"probation", "disabled"}
  <2>1. Relaxed(interval) \in Nat /\ Relaxed(interval) <= RelaxingMax
    BY KnobTypes DEF Relaxed, Min2
  <2>2. OnOk(state, interval, ok) =
          <<IF Relaxed(interval) >= RelaxingMax THEN "steady" ELSE "relaxing",
            Relaxed(interval)>>
    BY <1>3 DEF OnOk
  <2>3. CASE Relaxed(interval) >= RelaxingMax
    <3>1. Relaxed(interval) = RelaxingMax
      BY <2>1, <2>3, KnobTypes
    <3> QED BY <2>1, <2>2, <2>3, <3>1 DEF State
  <2>4. CASE ~(Relaxed(interval) >= RelaxingMax)
    BY <2>1, <2>2, <2>4 DEF State
  <2> QED BY <2>3, <2>4
<1> QED BY <1>1, <1>2, <1>3

\* A concern leads to `engaged` or `heightened`, each with an interval of its
\* own.
LEMMA OnConcernCadence ==
  ASSUME NEW state \in State, NEW verdict
  PROVE  LET then == OnConcern(state, verdict)
         IN /\ then[1] \in State /\ then[2] \in Nat
            /\ \/ then[1] = "engaged" /\ then[2] = EngagedInterval
               \/ /\ then[1] = "heightened"
                  /\ then[2] \in {HeightenedInitial,
                                  Max2(MinInterval, HeightenedInitial \div 2)}
BY KnobTypes DEF OnConcern, State

\* What record_assessment writes: one run more than its copy had.
LEMMA RecordedGood ==
  ASSUME NEW at \in Clock, NEW t \in Clock, at <= t, NEW verdict \in Verdict,
         NEW m \in Counts, NEW n \in Counts,
         NEW mine, GoodRow(mine, t, m), mine.window = Day(at),
         n = [m EXCEPT ![Day(at)] = m[Day(at)] + 1]
  PROVE  GoodRow(Recorded(mine, verdict, at), t, n)
<1> DEFINE ok   == IF verdict = "ok" THEN mine.ok + 1 ELSE 0
           then == IF verdict = "ok" THEN OnOk(mine.state, mine.interval, ok)
                                     ELSE OnConcern(mine.state, verdict)
           new  == Recorded(mine, verdict, at)
<1>1. /\ mine \in ScheduleRow /\ Cadence(mine, t) /\ Charged(mine, m)
      /\ mine.state \in State /\ mine.interval \in Nat /\ mine.ok \in Nat
      /\ mine.concern \in Nat /\ mine.since \in Nat /\ mine.used \in Nat
      /\ mine.window \in Nat
  BY DEF GoodRow, ScheduleRow
<1>2. ok \in Nat
  BY <1>1
<1>3. /\ then[1] \in State /\ then[2] \in Nat
      /\ then[1] = "probation"
           => then[2] = ProbationInterval /\ ok < ProbationChecks
      /\ then[1] = "relaxing"   => then[2] <= RelaxingMax
      /\ then[1] = "steady"     => then[2] = RelaxingMax
      /\ then[1] = "heightened" => then[2] \in {HeightenedInitial,
                                     Max2(MinInterval, HeightenedInitial \div 2)}
      /\ then[1] = "engaged"    => then[2] = EngagedInterval
  <2> HIDE DEF ok
  <2>1. CASE verdict = "ok"
    BY <1>1, <1>2, <2>1, OnOkCadence
  <2>2. CASE verdict # "ok"
    BY <1>1, <2>2, OnConcernCadence
  <2> QED BY <2>1, <2>2
<1>4. at \in Nat /\ t \in Nat
  BY KnobTypes
<1>5. new = [state |-> then[1],
             since |-> IF then[1] = mine.state THEN mine.since ELSE at,
             next |-> at + then[2], ok |-> ok,
             concern |-> IF verdict = "ok" THEN 0 ELSE mine.concern + 1,
             interval |-> then[2], used |-> mine.used + 1, window |-> mine.window]
  BY DEF Recorded
<1>6. (verdict = "ok" \/ ok = 0)
  OBVIOUS
<1> HIDE DEF new, then, ok
<1>7. at + then[2] \in Nat /\ at + then[2] <= t + then[2] /\ at + then[2] # None
  BY <1>3, <1>4, KnobTypes
<1>8. new \in ScheduleRow
  BY <1>1, <1>2, <1>3, <1>4, <1>5, <1>7 DEF ScheduleRow
<1>9. Cadence(new, t)
  BY <1>3, <1>5, <1>6, <1>7 DEF Cadence
<1>10. Charged(new, n)
  BY <1>1, <1>5 DEF Charged, Counts
<1>11. GoodRow(new, t, n)
  BY <1>8, <1>9, <1>10 DEF GoodRow
<1> QED BY <1>11 DEF new
-----------------------------------------------------------------------------
(* the steps *)

\* A caller without a call owes nothing.
LEMMA IdleOK ==
  ASSUME NEW r, NEW t \in Clock, NEW m
  PROVE  Idle \in CallState /\ CallOK(Idle, r, t, m)
<1>1. Idle \in CallState
  BY KnobAssumption DEF Idle, CallState, Op, Verdict
<1> QED BY <1>1, KnobTypes DEF CallOK, Idle

\* A step of one call that keeps the row good keeps the invariant.
LEMMA StepOfOne ==
  ASSUME IInv, NEW c \in Caller, NEW new, call' = [call EXCEPT ![c] = new],
         UNCHANGED <<option, now>>,
         ran' \in Counts, \A d \in Days : ran[d] <= ran'[d],
         row # None => row' # None,
         RowOK(row', now, ran'), CallOK(new, row', now, ran')
  PROVE  IInv'
<1>1. now \in Clock /\ ran \in Counts /\ now <= now
  BY KnobTypes DEF IInv, TypeOK, Clock, Counts
<1>2. \A d \in Caller : CallOK(call'[d], row', now, ran')
  <2> TAKE d \in Caller
  <2>1. CASE d = c
    BY <2>1 DEF IInv, TypeOK
  <2>2. CASE d # c
    <3>1. call'[d] = call[d] /\ CallOK(call[d], row, now, ran)
      BY <2>2 DEF IInv, TypeOK
    <3> QED BY <1>1, <3>1, CallLater
  <2> QED BY <2>1, <2>2
<1>3. row' \in ScheduleRow \cup {None}
  BY DEF RowOK, GoodRow
<1>4. call' \in [Caller -> CallState]
  BY DEF IInv, TypeOK, CallOK
<1>5. TypeOK'
  BY <1>3, <1>4 DEF IInv, TypeOK, Counts
<1> QED BY <1>2, <1>5 DEF IInv

\* What a call is about to do once its copy is good and of its day.
LEMMA DecidedOK ==
  ASSUME NEW self \in CallState, NEW r, r # None, NEW t \in Clock, NEW m,
         self.at <= t, self.base # None => GoodRow(self.base, t, m),
         self.mine # None => GoodRow(self.mine, t, m),
         NEW mine, GoodRow(mine, t, m),
         self.op \in {"snapshot", "decide", "force", "record"}
           => mine.window = Day(self.at)
  PROVE  CallOK(Decided(self, mine), r, t, m)
<1>1. mine \in ScheduleRow /\ mine # None /\ self.at \in Clock
  BY NoRowAssumption DEF GoodRow, CallState, Clock
<1>2. CASE self.op = "snapshot"
  BY <1>2, IdleOK DEF Decided
<1>3. CASE self.op \in {"decide", "force"}
  <2>1. CallOK([Idle EXCEPT !.pc = "running"], r, t, m)
    BY IdleOK DEF CallOK, Idle, CallState
  <2>2. Decided(self, mine) \in {Idle, [Idle EXCEPT !.pc = "running"]}
    BY <1>3 DEF Decided
  <2> QED BY <2>1, <2>2, IdleOK
<1>4. CASE self.op \in {"record", "engage"}
  <2> DEFINE pc == IF self.op = "record" THEN "write" ELSE "merge"
             new == [self EXCEPT !.pc = pc, !.write = "final", !.mine = mine]
  <2>1. Decided(self, mine) = new
    BY <1>4 DEF Decided
  <2>2. pc \in {"merge", "write"} /\ (pc = "write" => self.op = "record")
    BY <1>4
  <2> HIDE DEF pc
  <2>3. /\ new \in CallState /\ new.pc = pc /\ new.write = "final"
        /\ new.mine = mine /\ new.base = self.base /\ new.at = self.at
        /\ new.op = self.op
    BY <1>1, <2>2 DEF CallState
  <2> HIDE DEF new
  <2>4. CopiesOK(new)
    BY <1>1, <1>4, <2>3 DEF CopiesOK
  <2> QED BY <2>1, <2>2, <2>3, <2>4 DEF CallOK
<1>5. CASE self.op \in {"enable", "disable"}
  <2> DEFINE new == [self EXCEPT !.pc = "merge", !.write = "final"]
  <2>1. Decided(self, mine) = new
    BY <1>5 DEF Decided
  <2>2. /\ new \in CallState /\ new.pc = "merge" /\ new.write = "final"
        /\ new.mine = self.mine /\ new.base = self.base /\ new.at = self.at
        /\ new.op = self.op
    BY DEF CallState
  <2> HIDE DEF new
  <2> QED BY <1>5, <2>1, <2>2 DEF CallOK, CopiesOK
<1> QED BY <1>2, <1>3, <1>4, <1>5, KnobAssumption DEF CallState, Op

\* The invariant, as the facts the steps below start from.
LEMMA Facts ==
  ASSUME IInv, NEW c \in Caller
  PROVE  /\ call[c] \in CallState /\ CallOK(call[c], row, now, ran)
         /\ call[c].at \in Clock /\ call[c].at <= now
         /\ now \in Clock /\ ran \in Counts /\ option \in BOOLEAN
         /\ row # None => GoodRow(row, now, ran)
         /\ \A d \in Days : ran[d] <= ran[d]
BY DEF IInv, TypeOK, CallOK, CallState, Clock, Counts, RowOK

\* A call that was just started has read nothing yet.
LEMMA StartedOK ==
  ASSUME IInv, NEW op \in Op, NEW verdict \in Verdict
  PROVE  CallOK([Idle EXCEPT !.pc = "read", !.op = op, !.verdict = verdict,
                             !.at = now], row, now, ran)
<1> DEFINE new == [Idle EXCEPT !.pc = "read", !.op = op, !.verdict = verdict,
                               !.at = now]
<1>1. now \in Clock /\ now <= now
  BY KnobTypes DEF IInv, TypeOK, Clock
<1>2. /\ new \in CallState /\ new.pc = "read" /\ new.mine = None
      /\ new.base = None /\ new.at = now
  BY <1>1 DEF Idle, CallState, Clock
<1> HIDE DEF new
<1>3. CallOK(new, row, now, ran)
  BY <1>1, <1>2 DEF CallOK
<1> QED BY <1>3 DEF new

\* A call of the API begins.
LEMMA CallStep ==
  ASSUME IInv, NEW c \in Caller, Call(c)
  PROVE  IInv'
<1> PICK op \in Calls[c] : Start(c, op, "ok")
  BY DEF Call
<1> DEFINE new == [Idle EXCEPT !.pc = "read", !.op = op, !.verdict = "ok", !.at = now]
<1>0. op \in Op
  BY KnobAssumption
<1>1. CallOK(new, row, now, ran)
  BY <1>0, StartedOK DEF Verdict
<1>2. call' = [call EXCEPT ![c] = new] /\ UNCHANGED <<option, row, now, ran>>
  BY DEF Call, Start
<1>3. RowOK(row, now, ran)
  BY DEF IInv
<1> HIDE DEF new
<1> QED BY <1>1, <1>2, <1>3, Facts, StepOfOne

\* An admitted run ends with a verdict, and its record begins.
LEMMA AssessStep ==
  ASSUME IInv, NEW c \in Caller, Assess(c)
  PROVE  IInv'
<1>1. UNCHANGED <<option, row, now, ran>> /\ RowOK(row, now, ran)
  BY DEF Assess, IInv
<1>2. CASE \E verdict \in Verdict : Start(c, "record", verdict)
  <2> PICK verdict \in Verdict : Start(c, "record", verdict)
    BY <1>2
  <2> DEFINE new == [Idle EXCEPT !.pc = "read", !.op = "record",
                                 !.verdict = verdict, !.at = now]
  <2>1. CallOK(new, row, now, ran)
    BY StartedOK DEF Op
  <2>2. call' = [call EXCEPT ![c] = new]
    BY DEF Start
  <2> HIDE DEF new
  <2> QED BY <1>1, <2>1, <2>2, Facts, StepOfOne
<1>3. CASE call' = [call EXCEPT ![c] = Idle]
  <2>1. CallOK(Idle, row, now, ran)
    BY Facts, IdleOK
  <2> QED BY <1>1, <1>3, <2>1, Facts, StepOfOne
<1> QED BY <1>2, <1>3 DEF Assess

\* A call reads the row, and decides what to write.
LEMMA ReadStep ==
  ASSUME IInv, NEW c \in Caller, Read(c)
  PROVE  IInv'
<1> DEFINE self   == call[c]
           late   == /\ self.op \in {"snapshot", "decide", "force", "record"}
                     /\ row.window # Day(self.at)
           first  == [self EXCEPT !.pc = "write", !.write = "init"]
           rolled == Rolled(row, self.at)
           rolls  == [self EXCEPT !.pc = "merge", !.write = "roll", !.mine = rolled]
           new    == IF row = None THEN first
                     ELSE IF late THEN rolls ELSE Decided(self, row)
<1>1. /\ UNCHANGED <<option, row, now, ran>> /\ RowOK(row, now, ran)
      /\ call' = [call EXCEPT ![c] = new]
  BY DEF Read, IInv
<1>2. /\ self \in CallState /\ CallOK(self, row, now, ran)
      /\ self.at \in Clock /\ self.at <= now /\ now \in Clock /\ ran \in Counts
      /\ row # None => GoodRow(row, now, ran)
  BY Facts
<1>3. CASE row = None
  <2>1. /\ first \in CallState /\ first.pc = "write" /\ first.write = "init"
        /\ first.mine = self.mine /\ first.base = self.base /\ first.at = self.at
    BY <1>2 DEF CallState
  <2> HIDE DEF first
  <2>2. CallOK(first, row, now, ran)
    BY <1>2, <2>1 DEF CallOK, CopiesOK
  <2> QED BY <1>1, <1>3, <2>2, Facts, StepOfOne
<1>4. CASE row # None /\ late
  <2>1. /\ GoodRow(rolled, now, ran) /\ rolled.window = Day(self.at)
        /\ rolled \in ScheduleRow /\ rolled # None
    BY <1>2, <1>4, RolledGood, NoRowAssumption DEF GoodRow
  <2> HIDE DEF rolled
  <2>2. /\ rolls \in CallState /\ rolls.pc = "merge" /\ rolls.write = "roll"
        /\ rolls.mine = rolled /\ rolls.base = self.base
        /\ rolls.at = self.at /\ rolls.op = self.op
    BY <1>2, <2>1 DEF CallState
  <2> HIDE DEF rolls
  <2>3. CallOK(rolls, row, now, ran)
    BY <1>2, <1>4, <2>1, <2>2 DEF CallOK, CopiesOK
  <2> QED BY <1>1, <1>4, <2>3, Facts, StepOfOne
<1>5. CASE row # None /\ ~late
  <2>1. CallOK(Decided(self, row), row, now, ran)
    BY <1>2, <1>5, DecidedOK DEF CallOK
  <2> QED BY <1>1, <1>5, <2>1, Facts, StepOfOne
<1> QED BY <1>3, <1>4, <1>5

\* The upsert reads the row again, to merge into it.
LEMMA MergeStep ==
  ASSUME IInv, NEW c \in Caller, Merge(c)
  PROVE  IInv'
<1> DEFINE self == call[c]
           new  == [self EXCEPT !.pc = "write", !.base = row]
<1>1. UNCHANGED <<option, row, now, ran>> /\ RowOK(row, now, ran)
  BY DEF Merge, IInv
<1>2. /\ self \in CallState /\ CallOK(self, row, now, ran) /\ self.pc = "merge"
      /\ row # None /\ GoodRow(row, now, ran) /\ row \in ScheduleRow
  BY Facts DEF Merge, CallOK, GoodRow
<1>3. call' = [call EXCEPT ![c] = new]
  BY DEF Merge, IInv, TypeOK
<1>4. /\ new \in CallState /\ new.pc = "write" /\ new.base = row
      /\ new.write = self.write /\ new.mine = self.mine /\ new.op = self.op
      /\ new.at = self.at
  BY <1>2 DEF CallState
<1> HIDE DEF new
<1>5. CallOK(new, row, now, ran)
  BY <1>2, <1>4 DEF CallOK, CopiesOK
<1> QED BY <1>1, <1>3, <1>5, Facts, StepOfOne

\* What is written is good, and so is what the writer does next.
LEMMA WriteStep ==
  ASSUME IInv, NEW c \in Caller, Write(c)
  PROVE  IInv'
<1> DEFINE self    == call[c]
           records == self.write = "final" /\ self.op = "record"
           read    == [self EXCEPT !.pc = "read"]
<1>1. /\ self \in CallState /\ CallOK(self, row, now, ran) /\ CopiesOK(self)
      /\ self.at \in Clock /\ self.at <= now /\ now \in Clock /\ ran \in Counts
      /\ self.pc = "write" /\ option \in BOOLEAN
      /\ \A d \in Days : ran[d] <= ran[d]
  BY Facts DEF Write, CallOK
<1>2. /\ UNCHANGED <<option, now>> /\ row' = Upserted(self)
      /\ ran' = IF records THEN [ran EXCEPT ![Day(self.at)] = ran[Day(self.at)] + 1]
                ELSE ran
  BY DayInDays, <1>1 DEF Write, Counts
<1>3. call' = [call EXCEPT ![c] =
           CASE self.write = "init"  -> read
             [] self.write = "roll"  -> Decided(self, self.mine)
             [] self.write = "final" -> Idle]
  BY DEF Write
<1>4. /\ ran' \in Counts
      /\ \A d \in Days : ran[d] <= ran'[d]
  BY <1>1, <1>2, DayInDays DEF Counts
<1>5. \A r : GoodRow(r, now, ran') => r # None
  BY NoRowAssumption DEF GoodRow
<1>6. \A r : GoodRow(r, now, ran) => GoodRow(r, now, ran')
  <2>1. now <= now
    BY <1>1, KnobTypes
  <2> QED BY <1>1, <1>4, <2>1, GoodRowLater
<1>7. /\ self.mine # None => GoodRow(self.mine, now, ran)
      /\ self.base # None => GoodRow(self.base, now, ran)
  BY <1>1 DEF CallOK
<1>8. CASE self.write = "init"
  <2>1. row' = InitialRow(self.op, self.at) /\ call' = [call EXCEPT ![c] = read]
    BY <1>2, <1>3, <1>8 DEF Upserted
  <2>2. GoodRow(row', now, ran')
    BY <1>1, <1>4, <2>1, InitialRowGood
  <2>3. /\ read \in CallState /\ read.pc = "read" /\ read.mine = self.mine
        /\ read.base = self.base /\ read.at = self.at
    BY <1>1 DEF CallState
  <2> HIDE DEF read
  <2>4. CallOK(read, row', now, ran')
    BY <1>1, <1>6, <1>7, <2>3 DEF CallOK
  <2>5. row' # None /\ RowOK(row', now, ran')
    BY <1>5, <2>2 DEF RowOK
  <2> QED BY <1>2, <1>4, <2>1, <2>4, <2>5, StepOfOne
<1>9. CASE self.write = "roll"
  <2>1. /\ row' = Rolled(self.base, self.at)
        /\ call' = [call EXCEPT ![c] = Decided(self, self.mine)]
    BY <1>2, <1>3, <1>9 DEF Upserted
  <2>2. self.base # None /\ self.mine # None /\ self.mine.window = Day(self.at)
    BY <1>1, <1>9 DEF CallOK, CopiesOK
  <2>3. GoodRow(row', now, ran')
    BY <1>1, <1>4, <1>6, <1>7, <2>1, <2>2, RolledGood
  <2>4. row' # None /\ RowOK(row', now, ran')
    BY <1>5, <2>3 DEF RowOK
  <2>5. CallOK(Decided(self, self.mine), row', now, ran')
    BY <1>1, <1>6, <1>7, <2>2, <2>4, DecidedOK
  <2> QED BY <1>2, <1>4, <2>1, <2>4, <2>5, StepOfOne
<1>10. CASE self.write = "final"
  <2>1. call' = [call EXCEPT ![c] = Idle]
    BY <1>3, <1>10
  <2>2. CallOK(Idle, row', now, ran')
    BY <1>1, IdleOK
  <2>3. SUFFICES GoodRow(row', now, ran')
    <3>1. ASSUME GoodRow(row', now, ran')
          PROVE  row' # None /\ RowOK(row', now, ran')
      BY <1>5, <3>1 DEF RowOK
    <3> QED BY <1>2, <1>4, <2>1, <2>2, <3>1, StepOfOne
  <2>4. CASE self.op = "record"
    <3>1. row' = Recorded(self.mine, self.verdict, self.at)
      BY <1>2, <1>10, <2>4 DEF Upserted
    <3>2. ran' = [ran EXCEPT ![Day(self.at)] = ran[Day(self.at)] + 1]
      BY <1>2, <1>10, <2>4
    <3>3. self.mine # None /\ self.mine.window = Day(self.at)
      BY <1>1, <1>10, <2>4 DEF CopiesOK
    <3>4. self.verdict \in Verdict
      BY <1>1 DEF CallState
    <3> QED BY <1>1, <1>4, <1>7, <3>1, <3>2, <3>3, <3>4, RecordedGood
  <2>5. CASE self.op = "engage"
    <3>1. row' = Engaged(self.mine, self.base, self.at)
      BY <1>2, <1>10, <2>5 DEF Upserted
    <3>2. self.mine # None /\ self.base # None
      BY <1>1, <1>10, <2>5 DEF CopiesOK, CallOK
    <3> QED BY <1>1, <1>4, <1>6, <1>7, <3>1, <3>2, EngagedGood
  <2>6. CASE self.op \in {"enable", "disable"}
    <3>1. row' \in {Enabled(self.base, self.at), Disabled(self.base, self.at)}
      BY <1>2, <1>10, <2>6 DEF Upserted
    <3>2. self.base # None
      BY <1>1, <1>10, <2>6 DEF CallOK
    <3> QED BY <1>1, <1>4, <1>6, <1>7, <3>1, <3>2, SwitchedGood
  <2> QED BY <1>1, <1>10, <2>4, <2>5, <2>6 DEF CopiesOK
<1> QED BY <1>1, <1>8, <1>9, <1>10 DEF CallState

\* A restart loses the calls, and the database keeps the row.
LEMMA RestartStep ==
  ASSUME IInv, Restart
  PROVE  IInv'
<1>1. /\ call' = [c \in Caller |-> Idle] /\ UNCHANGED <<row, now, ran>>
      /\ option' \in BOOLEAN
  BY DEF Restart
<1>2. now \in Clock
  BY DEF IInv, TypeOK, Clock
<1>3. Idle \in CallState /\ CallOK(Idle, row, now, ran)
  BY <1>2, IdleOK
<1>4. call' \in [Caller -> CallState]
      /\ \A c \in Caller : CallOK(call'[c], row, now, ran)
  BY <1>1, <1>3
<1> QED BY <1>1, <1>4 DEF IInv, TypeOK

\* Time passes; the row and what the calls hold stay as they are.
LEMMA TickStep ==
  ASSUME IInv, Tick
  PROVE  IInv'
<1>1. /\ now \in Clock /\ now' \in Clock /\ now <= now' /\ ran \in Counts
      /\ \A d \in Days : ran[d] <= ran[d]
      /\ UNCHANGED <<option, row, call, ran>>
  BY KnobAssumption DEF IInv, TypeOK, Tick, Clock, Counts
<1>2. RowOK(row, now', ran)
  BY <1>1, GoodRowLater DEF IInv, RowOK
<1>3. \A c \in Caller : CallOK(call[c], row, now', ran)
  BY <1>1, CallLater DEF IInv
<1> QED BY <1>1, <1>2, <1>3 DEF IInv, TypeOK, Clock

\* Before the first call there is no row and no run.
LEMMA InitIInv == Init => IInv
<1> SUFFICES ASSUME Init PROVE IInv
  OBVIOUS
<1>1. 0 \in Clock /\ now = 0
  BY KnobAssumption DEF Clock, Init
<1>2. Idle \in CallState /\ CallOK(Idle, row, now, ran)
  BY <1>1, IdleOK
<1>3. call \in [Caller -> CallState]
      /\ \A c \in Caller : CallOK(call[c], row, now, ran)
  BY <1>2 DEF Init
<1>4. TypeOK
  BY <1>1, <1>3 DEF Init, TypeOK, Clock
<1> QED BY <1>3, <1>4 DEF IInv, RowOK, Init

\* Every step keeps the invariant.
LEMMA NextIInv == IInv /\ [Next]_vars => IInv'
<1> SUFFICES ASSUME IInv, [Next]_vars PROVE IInv'
  OBVIOUS
<1>1. CASE UNCHANGED vars
  BY <1>1 DEF vars, IInv, TypeOK
<1> QED BY <1>1, CallStep, AssessStep, ReadStep, MergeStep, WriteStep,
           RestartStep, TickStep DEF Next, Proceed
-----------------------------------------------------------------------------
\* The invariant holds of every behaviour, for any number of callers on one
\* row.
THEOREM InvariantHolds == Spec => []IInv
BY InitIInv, NextIInv, PTL DEF Spec

\* Types, for any number of callers and any knobs.
THEOREM TypesHold == Spec => []TypeOK
<1>1. IInv => TypeOK
  BY DEF IInv
<1> QED BY <1>1, InvariantHolds, PTL

\* However the reads and writes of any number of callers interleave, the row's
\* interval, streaks and next check are those of its state.
THEOREM RowIsNeverTorn == Spec => []CadenceMatchesState
<1>1. IInv => CadenceMatchesState
  BY DEF IInv, RowOK, GoodRow, CadenceMatchesState
<1> QED BY <1>1, InvariantHolds, PTL

\* ... and its budget count never exceeds the assessments recorded on its day.
THEOREM ChargesAreEarned == Spec => []OnlyRunsAreCharged
<1>1. IInv => OnlyRunsAreCharged
  BY DEF IInv, RowOK, GoodRow, OnlyRunsAreCharged
<1> QED BY <1>1, InvariantHolds, PTL
-----------------------------------------------------------------------------
(* the budget, when calls do not overlap *)

\* When calls do not overlap, the row tells how many assessments ran on its day,
\* and none ran later.
RowTells(r, count, time) ==
  IF r = None THEN \A d \in Days : count[d] = 0
  ELSE /\ r.window <= Day(time) /\ count[r.window] = r.used
       /\ \A d \in Days : count[d] <= DailyBudget /\ (d > r.window => count[d] = 0)

\* What a call knows of the row is still so, and a run that was admitted has
\* room in the budget.
Current(self, r) ==
  /\ self.pc = "running" => r # None /\ r.used < DailyBudget
  /\ self.pc \in {"read", "merge", "write"} =>
       /\ r # None => r.window <= Day(self.at)
       /\ self.op = "record" => /\ r # None /\ 0 < DailyBudget
                                /\ r.window = Day(self.at) => r.used < DailyBudget
  /\ self.pc \in {"merge", "write"} =>
       /\ self.write = "init" <=> r = None
       /\ self.write = "roll" => self.mine = Rolled(r, self.at) /\ r.window # Day(self.at)
       /\ self.write = "final" /\ self.op \in {"engage", "record"} => self.mine = r
  /\ self.pc = "write" => \/ self.write = "init"
                          \/ self.write = "final" /\ self.op = "record"
                          \/ self.base = r

Serial ==
  /\ RowTells(row, ran, now)
  /\ \A c \in Caller : Current(call[c], row)
  /\ \A c, d \in Caller : c # d => call[c].pc = "idle" \/ call[d].pc = "idle"

LEMMA DaysInOrder ==
  ASSUME NEW a \in Nat, NEW b \in Nat, a <= b
  PROVE  Day(a) \in Nat /\ Day(a) <= Day(b)
<1>1. DayLength \in Nat /\ DayLength > 0
  BY KnobAssumption
<1> DEFINE p == a \div DayLength
           q == b \div DayLength
<1>2. /\ p \in Nat /\ a % DayLength \in 0 .. DayLength - 1 /\ a = DayLength * p + (a % DayLength)
      /\ q \in Nat /\ b % DayLength \in 0 .. DayLength - 1 /\ b = DayLength * q + (b % DayLength)
  BY <1>1
<1>3. Day(a) = p /\ Day(b) = q
  BY DEF Day
<1>4. DayLength * (p - q) < DayLength
  <2>1. DayLength * (p - q) = DayLength * p - DayLength * q
    BY <1>1, <1>2
  <2> QED BY <1>1, <1>2, <2>1
<1> HIDE DEF p, q
<1>5. p - q >= 1 => DayLength * (p - q) >= DayLength
  BY <1>1, <1>2
<1> QED BY <1>1, <1>2, <1>3, <1>4, <1>5

\* A step of the one call there is.
LEMMA SerialStepOfOne ==
  ASSUME IInv, Serial, NEW c \in Caller, NEW new, call' = [call EXCEPT ![c] = new],
         call[c].pc # "idle" \/ \A d \in Caller : c # d => call[d].pc = "idle",
         RowTells(row', ran', now'), Current(new, row')
  PROVE  Serial'
<1>1. call \in [Caller -> CallState]
  BY DEF IInv, TypeOK
<1>2. \A d \in Caller : c # d => call[d].pc = "idle"
  BY DEF Serial
<1>3. call'[c] = new /\ \A d \in Caller : c # d => call'[d] = call[d] /\ call'[d].pc = "idle"
  BY <1>1, <1>2
<1>4. \A d \in Caller : Current(call'[d], row')
  BY <1>3 DEF Current
<1>5. \A a, d \in Caller : a # d => call'[a].pc = "idle" \/ call'[d].pc = "idle"
  BY <1>3
<1> QED BY <1>4, <1>5 DEF Serial

\* The clock may move on under a call, and the process may restart.
LEMMA SerialTime ==
  ASSUME IInv, Serial, UNCHANGED <<row, ran>>, now' \in Clock, now <= now',
         call' = call \/ call' = [c \in Caller |-> Idle]
  PROVE  Serial'
<1>1. row # None => row.window \in Nat
  BY DEF IInv, TypeOK, ScheduleRow
<1>2. Day(now) \in Nat /\ Day(now') \in Nat /\ Day(now) <= Day(now')
  BY DaysInOrder, KnobTypes DEF IInv, TypeOK, Clock
<1>3. RowTells(row', ran', now')
  BY <1>1, <1>2 DEF Serial, RowTells
<1>4. CASE call' = call
  BY <1>3, <1>4 DEF Serial
<1>5. CASE call' = [c \in Caller |-> Idle]
  <2>1. Idle.pc = "idle"
    BY DEF Idle
  <2>2. \A c \in Caller : call'[c].pc = "idle"
    BY <1>5, <2>1
  <2> QED BY <1>3, <2>2 DEF Serial, Current
<1> QED BY <1>4, <1>5

\* What a call does next, once it has a copy of the row as it stands.
LEMMA SerialDecided ==
  ASSUME NEW self \in CallState, NEW r \in ScheduleRow,
         r.window <= Day(self.at),
         self.op = "record" => 0 < DailyBudget /\ (r.window = Day(self.at) => r.used < DailyBudget)
  PROVE  Current(Decided(self, r), r)
<1> DEFINE new == Decided(self, r)
<1>0. r # None
  BY NoRowAssumption
<1>1. CASE self.op \in {"snapshot", "decide", "force"}
  <2>1. new = Idle \/ (new = [Idle EXCEPT !.pc = "running"] /\ r.used < DailyBudget)
    BY <1>1 DEF Decided, Admitted
  <2> HIDE DEF new
  <2>2. new.pc = "idle" \/ (new.pc = "running" /\ r.used < DailyBudget)
    BY <2>1 DEF Idle
  <2>3. Current(new, r)
    BY <1>0, <2>2 DEF Current
  <2> QED BY <2>3 DEF new
<1>2. CASE self.op = "record"
  <2>1. new = [self EXCEPT !.pc = "write", !.write = "final", !.mine = r]
    BY <1>2 DEF Decided
  <2> HIDE DEF new
  <2>2. /\ new.pc = "write" /\ new.write = "final" /\ new.mine = r
        /\ new.op = self.op /\ new.at = self.at
    BY <2>1 DEF CallState
  <2>3. Current(new, r)
    BY <1>0, <1>2, <2>2 DEF Current
  <2> QED BY <2>3 DEF new
<1>3. CASE self.op = "engage"
  <2>1. new = [self EXCEPT !.pc = "merge", !.write = "final", !.mine = r]
    BY <1>3 DEF Decided
  <2> HIDE DEF new
  <2>2. /\ new.pc = "merge" /\ new.write = "final" /\ new.mine = r
        /\ new.op = self.op /\ new.at = self.at
    BY <2>1 DEF CallState
  <2>3. Current(new, r)
    BY <1>0, <1>3, <2>2 DEF Current
  <2> QED BY <2>3 DEF new
<1>4. CASE self.op \in {"enable", "disable"}
  <2>1. new = [self EXCEPT !.pc = "merge", !.write = "final"]
    BY <1>4 DEF Decided
  <2> HIDE DEF new
  <2>2. new.pc = "merge" /\ new.write = "final" /\ new.op = self.op /\ new.at = self.at
    BY <2>1 DEF CallState
  <2>3. Current(new, r)
    BY <1>0, <1>4, <2>2 DEF Current
  <2> QED BY <2>3 DEF new
<1> QED BY <1>1, <1>2, <1>3, <1>4 DEF CallState, Op

\* An operation is called, or the verdict of a run comes in.
LEMMA SerialStart ==
  ASSUME IInv, Serial, NEW c \in Caller, NEW op, NEW verdict, Start(c, op, verdict),
         op = "record" => row # None /\ row.used < DailyBudget
  PROVE  Current(call'[c], row)
<1> DEFINE new == [Idle EXCEPT !.pc = "read", !.op = op, !.verdict = verdict, !.at = now]
<1>1. call'[c] = new
  BY DEF Start, IInv, TypeOK
<1>2. new.pc = "read" /\ new.op = op /\ new.at = now
  BY DEF Idle
<1> HIDE DEF new
<1>3. row # None => row.window <= Day(now) /\ row.used \in Nat
  BY DEF Serial, RowTells, IInv, TypeOK, ScheduleRow
<1>4. DailyBudget \in Nat
  BY KnobAssumption
<1> QED BY <1>1, <1>2, <1>3, <1>4 DEF Current

\* The one call, and the row as it finds it.
LEMMA SerialFacts ==
  ASSUME IInv, Serial, NEW c \in Caller
  PROVE  /\ call[c] \in CallState /\ Current(call[c], row) /\ RowTells(row, ran, now)
         /\ call[c].at \in Clock /\ call[c].at <= now /\ ran \in Counts
         /\ Day(call[c].at) \in Days /\ Day(call[c].at) \in Nat
         /\ Day(call[c].at) <= Day(now) /\ Day(now) \in Nat /\ DailyBudget \in Nat
         /\ row # None => row \in ScheduleRow /\ row.used \in Nat /\ row.window \in Days
                          /\ row.window \in Nat
<1>1. /\ call[c] \in CallState /\ Current(call[c], row) /\ RowTells(row, ran, now)
      /\ call[c].at \in Clock /\ call[c].at <= now /\ now \in Clock /\ ran \in Counts
      /\ row # None => GoodRow(row, now, ran)
  BY Facts DEF Serial
<1>2. call[c].at \in Nat /\ now \in Nat /\ DailyBudget \in Nat
  BY <1>1, KnobTypes, KnobAssumption
<1>3. /\ Day(call[c].at) \in Nat /\ Day(call[c].at) <= Day(now) /\ Day(now) \in Nat
  BY <1>1, <1>2, DaysInOrder
<1>4. Day(call[c].at) \in Days
  BY <1>1, DayInDays
<1>5. row # None => row \in ScheduleRow /\ row.used \in Nat /\ row.window \in Days
                    /\ row.window \in Nat
  BY <1>1 DEF GoodRow, Charged, ScheduleRow
<1> QED BY <1>1, <1>2, <1>3, <1>4, <1>5

LEMMA SerialRead ==
  ASSUME IInv, Serial, NEW c \in Caller, Read(c)
  PROVE  Serial'
<1> DEFINE self   == call[c]
           late   == /\ self.op \in {"snapshot", "decide", "force", "record"}
                     /\ row.window # Day(self.at)
           first  == [self EXCEPT !.pc = "write", !.write = "init"]
           rolls  == [self EXCEPT !.pc = "merge", !.write = "roll", !.mine = Rolled(row, self.at)]
           new    == IF row = None THEN first
                     ELSE IF late THEN rolls ELSE Decided(self, row)
<1>1. self.pc = "read" /\ call' = [call EXCEPT ![c] = new] /\ UNCHANGED <<option, row, now, ran>>
  BY DEF Read
<1>2. /\ self \in CallState /\ Current(self, row) /\ RowTells(row, ran, now)
      /\ row # None => row \in ScheduleRow
  BY SerialFacts
<1>3. Current(new, row)
  <2>1. CASE row = None
    <3>1. first.pc = "write" /\ first.write = "init" /\ first.op = self.op
      BY <1>2 DEF CallState
    <3> HIDE DEF first
    <3>2. Current(first, row)
      BY <1>1, <1>2, <2>1, <3>1 DEF Current
    <3> QED BY <2>1, <3>2
  <2>2. CASE row # None /\ late
    <3>1. /\ rolls.pc = "merge" /\ rolls.write = "roll" /\ rolls.op = self.op
          /\ rolls.at = self.at /\ rolls.mine = Rolled(row, self.at)
      BY <1>2 DEF CallState
    <3> HIDE DEF rolls
    <3>2. Current(rolls, row)
      BY <1>1, <1>2, <2>2, <3>1 DEF Current
    <3> QED BY <2>2, <3>2
  <2>3. CASE row # None /\ ~late
    <3>1. Current(Decided(self, row), row)
      <4>1. row.window <= Day(self.at)
        BY <1>1, <1>2, <2>3 DEF Current
      <4>2. self.op = "record" =>
              0 < DailyBudget /\ (row.window = Day(self.at) => row.used < DailyBudget)
        BY <1>1, <1>2, <2>3 DEF Current
      <4> QED BY <1>2, <2>3, <4>1, <4>2, SerialDecided
    <3> QED BY <2>3, <3>1
  <2> QED BY <2>1, <2>2, <2>3
<1> HIDE DEF new
<1> QED BY <1>1, <1>2, <1>3, SerialStepOfOne

LEMMA SerialMerge ==
  ASSUME IInv, Serial, NEW c \in Caller, Merge(c)
  PROVE  Serial'
<1> DEFINE self == call[c]
           new  == [self EXCEPT !.pc = "write", !.base = row]
<1>1. /\ self.pc = "merge" /\ call' = [call EXCEPT ![c] = new]
      /\ UNCHANGED <<option, row, now, ran>>
  BY DEF Merge, IInv, TypeOK
<1>2. self \in CallState /\ Current(self, row) /\ RowTells(row, ran, now)
  BY SerialFacts
<1>3. /\ new.pc = "write" /\ new.base = row /\ new.write = self.write
      /\ new.mine = self.mine /\ new.op = self.op /\ new.at = self.at
  BY <1>2 DEF CallState
<1> HIDE DEF new
<1>4. Current(new, row)
  BY <1>1, <1>2, <1>3 DEF Current
<1> QED BY <1>1, <1>2, <1>4, SerialStepOfOne

LEMMA SerialWrite ==
  ASSUME IInv, Serial, NEW c \in Caller, Write(c)
  PROVE  Serial'
<1> DEFINE self    == call[c]
           records == self.write = "final" /\ self.op = "record"
           read    == [self EXCEPT !.pc = "read"]
           day     == Day(self.at)
<1>1. /\ self \in CallState /\ Current(self, row) /\ RowTells(row, ran, now)
      /\ self.at \in Clock /\ self.at <= now /\ ran \in Counts
      /\ day \in Days /\ day \in Nat
      /\ day <= Day(now) /\ Day(now) \in Nat /\ DailyBudget \in Nat
      /\ row # None => row \in ScheduleRow /\ row.used \in Nat /\ row.window \in Days
                       /\ row.window \in Nat
  BY SerialFacts
<1>2. self.pc = "write" /\ UNCHANGED <<option, now>> /\ row' = Upserted(self)
  BY DEF Write
<1>3. CopiesOK(self)
  BY <1>2, Facts DEF CallOK
<1>4. /\ ran' = IF records THEN [ran EXCEPT ![day] = ran[day] + 1] ELSE ran
      /\ call' = [call EXCEPT ![c] =
           CASE self.write = "init"  -> read
             [] self.write = "roll"  -> Decided(self, self.mine)
             [] self.write = "final" -> Idle]
  BY DEF Write
<1>5. \A r, t, n : GoodRow(r, t, n) => r # None
  BY NoRowAssumption DEF GoodRow
<1>6. row # None => GoodRow(row, now, ran) /\ now \in Clock
  BY Facts
<1>7. \A d \in Days : d \in Nat
  BY DayInDays, KnobTypes, DaysInOrder DEF Days, Clock
<1>8. CASE self.write = "init"
  <2>1. /\ row' = InitialRow(self.op, self.at) /\ call' = [call EXCEPT ![c] = read] /\ ran' = ran
    BY <1>2, <1>4, <1>8 DEF Upserted
  <2>2. row = None /\ self.op # "record"
    BY <1>1, <1>2, <1>8 DEF Current
  <2>3. row'.window = day /\ row'.used = 0
    BY <2>1 DEF InitialRow
  <2>4. RowTells(row', ran', now')
    BY <1>1, <1>2, <2>1, <2>2, <2>3 DEF RowTells, Counts
  <2>5. read.pc = "read" /\ read.op = self.op /\ read.at = self.at
    BY <1>1 DEF CallState
  <2> HIDE DEF read
  <2>6. Current(read, row')
    BY <1>1, <2>2, <2>3, <2>5 DEF Current
  <2> QED BY <1>2, <2>1, <2>4, <2>6, SerialStepOfOne
<1>9. CASE self.write = "roll"
  <2>1. /\ row' = Rolled(self.base, self.at) /\ ran' = ran
        /\ call' = [call EXCEPT ![c] = Decided(self, self.mine)]
    BY <1>2, <1>4, <1>9 DEF Upserted
  <2>2. /\ row # None /\ self.base = row /\ self.mine = Rolled(row, self.at) /\ row.window # day
        /\ row.window <= day /\ (self.op = "record" => 0 < DailyBudget)
    BY <1>1, <1>2, <1>9 DEF Current
  <2>3. /\ row' = self.mine /\ row' \in ScheduleRow /\ row' # None
        /\ row'.window = day /\ row'.used = 0
    <3>1. row' = self.mine /\ row' \in ScheduleRow /\ row'.window = day /\ row'.used = 0
      BY <1>1, <2>1, <2>2 DEF Rolled, ScheduleRow
    <3> QED BY <3>1, NoRowAssumption
  <2>4. ran[day] = 0 /\ \A d \in Days : d > day => ran[d] = 0
    BY <1>1, <1>7, <2>2 DEF RowTells
  <2>5. RowTells(row', ran', now')
    BY <1>1, <1>2, <2>1, <2>2, <2>3, <2>4 DEF RowTells
  <2>6. Current(Decided(self, row'), row')
    <3>1. PICK r \in ScheduleRow : r = row'
      BY <2>3
    <3>2. r.window <= Day(self.at) /\ (self.op = "record" => 0 < DailyBudget /\ r.used < DailyBudget)
      BY <1>1, <2>2, <2>3, <3>1
    <3>3. Current(Decided(self, r), r)
      BY <1>1, <3>2, SerialDecided
    <3> QED BY <3>1, <3>3
  <2> QED BY <1>2, <2>1, <2>3, <2>5, <2>6, SerialStepOfOne
<1>10. CASE self.write = "final"
  <2>1. call' = [call EXCEPT ![c] = Idle]
    BY <1>4, <1>10
  <2>2. \A r : Current(Idle, r)
    BY DEF Current, Idle
  <2>3. row # None /\ row.window <= day
    BY <1>1, <1>2, <1>10 DEF Current
  <2>4. RowTells(row', ran', now')
    <3>1. CASE self.op = "record"
      <4>1. /\ row' = Recorded(self.mine, self.verdict, self.at)
            /\ ran' = [ran EXCEPT ![day] = ran[day] + 1]
        BY <1>2, <1>4, <1>10, <3>1 DEF Upserted
      <4>2. self.mine = row /\ row.window = day /\ row.used < DailyBudget
        BY <1>1, <1>2, <1>3, <1>10, <3>1 DEF Current, CopiesOK
      <4>3. row'.window = day /\ row'.used = row.used + 1
        BY <4>1, <4>2 DEF Recorded
      <4>4. row' # None
        <5>1. ran' \in Counts /\ self.verdict \in Verdict
          BY <1>1, <4>1 DEF Counts, CallState
        <5>2. GoodRow(row', now, ran')
          BY <1>1, <1>6, <2>3, <4>1, <4>2, <5>1, RecordedGood
        <5> QED BY <1>5, <5>2
      <4> QED BY <1>1, <1>2, <1>7, <2>3, <4>1, <4>2, <4>3, <4>4 DEF RowTells, Counts
    <3>2. CASE self.op \in {"engage", "enable", "disable"}
      <4>1. ran' = ran
        BY <1>4, <3>2
      <4>2. self.base = row /\ (self.op = "engage" => self.mine = row)
        BY <1>1, <1>2, <1>10, <3>2 DEF Current
      <4>3. row'.window = row.window /\ row'.used = row.used
        BY <1>1, <1>2, <1>10, <2>3, <3>2, <4>2
           DEF Upserted, Engaged, Enabled, Disabled, ScheduleRow
      <4>4. row' # None
        <5>1. /\ self.op = "engage" => row' = Engaged(self.mine, self.base, self.at)
              /\ self.op # "engage" =>
                   row' \in {Enabled(self.base, self.at), Disabled(self.base, self.at)}
          BY <1>2, <1>10, <3>2 DEF Upserted
        <5>2. GoodRow(row', now, ran)
          BY <1>1, <1>6, <2>3, <4>2, <5>1, EngagedGood, SwitchedGood
        <5> QED BY <1>5, <5>2
      <4> QED BY <1>1, <1>2, <2>3, <4>1, <4>3, <4>4 DEF RowTells
    <3> QED BY <1>3, <1>10, <3>1, <3>2 DEF CopiesOK
  <2> QED BY <1>2, <2>1, <2>2, <2>4, SerialStepOfOne
<1> QED BY <1>1, <1>8, <1>9, <1>10 DEF CallState

LEMMA SerialStep == IInv /\ Serial /\ [Next]_vars /\ [OneAtATime]_vars => Serial'
<1> SUFFICES ASSUME IInv, Serial, [Next]_vars, [OneAtATime]_vars PROVE Serial'
  OBVIOUS
<1>1. CASE UNCHANGED vars
  BY <1>1 DEF vars, Serial
<1>2. ASSUME NEW c \in Caller, Call(c) \/ Assess(c), UNCHANGED <<option, row, now, ran>>,
             OneAtATime
      PROVE  Serial'
  <2>1. RowTells(row', ran', now') /\ call \in [Caller -> CallState]
    BY <1>2 DEF Serial, IInv, TypeOK
  <2>2. PICK new : call' = [call EXCEPT ![c] = new] /\ Current(new, row)
    <3>1. CASE \E op, verdict : /\ Start(c, op, verdict)
                                /\ op = "record" => row # None /\ row.used < DailyBudget
      <4>1. Current(call'[c], row)
        BY <3>1, SerialStart
      <4>2. \E new : call' = [call EXCEPT ![c] = new] /\ call'[c] = new
        BY <2>1, <3>1 DEF Start
      <4> QED BY <4>1, <4>2
    <3>2. CASE call' = [call EXCEPT ![c] = Idle]
      <4>1. Current(Idle, row)
        BY DEF Current, Idle
      <4> QED BY <3>2, <4>1
    <3>3. Call(c) => \E op \in Calls[c] : Start(c, op, "ok") /\ op # "record"
      BY KnobAssumption DEF Call
    <3>4. call[c].pc = "running" => row # None /\ row.used < DailyBudget
      BY DEF Serial, Current
    <3> QED BY <1>2, <3>1, <3>2, <3>3, <3>4 DEF Assess
  <2>3. call[c].pc = "idle" => call'[c].pc # "idle"
    <3>1. call[c].pc = "idle" => \E op : Start(c, op, "ok")
      BY <1>2 DEF Call, Assess
    <3>2. \A op : Start(c, op, "ok") => call'[c].pc = "read"
      BY <2>1 DEF Start, Idle
    <3> QED BY <3>1, <3>2
  <2>4. call[c].pc # "idle" \/ \A d \in Caller : c # d => call[d].pc = "idle"
    BY <1>2, <2>3 DEF OneAtATime
  <2> QED BY <1>2, <2>1, <2>2, <2>4, SerialStepOfOne
<1>3. ASSUME NEW c \in Caller, Call(c) \/ Assess(c)
      PROVE  Serial'
  <2>1. UNCHANGED <<option, row, now, ran>>
    BY <1>3 DEF Call, Assess
  <2>2. CASE OneAtATime
    BY <1>2, <1>3, <2>1, <2>2
  <2> QED BY <1>1, <2>2
<1>4. ASSUME Restart \/ Tick
      PROVE  Serial'
  <2>1. now \in Clock /\ now \in Nat
    BY KnobTypes DEF IInv, TypeOK, Clock
  <2>2. /\ UNCHANGED <<row, ran>> /\ now' \in Clock /\ now <= now'
        /\ call' = call \/ call' = [c \in Caller |-> Idle]
    BY <1>4, <2>1, KnobAssumption DEF Restart, Tick, Clock
  <2> QED BY <2>2, SerialTime
<1> QED BY <1>1, <1>3, <1>4, SerialRead, SerialMerge, SerialWrite DEF Next, Proceed

\* Calls that do not overlap keep to the budget, whatever the knobs, however often
\* the add-on restarts in the middle of one and whenever midnight falls: that calls
\* overlap is all there is to the excess that MCAssessmentScheduler_budget shows.
THEOREM SerialCallsKeepTheBudget == SerialSpec => []BudgetCap
<1>1. Init => Serial
  <2>1. Idle.pc = "idle"
    BY DEF Idle
  <2> QED BY <2>1 DEF Init, Serial, RowTells, Current
<1>2. Serial => BudgetCap
  BY KnobAssumption DEF Serial, RowTells, BudgetCap
<1>3. [Next /\ OneAtATime]_vars => [Next]_vars /\ [OneAtATime]_vars
  OBVIOUS
<1>4. SerialSpec => Spec
  BY <1>3, PTL DEF SerialSpec, Spec
<1> QED BY <1>1, <1>2, <1>3, <1>4, SerialStep, InvariantHolds, PTL DEF SerialSpec

=============================================================================
