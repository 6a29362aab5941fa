---------------------------- MODULE PipelineProofs ----------------------------
(***************************************************************************)
(* Proofs about the two parts of a pipeline tick that share memory between *)
(* ticks: PipelineRunner, the tick itself, and ObserverEvents, the poll    *)
(* that is one of its stages.                                              *)
(*                                                                         *)
(* PipelineRunner, for every number of ticks in flight and of stages: the  *)
(* invariants of the runs are inductive together.  A row is written from   *)
(* the dictionary its own tick has just put back, so it does not matter    *)
(* what other ticks did to _last_tick before. StartIsKnown is what the     *)
(* type of a row needs besides.                                            *)
(*                                                                         *)
(* ObserverEvents, for every set of polls, list of add-ons, set of states  *)
(* and bounds: IdsPointAtOpenWindows is inductive once the caches and rows *)
(* have their types: a poll closes only the window its cache points at,    *)
(* that window is the add-on's own, so no other add-on's id points at it.  *)
(***************************************************************************)
EXTENDS PipelineRunner, ObserverEvents, SequenceTheorems, TLAPS

(* the tick *)

\* While a tick is in flight, _last_tick has the start of one.
StartIsKnown == (\E t \in Tick : tick[t].at # 0) => last.started \in Tick

RunnerInv == StartIsKnown /\ TicksTyped /\ RowsAreWhole /\ FailuresAreNamed /\ QuietWhenIdle

\* The result of a stage extends what is done, and goes on or ends the tick.
LEMMA ResultType ==
  ASSUME TicksTyped, NEW t \in Tick, tick[t].at \in Stage, NEW ok \in BOOLEAN
  PROVE  LET r == Result(t, ok)
         IN /\ r \in TickState /\ r.failed \subseteq r.done
            /\ r.done = 1 .. tick[t].at
            /\ r.at = IF tick[t].at = Stages THEN 0 ELSE tick[t].at + 1
<1>1. Stages \in Nat \ {0}
  BY TickAssumption
<1>2. tick[t] \in TickState
  BY DEF TicksTyped
<1>3. tick[t].at \in 1 .. Stages /\ tick[t].at # 0
  BY <1>1 DEF Stage
<1>4. tick[t].failed \subseteq tick[t].done /\ tick[t].done = 1 .. tick[t].at - 1
  BY <1>3 DEF TicksTyped
<1>5. tick[t].done \cup {tick[t].at} = 1 .. tick[t].at /\ 1 .. tick[t].at \subseteq Stage
  BY <1>1, <1>3, <1>4 DEF Stage
<1>6. (IF tick[t].at = Stages THEN 0 ELSE tick[t].at + 1) \in 0 .. Stages
  BY <1>1, <1>3
<1>7. (IF ok THEN tick[t].failed ELSE tick[t].failed \cup {tick[t].at}) \subseteq 1 .. tick[t].at
  BY <1>4, <1>5
<1> QED BY <1>5, <1>6, <1>7 DEF Result, TickState

\* Nothing has run and nothing is recorded.
LEMMA InitRunner == RunnerInit => RunnerInv
BY TickAssumption
   DEF RunnerInit, RunnerInv, TicksTyped, TickState, Last, Fresh, RowsAreWhole, FailuresAreNamed, QuietWhenIdle,
       StartIsKnown

\* A tick begins: it is in flight, and no row changes.
LEMMA TickStartStep ==
  ASSUME RunnerInv, NEW t \in Tick, Start(t)
  PROVE  RunnerInv'
<1>1. Stages \in Nat \ {0} /\ 1 \in 0 .. Stages /\ 1 .. 1 - 1 = {}
  BY TickAssumption
<1>2. tick'[t] = [at |-> 1, done |-> {}, failed |-> {}]
      /\ \A u \in Tick \ {t} : tick'[u] = tick[u]
  BY DEF Start, RunnerInv, TicksTyped
<1>3. tick' \in [Tick -> TickState]
  BY <1>1 DEF Start, RunnerInv, TicksTyped, TickState
<1>4. last' \in Last
  BY <1>1 DEF Start, Last
<1>5. TicksTyped'
  BY <1>1, <1>2, <1>3, <1>4 DEF Start, RunnerInv, TicksTyped
<1>6. QuietWhenIdle'
  BY <1>2 DEF QuietWhenIdle
<1>7. RowsAreWhole' /\ FailuresAreNamed'
  BY DEF Start, RunnerInv, RowsAreWhole, FailuresAreNamed
<1>8. StartIsKnown'
  BY DEF Start, StartIsKnown
<1> QED BY <1>5, <1>6, <1>7, <1>8 DEF RunnerInv

\* Between two stages a tick stays in flight.
LEMMA NextStageStep ==
  ASSUME RunnerInv, NEW t \in Tick, NextStage(t)
  PROVE  RunnerInv'
<1>1. Stages \in Nat \ {0} /\ tick[t].at \in 1 .. Stages - 1
  BY TickAssumption DEF NextStage
<1>2. PICK ok \in BOOLEAN : tick' = [tick EXCEPT ![t] = Result(t, ok)]
  BY DEF NextStage
<1>3. tick[t].at \in Stage /\ tick[t].at # Stages /\ tick[t].at + 1 \in 0 .. Stages
      /\ tick[t].at + 1 # 0 /\ tick[t].at + 1 - 1 = tick[t].at
  BY <1>1 DEF Stage
<1> DEFINE r == Result(t, ok)
<1>4. /\ r \in TickState /\ r.failed \subseteq r.done
      /\ r.done = 1 .. tick[t].at /\ r.at = tick[t].at + 1
  BY <1>3, ResultType DEF RunnerInv
<1> HIDE DEF r
<1>5. tick'[t] = r /\ (\A u \in Tick \ {t} : tick'[u] = tick[u]) /\ tick' \in [Tick -> TickState]
  BY <1>2, <1>4 DEF RunnerInv, TicksTyped, r
<1>6. last' \in Last
  BY <1>3 DEF NextStage, Last, RunnerInv, TicksTyped
<1>7. r.done = 1 .. r.at - 1
  <2>1. tick[t].at \in Nat
    BY <1>1
  <2>2. r.at - 1 = tick[t].at
    BY <2>1, <1>4
  <2> QED BY <2>2, <1>4
<1>8. TicksTyped'
  <2>1. ASSUME NEW u \in Tick
        PROVE  /\ tick'[u].failed \subseteq tick'[u].done
               /\ tick'[u].at # 0 => tick'[u].done = 1 .. tick'[u].at - 1
    <3>1. CASE u = t
      BY <3>1, <1>4, <1>5, <1>7
    <3>2. CASE u # t
      BY <3>2, <1>5 DEF RunnerInv, TicksTyped
    <3> QED BY <3>1, <3>2
  <2>2. row' \in Row \cup {None}
    BY DEF NextStage, RunnerInv, TicksTyped
  <2> QED BY <2>1, <2>2, <1>5, <1>6 DEF TicksTyped
<1>9. QuietWhenIdle'
  BY <1>3, <1>4, <1>5 DEF QuietWhenIdle
<1>10. RowsAreWhole' /\ FailuresAreNamed'
  BY DEF NextStage, RunnerInv, RowsAreWhole, FailuresAreNamed
<1>11. StartIsKnown'
  BY <1>3 DEF NextStage, StartIsKnown, RunnerInv
<1> QED BY <1>8, <1>9, <1>10, <1>11 DEF RunnerInv

\* What a tick leaves in _last_tick when it ends.
LEMMA EndedType ==
  ASSUME last \in Last, NEW t \in Tick, NEW failed \in SUBSET Stage
  PROVE  LET end == Ended(t, failed)
         IN /\ end \in Last /\ end.stages = t /\ end.running = FALSE /\ end.current = 0
            /\ end.started = last.started
            /\ failed # {} => end.error = failed
<1>1. 0 \in 0 .. Stages
  BY TickAssumption
<1>2. CASE failed # {}
  <2>1. Ended(t, failed) = [last EXCEPT !.running = FALSE, !.current = 0, !.finished = TRUE,
                                        !.stages = t, !.error = failed]
    BY <1>2 DEF Ended
  <2> QED BY <1>1, <1>2, <2>1 DEF Last
<1>3. CASE failed = {}
  <2>1. Ended(t, failed) = [last EXCEPT !.running = FALSE, !.current = 0, !.finished = TRUE,
                                        !.stages = t, !.error = last.error]
    BY <1>3 DEF Ended
  <2> QED BY <1>1, <1>3, <2>1 DEF Last
<1> QED BY <1>2, <1>3

\* The end of a tick puts its own stages into _last_tick before it records it.
LEMMA FinishStep ==
  ASSUME RunnerInv, NEW t \in Tick, Finish(t)
  PROVE  RunnerInv'
<1>1. Stages \in Nat \ {0} /\ tick[t].at = Stages /\ tick[t].at \in Stage
  BY TickAssumption DEF Finish, Stage
<1>2. PICK ok \in BOOLEAN :
        LET over == Result(t, ok)
            end  == Ended(t, over.failed)
            told == IF end.stages = t THEN over ELSE tick[end.stages]
        IN /\ tick' = [tick EXCEPT ![t] = over]
           /\ last' = end
           /\ \/ row' = [by |-> t, started |-> end.started, done |-> told.done,
                         failed |-> told.failed, error |-> end.error]
              \/ UNCHANGED row
  BY DEF Finish
<1> DEFINE over == Result(t, ok)
           end  == Ended(t, over.failed)
<1>3. over \in TickState /\ over.failed \subseteq over.done /\ over.done = Stage /\ over.at = 0
  BY <1>1, ResultType DEF RunnerInv, Stage
<1> HIDE DEF over
<1>4. /\ end \in Last /\ end.stages = t /\ end.running = FALSE /\ end.current = 0
      /\ end.started = last.started
      /\ over.failed # {} => end.error = over.failed
  <2>1. over.failed \in SUBSET Stage /\ last \in Last
    BY <1>3 DEF TickState, RunnerInv, TicksTyped
  <2> QED BY <2>1, EndedType
<1>5. /\ tick' = [tick EXCEPT ![t] = over] /\ last' = end
      /\ \/ row' = [by |-> t, started |-> last.started, done |-> over.done,
                    failed |-> over.failed, error |-> end.error]
         \/ UNCHANGED row
  BY <1>2, <1>4 DEF over
<1> HIDE DEF end
<1>6. tick'[t] = over /\ (\A u \in Tick \ {t} : tick'[u] = tick[u]) /\ tick' \in [Tick -> TickState]
  BY <1>3, <1>5 DEF RunnerInv, TicksTyped
<1>7. QuietWhenIdle'
  BY <1>4, <1>5 DEF QuietWhenIdle
<1>8. last.started \in Tick
  BY <1>1 DEF RunnerInv, StartIsKnown
<1>9. StartIsKnown'
  BY <1>4, <1>5, <1>8 DEF StartIsKnown
<1>10. /\ tick' \in [Tick -> TickState] /\ last' \in Last
       /\ \A u \in Tick : /\ tick'[u].failed \subseteq tick'[u].done
                          /\ tick'[u].at # 0 => tick'[u].done = 1 .. tick'[u].at - 1
  BY <1>3, <1>4, <1>5, <1>6 DEF RunnerInv, TicksTyped
<1>11. CASE row' = [by |-> t, started |-> last.started, done |-> over.done,
                    failed |-> over.failed, error |-> end.error]
  <2>1. row' \in Row
    BY <1>3, <1>4, <1>8, <1>11 DEF Row, TickState, Last
  <2>2. RowsAreWhole' /\ FailuresAreNamed'
    BY <1>3, <1>4, <1>11 DEF RowsAreWhole, FailuresAreNamed
  <2> QED BY <2>1, <2>2, <1>7, <1>9, <1>10 DEF RunnerInv, TicksTyped
<1>12. CASE UNCHANGED row
  <2>1. row' \in Row \cup {None} /\ RowsAreWhole' /\ FailuresAreNamed'
    BY <1>12 DEF RunnerInv, TicksTyped, RowsAreWhole, FailuresAreNamed
  <2> QED BY <2>1, <1>7, <1>9, <1>10 DEF RunnerInv, TicksTyped
<1> QED BY <1>5, <1>11, <1>12

\* A restart ends every tick and leaves the rows.
LEMMA RunnerRestartStep ==
  ASSUME RunnerInv, RunnerRestart
  PROVE  RunnerInv'
BY TickAssumption
   DEF RunnerRestart, RunnerInv, TicksTyped, TickState, Last, Fresh, RowsAreWhole, FailuresAreNamed,
       QuietWhenIdle, StartIsKnown

\* Every step keeps the invariant.
LEMMA NextRunner == RunnerInv /\ [RunnerNext]_runnerVars => RunnerInv'
<1> SUFFICES ASSUME RunnerInv, [RunnerNext]_runnerVars PROVE RunnerInv'
  OBVIOUS
<1>1. CASE UNCHANGED runnerVars
  BY <1>1 DEF runnerVars, RunnerInv, TicksTyped, RowsAreWhole, FailuresAreNamed, QuietWhenIdle, StartIsKnown
<1> QED BY <1>1, TickStartStep, NextStageStep, FinishStep, RunnerRestartStep DEF RunnerNext

\* The invariant holds of every behaviour, whatever ticks overlap.
THEOREM RunnerInvariantHolds == RunnerSpec => []RunnerInv
BY InitRunner, NextRunner, PTL DEF RunnerSpec

\* The dictionaries and the row keep their types, and stages run in order.
THEOREM TicksStayTyped == RunnerSpec => []TicksTyped
<1>1. RunnerInv => TicksTyped
  BY DEF RunnerInv
<1> QED BY <1>1, RunnerInvariantHolds, PTL

\* Every persisted tick tells the result of each of its stages, however many
\* ticks share _last_tick.
THEOREM RowsTellAllStages == RunnerSpec => []RowsAreWhole
<1>1. RunnerInv => RowsAreWhole
  BY DEF RunnerInv
<1> QED BY <1>1, RunnerInvariantHolds, PTL

\* No persisted tick hides a failed stage, although any other tick may have
\* reset the shared error meanwhile.
THEOREM FailuresAreTold == RunnerSpec => []FailuresAreNamed
<1>1. RunnerInv => FailuresAreNamed
  BY DEF RunnerInv
<1> QED BY <1>1, RunnerInvariantHolds, PTL

\* When the last tick in flight is over, the summary shows no running stage.
THEOREM IdleIsShown == RunnerSpec => []QuietWhenIdle
<1>1. RunnerInv => QuietWhenIdle
  BY DEF RunnerInv
<1> QED BY <1>1, RunnerInvariantHolds, PTL
-----------------------------------------------------------------------------
(* the poll *)

IInv == TypeOK /\ IdsPointAtOpenWindows

\* The slug a poll is at is one of the tracked ones.
LEMMA SlugAt ==
  ASSUME NEW i \in 1 .. Len(Slugs)
  PROVE  Slugs[i] \in Slug
BY SlugAssumption DEF Slug

\* An event that is below its bound may happen once more.
LEMMA CountOneMore ==
  ASSUME count \in [changes : 0 .. MaxChanges, restarts : 0 .. MaxRestarts,
                    failures : 0 .. MaxFailures]
  PROVE  /\ count.changes < MaxChanges =>
              [count EXCEPT !.changes = @ + 1] \in
                [changes : 0 .. MaxChanges, restarts : 0 .. MaxRestarts, failures : 0 .. MaxFailures]
         /\ count.restarts < MaxRestarts =>
              [count EXCEPT !.restarts = @ + 1] \in
                [changes : 0 .. MaxChanges, restarts : 0 .. MaxRestarts, failures : 0 .. MaxFailures]
         /\ count.failures < MaxFailures =>
              [count EXCEPT !.failures = @ + 1] \in
                [changes : 0 .. MaxChanges, restarts : 0 .. MaxRestarts, failures : 0 .. MaxFailures]
<1>1. MaxChanges \in Nat /\ MaxRestarts \in Nat /\ MaxFailures \in Nat
  BY SlugAssumption
<1>2. /\ count.changes \in 0 .. MaxChanges /\ count.restarts \in 0 .. MaxRestarts
      /\ count.failures \in 0 .. MaxFailures
  OBVIOUS
<1>3. /\ count.changes < MaxChanges => count.changes + 1 \in 0 .. MaxChanges
      /\ count.restarts < MaxRestarts => count.restarts + 1 \in 0 .. MaxRestarts
      /\ count.failures < MaxFailures => count.failures + 1 \in 0 .. MaxFailures
  BY <1>1, <1>2
<1> QED BY <1>2, <1>3

\* None is neither a state nor the id of a row.
LEMMA NoneIsNothing ==
  /\ \A state \in State : state # None /\ state # Error
  /\ \A n \in Nat : n # None
BY SlugAssumption

\* At the start nothing is cached, and the only row is the marker.
LEMMA InitIInv == Init => IInv
<1> SUFFICES ASSUME Init PROVE IInv
  OBVIOUS
<1> USE SlugAssumption
<1>1. rows \in Seq([slug : Slug, open : BOOLEAN]) /\ Len(rows) = 1
  BY DEF Init, Marker
<1>2. poll \in [Poll -> [at : 0 .. Len(Slugs), answer : State \cup {None, Error}]]
  <2>1. Len(Slugs) \in Nat
    OBVIOUS
  <2> QED BY <2>1 DEF Init, IdlePoll
<1>3. /\ addon \in [Slug -> State]
      /\ seen \in [Slug -> State \cup {None}]
      /\ open \in [Slug -> DOMAIN rows \cup {None}]
      /\ healthy \subseteq Slug
  BY DEF Init
<1>4. count \in [changes : 0 .. MaxChanges, restarts : 0 .. MaxRestarts,
                 failures : 0 .. MaxFailures]
  BY DEF Init
<1>5. born \in 0 .. Len(rows)
  BY <1>1 DEF Init
<1>6. IdsPointAtOpenWindows
  BY DEF Init, IdsPointAtOpenWindows
<1> QED BY <1>1, <1>2, <1>3, <1>4, <1>5, <1>6 DEF IInv, TypeOK

\* A poll goes on to the next add-on, or ends.
LEMMA AdvanceType ==
  ASSUME TypeOK, NEW p \in Poll, poll[p].at > 0, Advance(p)
  PROVE  poll' \in [Poll -> [at : 0 .. Len(Slugs), answer : State \cup {None, Error}]]
<1>1. Len(Slugs) \in Nat
  BY SlugAssumption
<1>2. poll[p].at \in 0 .. Len(Slugs)
  BY DEF TypeOK
<1>3. (IF poll[p].at = Len(Slugs) THEN 0 ELSE poll[p].at + 1) \in 0 .. Len(Slugs)
  BY <1>1, <1>2
<1> QED BY <1>3 DEF Advance, TypeOK

\* Handling an answer: the three cases of a transition.
LEMMA HandleStep ==
  ASSUME IInv, NEW p \in Poll, Handle(p)
  PROVE  IInv'
<1> DEFINE s == Slugs[poll[p].at]
           answer == poll[p].answer
<1> USE DEF IInv
<1>1. /\ poll[p].at > 0 /\ answer \in State /\ answer # None
      /\ seen' = [seen EXCEPT ![s] = answer]
      /\ healthy' = IF answer = Started THEN healthy \cup {s} ELSE healthy
      /\ Advance(p)
      /\ UNCHANGED <<addon, count, born>>
  BY NoneIsNothing DEF Handle
<1>2. s \in Slug
  <2>1. poll[p].at \in 0 .. Len(Slugs) /\ Len(Slugs) \in Nat
    BY SlugAssumption DEF TypeOK
  <2> QED BY <2>1, <1>1, SlugAt
<1>3. poll' \in [Poll -> [at : 0 .. Len(Slugs), answer : State \cup {None, Error}]]
  BY <1>1, AdvanceType
<1>4. /\ addon' \in [Slug -> State] /\ seen' \in [Slug -> State \cup {None}]
      /\ healthy' \subseteq Slug
      /\ count' \in [changes : 0 .. MaxChanges, restarts : 0 .. MaxRestarts,
                     failures : 0 .. MaxFailures]
  BY <1>1, <1>2 DEF TypeOK
<1>5. /\ seen'[s] = answer
      /\ \A t \in Slug \ {s} : seen'[t] = seen[t]
  BY <1>1, <1>2 DEF TypeOK
<1> HIDE DEF s, answer
<1>6. CASE /\ Opens(s, answer)
           /\ rows' = Append(rows, [slug |-> s, open |-> TRUE])
           /\ open' = [open EXCEPT ![s] = Len(rows')]
  <2>1. /\ rows' \in Seq([slug : Slug, open : BOOLEAN])
        /\ Len(rows') = Len(rows) + 1 /\ Len(rows) \in Nat
        /\ rows'[Len(rows')] = [slug |-> s, open |-> TRUE]
        /\ \A i \in 1 .. Len(rows) : rows'[i] = rows[i]
        /\ DOMAIN rows = 1 .. Len(rows) /\ DOMAIN rows' = 1 .. Len(rows')
    BY <1>6, <1>2 DEF TypeOK
  <2>2. /\ open'[s] = Len(rows')
        /\ \A t \in Slug \ {s} : open'[t] = open[t]
        /\ open' \in [Slug -> DOMAIN rows' \cup {None}]
    BY <1>6, <1>2, <2>1 DEF TypeOK
  <2>3. born' \in 0 .. Len(rows')
    BY <1>1, <2>1 DEF TypeOK
  <2>4. TypeOK'
    BY <1>3, <1>4, <2>1, <2>2, <2>3 DEF TypeOK
  <2>5. ASSUME NEW t \in Slug, open'[t] # None
        PROVE  rows'[open'[t]] = [slug |-> t, open |-> TRUE] /\ seen'[t] \notin {None, Started}
    <3>1. CASE t = s
      BY <3>1, <2>1, <2>2, <1>1, <1>5, <1>6 DEF Opens
    <3>2. CASE t # s
      <4>1. open'[t] = open[t] /\ seen'[t] = seen[t] /\ open[t] \in 1 .. Len(rows)
        BY <3>2, <2>1, <2>2, <2>5, <1>5 DEF TypeOK
      <4> QED BY <4>1, <2>1, <2>5 DEF IdsPointAtOpenWindows
    <3> QED BY <3>1, <3>2
  <2> QED BY <2>4, <2>5 DEF IdsPointAtOpenWindows
<1>7. CASE /\ Closes(s, answer)
           /\ rows' = [rows EXCEPT ![open[s]].open = FALSE]
           /\ open' = Forget(s)
  <2>1. /\ open[s] \in 1 .. Len(rows) /\ DOMAIN rows = 1 .. Len(rows) /\ Len(rows) \in Nat
        /\ rows[open[s]].slug = s
    <3>1. open[s] # None /\ open[s] \in DOMAIN rows \cup {None}
      BY <1>7, <1>2 DEF TypeOK, Closes
    <3>2. rows \in Seq([slug : Slug, open : BOOLEAN])
      BY DEF TypeOK
    <3>3. DOMAIN rows = 1 .. Len(rows) /\ Len(rows) \in Nat
      BY <3>2
    <3>4. rows[open[s]] = [slug |-> s, open |-> TRUE]
      BY <3>1, <1>2 DEF IdsPointAtOpenWindows
    <3> QED BY <3>1, <3>3, <3>4
  <2>2. /\ rows' \in Seq([slug : Slug, open : BOOLEAN])
        /\ Len(rows') = Len(rows) /\ DOMAIN rows' = DOMAIN rows
        /\ \A i \in 1 .. Len(rows) : i # open[s] => rows'[i] = rows[i]
    <3>1. rows \in Seq([slug : Slug, open : BOOLEAN])
      BY DEF TypeOK
    <3>2. rows' = [rows EXCEPT ![open[s]] = [rows[open[s]] EXCEPT !.open = FALSE]]
      BY <1>7
    <3>3. [rows[open[s]] EXCEPT !.open = FALSE] \in [slug : Slug, open : BOOLEAN]
      <4>1. rows[open[s]] \in [slug : Slug, open : BOOLEAN]
        BY <3>1, <2>1, ElementOfSeq
      <4> QED BY <4>1
    <3>4. rows' \in Seq([slug : Slug, open : BOOLEAN])
      BY <3>1, <3>2, <3>3, <2>1
    <3>5. \A i \in 1 .. Len(rows) : i # open[s] => rows'[i] = rows[i]
      BY <3>2, <2>1
    <3>6. DOMAIN rows' = DOMAIN rows
      BY <3>2
    <3>7. Len(rows') = Len(rows)
      BY <3>4, <3>6, <3>1
    <3> QED BY <3>4, <3>5, <3>6, <3>7
  <2>3. /\ open'[s] = None
        /\ \A t \in Slug \ {s} : open'[t] = open[t]
        /\ open' \in [Slug -> DOMAIN rows' \cup {None}]
    BY <1>7, <1>2, <2>2 DEF Forget, TypeOK
  <2>4. TypeOK'
    BY <1>1, <1>3, <1>4, <2>2, <2>3 DEF TypeOK
  <2>5. ASSUME NEW t \in Slug, open'[t] # None
        PROVE  rows'[open'[t]] = [slug |-> t, open |-> TRUE] /\ seen'[t] \notin {None, Started}
    <3>1. t # s /\ open'[t] = open[t] /\ seen'[t] = seen[t]
      BY <2>3, <2>5, <1>5
    <3>2. open[t] \in 1 .. Len(rows) /\ rows[open[t]] = [slug |-> t, open |-> TRUE]
          /\ seen[t] \notin {None, Started}
      BY <3>1, <2>1, <2>5 DEF TypeOK, IdsPointAtOpenWindows
    <3>3. open[t] # open[s]
      BY <3>1, <3>2, <2>1
    <3> QED BY <3>1, <3>2, <3>3, <2>2
  <2> QED BY <2>4, <2>5 DEF IdsPointAtOpenWindows
<1>8. CASE ~Opens(s, answer) /\ ~Closes(s, answer) /\ UNCHANGED <<rows, open>>
  <2>1. TypeOK'
    BY <1>1, <1>3, <1>4, <1>8 DEF TypeOK
  <2>2. ASSUME NEW t \in Slug, open'[t] # None
        PROVE  rows'[open'[t]] = [slug |-> t, open |-> TRUE] /\ seen'[t] \notin {None, Started}
    <3>1. open[t] # None /\ rows[open[t]] = [slug |-> t, open |-> TRUE]
          /\ seen[t] \notin {None, Started}
      BY <2>2, <1>8 DEF IdsPointAtOpenWindows
    <3>2. CASE t = s
      <4>1. answer # Started
        BY <3>1, <3>2, <1>8 DEF Closes
      <4> QED BY <4>1, <3>1, <3>2, <1>1, <1>5, <1>8
    <3>3. CASE t # s
      BY <3>1, <3>3, <1>5, <1>8
    <3> QED BY <3>2, <3>3
  <2> QED BY <2>1, <2>2 DEF IdsPointAtOpenWindows
<1> QED BY <1>6, <1>7, <1>8 DEF Handle, s, answer

\* A failed write leaves the rows, and the id of a window it was to close is
\* forgotten first.
LEMMA WriteFailsStep ==
  ASSUME IInv, NEW p \in Poll, WriteFails(p)
  PROVE  IInv'
<1> DEFINE s == Slugs[poll[p].at]
           answer == poll[p].answer
<1> USE DEF IInv
<1>1. /\ poll[p].at > 0 /\ answer \in State /\ answer # None
      /\ count.failures < MaxFailures
      /\ count' = [count EXCEPT !.failures = @ + 1]
      /\ Opens(s, answer) \/ Closes(s, answer)
      /\ seen' = [seen EXCEPT ![s] = answer]
      /\ healthy' = IF answer = Started THEN healthy \cup {s} ELSE healthy
      /\ open' = IF Closes(s, answer) THEN Forget(s) ELSE open
      /\ poll' = [poll EXCEPT ![p] = IdlePoll]
      /\ UNCHANGED <<addon, rows, born>>
  BY NoneIsNothing DEF WriteFails
<1>2. s \in Slug /\ Len(Slugs) \in Nat
  <2>1. poll[p].at \in 0 .. Len(Slugs) /\ Len(Slugs) \in Nat
    BY SlugAssumption DEF TypeOK
  <2> QED BY <2>1, <1>1, SlugAt
<1> HIDE DEF s, answer
<1>3. count' \in [changes : 0 .. MaxChanges, restarts : 0 .. MaxRestarts,
                  failures : 0 .. MaxFailures]
  BY <1>1, CountOneMore DEF TypeOK
<1>4. poll' \in [Poll -> [at : 0 .. Len(Slugs), answer : State \cup {None, Error}]]
  BY <1>1, <1>2 DEF TypeOK, IdlePoll
<1>5. /\ seen' \in [Slug -> State \cup {None}] /\ healthy' \subseteq Slug
      /\ open' \in [Slug -> DOMAIN rows' \cup {None}]
      /\ seen'[s] = answer /\ \A t \in Slug \ {s} : seen'[t] = seen[t] /\ open'[t] = open[t]
  BY <1>1, <1>2 DEF TypeOK, Forget
<1>6. TypeOK'
  BY <1>1, <1>3, <1>4, <1>5 DEF TypeOK
<1>7. ASSUME NEW t \in Slug, open'[t] # None
      PROVE  rows'[open'[t]] = [slug |-> t, open |-> TRUE] /\ seen'[t] \notin {None, Started}
  <2>1. CASE t # s
    BY <2>1, <1>1, <1>5, <1>7 DEF IdsPointAtOpenWindows
  <2>2. CASE t = s
    <3>1. ~Closes(s, answer)
      BY <2>2, <1>1, <1>2, <1>7 DEF Forget, TypeOK
    <3>2. seen[s] = Started /\ open[s] # None
      BY <2>2, <3>1, <1>1, <1>7 DEF Opens
    <3> QED BY <3>2, <1>2 DEF IdsPointAtOpenWindows
  <2> QED BY <2>1, <2>2
<1> QED BY <1>6, <1>7 DEF IdsPointAtOpenWindows

\* A restart appends a marker and forgets every id.
LEMMA RestartStep ==
  ASSUME IInv, Restart
  PROVE  IInv'
<1> USE DEF IInv
<1>1. /\ rows' \in Seq([slug : Slug, open : BOOLEAN])
      /\ Len(rows') = Len(rows) + 1 /\ Len(rows) \in Nat
  BY SlugAssumption DEF Restart, Marker, TypeOK
<1>2. count' \in [changes : 0 .. MaxChanges, restarts : 0 .. MaxRestarts,
                  failures : 0 .. MaxFailures]
  BY CountOneMore DEF Restart, TypeOK
<1>3. poll' \in [Poll -> [at : 0 .. Len(Slugs), answer : State \cup {None, Error}]]
  <2>1. Len(Slugs) \in Nat
    BY SlugAssumption
  <2> QED BY <2>1 DEF Restart, IdlePoll
<1>4. /\ seen' \in [Slug -> State \cup {None}] /\ open' \in [Slug -> DOMAIN rows' \cup {None}]
      /\ healthy' \subseteq Slug /\ addon' \in [Slug -> State] /\ born' \in 0 .. Len(rows')
  BY <1>1 DEF Restart, TypeOK
<1>5. TypeOK'
  BY <1>1, <1>2, <1>3, <1>4 DEF TypeOK
<1>6. IdsPointAtOpenWindows'
  BY DEF Restart, IdsPointAtOpenWindows
<1> QED BY <1>5, <1>6

\* The steps that leave rows and caches alone.
LEMMA OtherSteps ==
  ASSUME IInv, UNCHANGED <<rows, seen, open, healthy, born>>,
         addon' \in [Slug -> State],
         poll' \in [Poll -> [at : 0 .. Len(Slugs), answer : State \cup {None, Error}]],
         count' \in [changes : 0 .. MaxChanges, restarts : 0 .. MaxRestarts,
                     failures : 0 .. MaxFailures]
  PROVE  IInv'
BY DEF IInv, TypeOK, IdsPointAtOpenWindows

\* Every step keeps the invariant.
LEMMA NextIInv == IInv /\ [Next]_vars => IInv'
<1> SUFFICES ASSUME IInv, [Next]_vars PROVE IInv'
  OBVIOUS
<1>1. Len(Slugs) \in Nat /\ Len(Slugs) >= 1
  BY SlugAssumption
<1>2. ASSUME NEW p \in Poll, Begin(p) PROVE IInv'
  <2>1. poll' \in [Poll -> [at : 0 .. Len(Slugs), answer : State \cup {None, Error}]]
    <3>1. 1 \in 0 .. Len(Slugs)
      BY <1>1
    <3> QED BY <3>1, <1>2 DEF Begin, IInv, TypeOK
  <2> QED BY <2>1, <1>2, OtherSteps DEF Begin, IInv, TypeOK
<1>3. ASSUME NEW p \in Poll, Ask(p) PROVE IInv'
  <2>1. Slugs[poll[p].at] \in Slug
    <3>1. poll[p].at \in 1 .. Len(Slugs)
      BY <1>1, <1>3 DEF Ask, IInv, TypeOK
    <3> QED BY <3>1, SlugAt
  <2>2. poll' \in [Poll -> [at : 0 .. Len(Slugs), answer : State \cup {None, Error}]]
    <3>1. PICK answer \in {addon[Slugs[poll[p].at]], Error} :
            poll' = [poll EXCEPT ![p].answer = answer]
      BY <1>3 DEF Ask
    <3>2. answer \in State \cup {None, Error}
      BY <2>1, <3>1 DEF IInv, TypeOK
    <3> QED BY <3>1, <3>2 DEF IInv, TypeOK
  <2> QED BY <2>2, <1>3, OtherSteps DEF Ask, IInv, TypeOK
<1>4. ASSUME NEW p \in Poll, Skip(p) PROVE IInv'
  <2>1. CASE poll[p].at > 0
    BY <2>1, <1>4, AdvanceType, OtherSteps DEF Skip, IInv, TypeOK
  <2>2. CASE ~(poll[p].at > 0)
    <3>1. poll[p].at = 0
      BY <2>2, <1>1 DEF IInv, TypeOK
    <3>2. poll' \in [Poll -> [at : 0 .. Len(Slugs), answer : State \cup {None, Error}]]
      BY <3>1, <1>1, <1>4 DEF Skip, Advance, IInv, TypeOK
    <3> QED BY <3>2, <1>4, OtherSteps DEF Skip, IInv, TypeOK
  <2> QED BY <2>1, <2>2
<1>5. CASE AddonChanges
  <2>1. addon' \in [Slug -> State]
    BY <1>5 DEF AddonChanges, IInv, TypeOK
  <2>2. count' \in [changes : 0 .. MaxChanges, restarts : 0 .. MaxRestarts,
                    failures : 0 .. MaxFailures]
    BY <1>5, CountOneMore DEF AddonChanges, IInv, TypeOK
  <2> QED BY <2>1, <2>2, <1>5, OtherSteps DEF AddonChanges, IInv, TypeOK
<1>6. CASE UNCHANGED vars
  BY <1>6, OtherSteps DEF vars, IInv, TypeOK
<1> QED BY <1>2, <1>3, <1>4, <1>5, <1>6, HandleStep, WriteFailsStep, RestartStep DEF Next

\* The invariant holds of every behaviour, restarts and failed writes included.
THEOREM InvariantHolds == Spec => []IInv
BY InitIInv, NextIInv, PTL DEF Spec

\* The caches and the rows keep their types.
THEOREM TypesHold == Spec => []TypeOK
<1>1. IInv => TypeOK
  BY DEF IInv
<1> QED BY <1>1, InvariantHolds, PTL

\* The id a poll remembers is always that of an open window of the same add-on,
\* and that add-on was last seen down: a poll never closes another add-on's
\* window, or one twice, however polls, failures and restarts interleave.
THEOREM WindowsAreTheirOwn == Spec => []IdsPointAtOpenWindows
<1>1. IInv => IdsPointAtOpenWindows
  BY DEF IInv
<1> QED BY <1>1, InvariantHolds, PTL

-----------------------------------------------------------------------------
(* one window per outage *)

\* The open windows this process has recorded for an add-on.
WindowsOf(s) == {i \in born + 1 .. Len(rows) : rows[i] = [slug |-> s, open |-> TRUE]}

Told(s) ==
  /\ IF s \in healthy /\ seen[s] # Started
     THEN \E i \in WindowsOf(s) : WindowsOf(s) = {i} /\ open[s] = i
     ELSE WindowsOf(s) = {}
  /\ seen[s] = Started => s \in healthy

OutagesTold == count.failures = 0 => \A s \in Slug : Told(s)

LEMMA WindowIsAnId ==
  ASSUME TypeOK, NEW s \in Slug
  PROVE  \A i \in WindowsOf(s) : i # None /\ i \in DOMAIN rows /\ rows[i] = [slug |-> s, open |-> TRUE]
<1>1. born \in Nat /\ Len(rows) \in Nat /\ DOMAIN rows = 1 .. Len(rows)
  BY DEF TypeOK
<1> QED BY <1>1, NoneIsNothing DEF WindowsOf

\* Closing the row of an open window leaves it the row of its add-on.
LEMMA ClosedRow ==
  ASSUME NEW s, NEW r, r = [slug |-> s, open |-> TRUE]
  PROVE  [r EXCEPT !.open = FALSE] = [slug |-> s, open |-> FALSE]
<1>1. \A d, e \in [slug : {s}, open : BOOLEAN] :
        d.slug = e.slug /\ d.open = e.open => d = e
  OBVIOUS
<1>2. r \in [slug : {s}, open : BOOLEAN]
  OBVIOUS
<1> DEFINE closed == [r EXCEPT !.open = FALSE]
           told == [slug |-> s, open |-> FALSE]
<1>3. closed \in [slug : {s}, open : BOOLEAN] /\ closed.slug = s /\ closed.open = FALSE
  BY <1>2
<1>4. told \in [slug : {s}, open : BOOLEAN] /\ told.slug = s /\ told.open = FALSE
  OBVIOUS
<1>5. closed = told
  <2> HIDE DEF closed, told
  <2> QED BY <1>1, <1>3, <1>4
<1> QED BY <1>5

\* A poll that goes down adds the one window, one that comes back closes it.
LEMMA HandleTold ==
  ASSUME IInv, OutagesTold, NEW p \in Poll, Handle(p), count.failures = 0
  PROVE  \A t \in Slug : Told(t)'
<1>0. Slugs[poll[p].at] \in Slug
  <2>1. poll[p].at \in 0 .. Len(Slugs) /\ Len(Slugs) \in Nat /\ poll[p].at > 0
    BY SlugAssumption DEF IInv, TypeOK, Handle
  <2> QED BY <2>1, SlugAt
<1>2. PICK s \in Slug, answer \in State : s = Slugs[poll[p].at] /\ answer = poll[p].answer
  BY <1>0 DEF Handle
<1>1. /\ answer \in State /\ seen' = [seen EXCEPT ![s] = answer]
      /\ healthy' = IF answer = Started THEN healthy \cup {s} ELSE healthy
      /\ UNCHANGED <<count, born>>
  BY <1>2 DEF Handle
<1>3. seen'[s] = answer /\ \A t \in Slug \ {s} : seen'[t] = seen[t]
  BY <1>1, <1>2 DEF IInv, TypeOK
<1>4. born \in Nat /\ Len(rows) \in Nat /\ DOMAIN rows = 1 .. Len(rows) /\ born <= Len(rows)
  BY DEF IInv, TypeOK
<1>5. \A t \in Slug : Told(t)
  BY DEF OutagesTold
<1>6. CASE /\ Opens(s, answer)
           /\ rows' = Append(rows, [slug |-> s, open |-> TRUE])
           /\ open' = [open EXCEPT ![s] = Len(rows')]
  <2>1. /\ Len(rows') = Len(rows) + 1 /\ rows'[Len(rows) + 1] = [slug |-> s, open |-> TRUE]
        /\ \A i \in 1 .. Len(rows) : rows'[i] = rows[i]
    BY <1>6 DEF IInv, TypeOK
  <2>2. \A t \in Slug : WindowsOf(t)' = WindowsOf(t) \cup (IF t = s THEN {Len(rows) + 1} ELSE {})
    <3>1. \A t \in Slug, i \in born + 1 .. Len(rows) + 1 :
            rows'[i] = [slug |-> t, open |-> TRUE]
              <=> \/ i \in born + 1 .. Len(rows) /\ rows[i] = [slug |-> t, open |-> TRUE]
                  \/ i = Len(rows) + 1 /\ t = s
      <4> SUFFICES ASSUME NEW t \in Slug, NEW i \in born + 1 .. Len(rows) + 1
                   PROVE  rows'[i] = [slug |-> t, open |-> TRUE]
                            <=> \/ i \in born + 1 .. Len(rows) /\ rows[i] = [slug |-> t, open |-> TRUE]
                                \/ i = Len(rows) + 1 /\ t = s
        OBVIOUS
      <4>1. CASE i = Len(rows) + 1
        <5>1. ~(i \in born + 1 .. Len(rows)) /\ rows'[i] = [slug |-> s, open |-> TRUE]
          BY <1>4, <2>1, <4>1
        <5>2. [slug |-> s, open |-> TRUE] = [slug |-> t, open |-> TRUE] <=> t = s
          <6>1. [slug |-> s, open |-> TRUE].slug = s /\ [slug |-> t, open |-> TRUE].slug = t
            OBVIOUS
          <6> QED BY <6>1
        <5> QED BY <4>1, <5>1, <5>2
      <4>2. CASE i # Len(rows) + 1
        <5>1. i \in 1 .. Len(rows) /\ i \in born + 1 .. Len(rows)
          BY <1>4, <4>2
        <5>2. rows'[i] = rows[i]
          BY <2>1, <5>1
        <5> QED BY <4>2, <5>1, <5>2
      <4> QED BY <4>1, <4>2
    <3>2. Len(rows) + 1 \in born + 1 .. Len(rows) + 1
          /\ born + 1 .. Len(rows) \subseteq born + 1 .. Len(rows) + 1
      BY <1>4
    <3>3. born' = born
      BY <1>1
    <3> QED BY <2>1, <3>1, <3>2, <3>3 DEF WindowsOf
  <2>3. open'[s] = Len(rows) + 1 /\ \A t \in Slug \ {s} : open'[t] = open[t]
    BY <1>2, <1>6, <2>1 DEF IInv, TypeOK
  <2>4. seen[s] = Started /\ answer # Started /\ healthy' = healthy
    BY <1>1, <1>6 DEF Opens
  <2>5. ASSUME NEW t \in Slug
        PROVE  Told(t)'
    <3>1. CASE t = s
      <4>1. WindowsOf(s) = {} /\ s \in healthy
        BY <1>2, <1>5, <2>4 DEF Told
      <4>2. WindowsOf(s)' = {Len(rows) + 1}
        BY <1>2, <2>2, <4>1
      <4> QED BY <1>3, <2>3, <2>4, <3>1, <4>1, <4>2 DEF Told
    <3>2. CASE t # s
      <4>1. WindowsOf(t)' = WindowsOf(t)
        BY <2>2, <3>2
      <4> QED BY <1>3, <1>5, <2>3, <2>4, <3>2, <4>1 DEF Told
    <3> QED BY <3>1, <3>2
  <2> QED BY <2>5
<1>7. CASE /\ Closes(s, answer)
           /\ rows' = [rows EXCEPT ![open[s]].open = FALSE]
           /\ open' = Forget(s)
  <2>1. open[s] \in DOMAIN rows /\ rows[open[s]] = [slug |-> s, open |-> TRUE]
        /\ answer = Started /\ seen[s] # Started
    BY <1>2, <1>7 DEF Closes, IInv, TypeOK, IdsPointAtOpenWindows
  <2>2. /\ Len(rows') = Len(rows) /\ rows'[open[s]] = [slug |-> s, open |-> FALSE]
        /\ \A i \in 1 .. Len(rows) : i # open[s] => rows'[i] = rows[i]
    <3>1. rows \in Seq([slug : Slug, open : BOOLEAN]) /\ open[s] \in 1 .. Len(rows)
      BY <1>4, <2>1 DEF IInv, TypeOK
    <3> DEFINE closed == [rows[open[s]] EXCEPT !.open = FALSE]
    <3>2. closed = [slug |-> s, open |-> FALSE] /\ closed \in [slug : Slug, open : BOOLEAN]
      <4>1. rows[open[s]] = [slug |-> s, open |-> TRUE]
        BY <2>1
      <4>3. [slug |-> s, open |-> FALSE] \in [slug : Slug, open : BOOLEAN]
        BY <1>2
      <4>4. closed = [slug |-> s, open |-> FALSE]
        BY <4>1, ClosedRow
      <4> QED BY <4>3, <4>4
    <3>3. rows' = [rows EXCEPT ![open[s]] = closed]
      BY <1>7
    <3> HIDE DEF closed
    <3>4. /\ Len(rows') = Len(rows)
          /\ \A i \in 1 .. Len(rows) : rows'[i] = IF i = open[s] THEN closed ELSE rows[i]
      <4>1. \A i \in 1 .. Len(rows), e \in [slug : Slug, open : BOOLEAN] :
              /\ Len([rows EXCEPT ![i] = e]) = Len(rows)
              /\ \A k \in 1 .. Len(rows) : [rows EXCEPT ![i] = e][k] = IF k = i THEN e ELSE rows[k]
        BY <3>1, ExceptSeq
      <4> QED BY <3>1, <3>2, <3>3, <4>1
    <3> QED BY <3>1, <3>2, <3>4
  <2>3. \A t \in Slug : WindowsOf(t)' = WindowsOf(t) \ {open[s]}
    <3>1. \A t \in Slug, i \in born + 1 .. Len(rows) :
            rows'[i] = [slug |-> t, open |-> TRUE]
              <=> rows[i] = [slug |-> t, open |-> TRUE] /\ i # open[s]
      BY <1>4, <2>2
    <3> QED BY <1>1, <2>2, <3>1 DEF WindowsOf
  <2>4. \A t \in Slug \ {s} : open'[t] = open[t] /\ WindowsOf(t)' = WindowsOf(t)
    <3>1. \A t \in Slug \ {s} : open[s] \notin WindowsOf(t)
      BY <2>1 DEF WindowsOf
    <3>2. \A t \in Slug \ {s} : open'[t] = open[t]
      BY <1>2, <1>7 DEF Forget, IInv, TypeOK
    <3>3. \A t \in Slug \ {s} : WindowsOf(t)' = WindowsOf(t)
      BY <2>3, <3>1
    <3> QED BY <3>2, <3>3
  <2>5. WindowsOf(s)' = {}
    <3>1. WindowsOf(s) \subseteq {open[s]}
      BY <1>2, <1>5 DEF Told
    <3> QED BY <1>2, <2>3, <3>1
  <2>6. ASSUME NEW t \in Slug
        PROVE  Told(t)'
    <3>1. CASE t = s
      BY <1>1, <1>3, <2>1, <2>5, <3>1 DEF Told
    <3>2. CASE t # s
      BY <1>1, <1>3, <1>5, <2>4, <3>2 DEF Told
    <3> QED BY <3>1, <3>2
  <2> QED BY <2>6
<1>8. CASE ~Opens(s, answer) /\ ~Closes(s, answer) /\ UNCHANGED <<rows, open>>
  <2>1. \A t \in Slug : WindowsOf(t)' = WindowsOf(t)
    BY <1>1, <1>8 DEF WindowsOf
  <2>2. ASSUME NEW t \in Slug
        PROVE  Told(t)'
    <3>1. CASE t = s
      <4>1. CASE answer = Started
        <5>1. WindowsOf(s) = {}
          <6>1. CASE s \in healthy /\ seen[s] # Started
            <7>1. open[s] # None /\ seen[s] # None
              BY <1>2, <1>5, <6>1, WindowIsAnId
                 DEF Told, IInv, IdsPointAtOpenWindows
            <7> QED BY <1>8, <4>1, <6>1, <7>1 DEF Closes
          <6> QED BY <1>2, <1>5, <6>1 DEF Told
        <5> QED BY <1>1, <1>3, <2>1, <3>1, <4>1, <5>1 DEF Told
      <4>2. CASE answer # Started
        <5>1. seen[s] # Started
          BY <1>8, <4>2 DEF Opens
        <5> QED BY <1>1, <1>2, <1>3, <1>5, <1>8, <2>1, <3>1, <4>2, <5>1 DEF Told
      <4> QED BY <4>1, <4>2
    <3>2. CASE t # s
      BY <1>1, <1>3, <1>5, <1>8, <2>1, <3>2 DEF Told
    <3> QED BY <3>1, <3>2
  <2> QED BY <2>2
<1> QED BY <1>2, <1>6, <1>7, <1>8 DEF Handle

\* A process that starts has recorded nothing.
LEMMA RestartTold ==
  ASSUME IInv, Restart
  PROVE  \A t \in Slug : Told(t)'
<1>1. Len(rows) \in Nat /\ Len(rows') = Len(rows) + 1 /\ rows'[Len(rows) + 1] = Marker
  BY DEF Restart, IInv, TypeOK, Marker
<1>2. born' = Len(rows) /\ healthy' = {} /\ \A t \in Slug : seen'[t] = None
  BY DEF Restart
<1>3. \A t \in Slug : WindowsOf(t)' = {}
  BY <1>1, <1>2 DEF WindowsOf, Marker
<1> QED BY <1>2, <1>3, NoneIsNothing, SlugAssumption DEF Told

LEMMA NextTold == IInv /\ OutagesTold /\ [Next]_vars => OutagesTold'
<1> SUFFICES ASSUME IInv, OutagesTold, [Next]_vars, count'.failures = 0
             PROVE  \A s \in Slug : Told(s)'
  BY DEF OutagesTold
<1>1. count.failures \in Nat
  BY DEF IInv, TypeOK
<1>2. CASE UNCHANGED <<rows, seen, open, healthy, born>> /\ count'.failures = count.failures
  BY <1>2 DEF OutagesTold, Told, WindowsOf
<1>3. ASSUME NEW p \in Poll, Handle(p)
      PROVE  \A s \in Slug : Told(s)'
  BY <1>3, HandleTold DEF Handle
<1>4. ASSUME NEW p \in Poll, WriteFails(p)
      PROVE  FALSE
  BY <1>1, <1>4 DEF WriteFails, IInv, TypeOK
<1>5. ASSUME NEW p \in Poll, Begin(p) \/ Ask(p) \/ Skip(p)
      PROVE  \A s \in Slug : Told(s)'
  BY <1>2, <1>5 DEF Begin, Ask, Skip
<1>6. CASE AddonChanges \/ UNCHANGED vars
  BY <1>2, <1>6 DEF AddonChanges, vars, IInv, TypeOK
<1> QED BY <1>3, <1>4, <1>5, <1>6, RestartTold DEF Next

\* However polls overlap, an add-on that went down while the process watched it
\* has exactly one open window, and every other add-on none (no write failing):
\* an outage is never recorded twice.
THEOREM OutagesAreRecordedOnce == Spec => []OneWindowPerOutage
<1>1. Init => OutagesTold
  <2> SUFFICES ASSUME Init, NEW s \in Slug PROVE Told(s)
    BY DEF OutagesTold
  <2>1. WindowsOf(s) = {}
    BY DEF Init, WindowsOf, Marker
  <2> QED BY <2>1, NoneIsNothing, SlugAssumption DEF Init, Told
<1>2. OutagesTold => OneWindowPerOutage
  BY DEF OutagesTold, Told, WindowsOf, OneWindowPerOutage
<1> QED BY <1>1, <1>2, NextTold, InvariantHolds, PTL DEF Spec
=============================================================================
