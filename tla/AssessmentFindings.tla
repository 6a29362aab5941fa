-------------------------- MODULE AssessmentFindings --------------------------
(***************************************************************************)
(* The findings of the background assessments and what users say of them:  *)
(* services/assessment/engine.py (run_once), services/assessment/          *)
(* feedback.py (mark_outcome), and their tables in                         *)
(* storage/sqlite_store.py.                                                *)
(*                                                                         *)
(* Every method of the store is one transaction, so one action; an engine  *)
(* or a feedback call is several of them, and request threads run them at  *)
(* the same time.                                                          *)
(*                                                                         *)
(* No agent is wired to the engine yet, so in the shipped program every    *)
(* verdict is `ok`; the module models the engine with an agent, as the     *)
(* tests run it. The append-only assessment_runs history, which no         *)
(* decision reads, and the columns cleared_by and cleared_at are left out. *)
(***************************************************************************)
EXTENDS Naturals, FiniteSetsExt, Absent

CONSTANTS
  Caller,        \* threads
  Key,           \* finding keys
  ParseFailure,  \* the key of the verdict that stands in for an agent that fails
  Id,            \* bound: ids of findings (uuids)
  MaxSeen        \* bound: reports of a key

ASSUME FindingAssumption ==
  /\ ParseFailure \in Key
  /\ None \notin Id \cup Key
  /\ MaxSeen \in Nat

State   == {"open", "cleared", "dismissed"}
Verdict == {"watch", "investigate"}

\* What users say: resolved or wrong settles the finding, ignored
\* (ignored_dismissed, ignored_expired) does not.
Outcome == {"settled", "ignored"}

\* What an agent says: a verdict on the key that node and finding type make
\* (backed: with two pieces of evidence), or nothing that parses.
Reply == [verdict : Verdict \cup {"ok"}, key : Key, backed : BOOLEAN]

\* muted: suppress_until is in the future.
Finding == [key : Key, state : State, verdict : Verdict, muted : BOOLEAN, seen : 1 .. MaxSeen]

VARIABLES
  findings,   \* assessment_findings
  feedback,   \* assessment_feedback
  call,       \* where each caller stands
  reported    \* history: how often a concern with the key was recorded

vars == <<findings, feedback, call, reported>>

ASSUME NoFindingAssumption == None \notin Finding

IdleCall  == [pc |-> "idle", key |-> None, id |-> None, verdict |-> "watch", outcome |-> "ignored",
              attempts |-> 0]
CallState == [pc : {"idle", "ask", "upsert", "clear", "record"},
              key : Key \cup {None}, id : Id \cup {None}, verdict : Verdict, outcome : Outcome,
              attempts : 0 .. 1]

Init ==
  /\ findings = [i \in Id |-> None]
  /\ feedback = [i \in Id |-> None]
  /\ call = [c \in Caller |-> IdleCall]
  /\ reported = [k \in Key |-> 0]

Known     == {i \in Id : findings[i] # None}
Of(k)     == {i \in Known : findings[i].key = k}
OpenOf(k) == {i \in Of(k) : findings[i].state = "open"}
-----------------------------------------------------------------------------
(* transactions of the store *)

\* clear_assessment_findings_by_key
Cleared(k) ==
  [i \in Id |-> IF i \in OpenOf(k) THEN [findings[i] EXCEPT !.state = "cleared"]
                                   ELSE findings[i]]

\* is_finding_key_suppressed
Suppressed(k) == \E i \in Of(k) : findings[i].state = "dismissed" /\ findings[i].muted

\* Broken: a repeated report starts the count of its row again.
BumpedAnew(i) == [findings EXCEPT ![i].seen = 1]

\* The count goes up; the verdict stays the one of the first report.
Bumped(i) == [findings EXCEPT ![i].seen = @ + 1]

NewFinding(k, v) == [key |-> k, state |-> "open", verdict |-> v, muted |-> FALSE, seen |-> 1]

Inserted(i, k, v) == [findings EXCEPT ![i] = NewFinding(k, v)]

\* Broken: the row to bump is looked for among the dismissed ones.
RepeatedDismissed(k) == {i \in Of(k) : findings[i].state = "dismissed"}

\* The row a report repeats.
Repeated(k) == OpenOf(k)

\* upsert_assessment_finding
Upserted(k, v) ==
  IF Repeated(k) # {} THEN {Bumped(i) : i \in Repeated(k)}
                      ELSE {Inserted(i, k, v) : i \in Id \ Known}
-----------------------------------------------------------------------------
(* run_once *)

Step(c, pc) == call' = [call EXCEPT ![c].pc = pc]
Return(c)   == call' = [call EXCEPT ![c] = IdleCall]

\* The context is collected and the agent is asked.
Ask(c) ==
  /\ call[c].pc = "idle"
  /\ Step(c, "ask")
  /\ UNCHANGED <<findings, feedback, reported>>

\* parse_envelope: the guard on verdicts that call for action.
Parses(r) == r.verdict = "investigate" => r.backed

\* _persist, up to its first transaction, which is one step with the reply: the
\* caller touches nothing shared in between. A clean verdict clears the findings
\* with its own key.
Settle(c, k) ==
  /\ findings' = Cleared(k)
  /\ Return(c)

\* A concern is dropped when its key is suppressed.
Weigh(c, k, v) ==
  /\ IF Suppressed(k) THEN Return(c)
     ELSE call' = [call EXCEPT ![c] = [IdleCall EXCEPT !.pc = "upsert", !.key = k, !.verdict = v]]
  /\ UNCHANGED findings

\* A reply that parses.
Heard(c) ==
  /\ call[c].pc = "ask"
  /\ \E r \in Reply :
       /\ Parses(r)
       /\ \/ r.verdict = "ok" /\ Settle(c, r.key)
          \/ r.verdict # "ok" /\ Weigh(c, r.key, r.verdict)
  /\ UNCHANGED <<feedback, reported>>

\* The agent fails, or says nothing that parses: it is asked once more, and
\* then taken for one that found nothing.
Unheard(c) ==
  /\ call[c].pc = "ask"
  /\ \/ /\ call[c].attempts = 0
        /\ call' = [call EXCEPT ![c].attempts = 1]
        /\ UNCHANGED findings
     \/ /\ call[c].attempts = 1
        /\ Settle(c, ParseFailure)
  /\ UNCHANGED <<feedback, reported>>

Upsert(c) ==
  LET k == call[c].key
  IN /\ call[c].pc = "upsert"
     /\ reported[k] < MaxSeen
     /\ findings' \in Upserted(k, call[c].verdict)
     /\ reported' = [reported EXCEPT ![k] = @ + 1]
     /\ Return(c)
     /\ UNCHANGED feedback
-----------------------------------------------------------------------------
(* users *)

\* dismiss_assessment_finding, whatever state the row is in; the window the
\* caller gives may be over at once.
Dismiss(c) ==
  /\ call[c].pc = "idle"
  /\ \E i \in Known, muted \in BOOLEAN :
       findings' = [findings EXCEPT ![i].state = "dismissed", ![i].muted = muted]
  /\ UNCHANGED <<feedback, call, reported>>

\* mark_outcome: find the row, clear by its key, record the outcome.
MarkOutcome(c) ==
  /\ call[c].pc = "idle"
  /\ \E i \in Known, outcome \in Outcome :
       call' = [call EXCEPT ![c] =
                  [IdleCall EXCEPT !.pc = IF outcome = "settled" THEN "clear" ELSE "record",
                                   !.key = findings[i].key, !.id = i, !.outcome = outcome]]
  /\ UNCHANGED <<findings, feedback, reported>>

Clear(c) ==
  /\ call[c].pc = "clear"
  /\ findings' = Cleared(call[c].key)
  /\ Step(c, "record")
  /\ UNCHANGED <<feedback, reported>>

Record(c) ==
  /\ call[c].pc = "record"
  /\ feedback' = [feedback EXCEPT ![call[c].id] = call[c].outcome]
  /\ Return(c)
  /\ UNCHANGED <<findings, reported>>

\* A suppress_until passes.
WindowEnds ==
  /\ \E i \in Known : findings[i].muted /\ findings' = [findings EXCEPT ![i].muted = FALSE]
  /\ UNCHANGED <<feedback, call, reported>>

\* A service restarts: its calls are gone, the tables stay.
Restart(c) == Return(c) /\ UNCHANGED <<findings, feedback, reported>>

Assess(c) == Ask(c) \/ Heard(c) \/ Unheard(c) \/ Upsert(c)

Next ==
  \/ \E c \in Caller : \/ Assess(c) \/ Restart(c)
                       \/ Dismiss(c) \/ MarkOutcome(c) \/ Clear(c) \/ Record(c)
  \/ WindowEnds

Spec == Init /\ [][Next]_vars
-----------------------------------------------------------------------------
(* properties *)

\* The columns hold what the schema allows.
TypeOK ==
  /\ findings \in [Id -> Finding \cup {None}]
  /\ feedback \in [Id -> Outcome \cup {None}]
  /\ call \in [Caller -> CallState]
  /\ reported \in [Key -> 0 .. MaxSeen]

\* The key is the dedup handle: no two open findings share it, however engine
\* runs, dismissals and feedback interleave.
OneOpenPerKey == \A k \in Key : \A i, j \in OpenOf(k) : i = j

\* Every recorded concern is counted by one row of its key: none is lost or
\* counted twice when runs report the same concern at the same time.
ReportsAreCounted ==
  \A k \in Key : SumFunctionOnSet([i \in Known |-> findings[i].seen], Of(k)) = reported[k]

\* The open rows of a key as the cards a reader sees.
CardOf(i) == [id |-> i, verdict |-> findings[i].verdict, seen |-> findings[i].seen]
Board     == [k \in Key |-> {CardOf(i) : i \in OpenOf(k)}]

Ledger == INSTANCE FindingLedger WITH board <- Board, used <- Known

\* The tables keep the promise of FindingLedger: however calls interleave, a
\* reader sees one card per key, which is put up once, counted up report by
\* report under its first verdict, taken down as a whole, and never comes
\* back under the same id.
LedgerKept == Ledger!Spec
=============================================================================
