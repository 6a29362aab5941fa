----------------------------- MODULE ServiceProofs -----------------------------
(***************************************************************************)
(* Proofs about what request threads and chat turns share: the findings of *)
(* AssessmentFindings, for every number of callers, keys and ids, and the  *)
(* sessions of ChatService, for every number of clients and conversations. *)
(*                                                                         *)
(* Findings: types, one open finding per key, that every report is counted *)
(* by one row, and that the tables implement FindingLedger.  The count of  *)
(* a row stays below the reports of its key, which is what bounds it       *)
(* (SeenIsReported); one open row per key is what makes every step on the  *)
(* table a step on one card, or on none.                                   *)
(***************************************************************************)
EXTENDS AssessmentFindings, ChatService, CollectionLemmas, TLAPS

SeenIsReported == \A i \in Known : findings[i].seen <= reported[findings[i].key]

IInv == TypeOK /\ SeenIsReported /\ OneOpenPerKey

LEMMA RowType ==
  ASSUME TypeOK
  PROVE  /\ Known \subseteq Id
         /\ \A i \in Known : findings[i] \in Finding
         /\ \A i \in Id \ Known : findings[i] = None
BY DEF TypeOK, Known

\* A row whose state, or whose window, changes stays a row.
LEMMA ChangedRow ==
  ASSUME NEW f \in Finding
  PROVE  /\ \A st \in State : LET g == [f EXCEPT !.state = st]
                              IN /\ g \in Finding /\ g.state = st /\ g.key = f.key
                                 /\ g.verdict = f.verdict /\ g.seen = f.seen
         /\ \A m \in BOOLEAN : LET g == [f EXCEPT !.muted = m]
                               IN /\ g \in Finding /\ g.state = f.state /\ g.key = f.key
                                  /\ g.verdict = f.verdict /\ g.seen = f.seen
BY DEF Finding

LEMMA IdleType == IdleCall \in CallState
BY DEF IdleCall, CallState, Outcome, Verdict

\* Where a caller stands does not show in the tables.
LEMMA CallerStep ==
  ASSUME IInv, call' \in [Caller -> CallState], UNCHANGED <<findings, feedback, reported>>
  PROVE  IInv' /\ UNCHANGED <<Board, Known>>
BY DEF IInv, TypeOK, SeenIsReported, OneOpenPerKey, Known, OpenOf, Of, Board, CardOf

LEMMA ReturnType ==
  ASSUME TypeOK, NEW c \in Caller, Return(c)
  PROVE  call' \in [Caller -> CallState]
BY IdleType DEF TypeOK, Return

\* What a step of the tables may do to the rows: rows keep key, verdict and
\* count, no row appears or goes, and none that was not open is open.
Closing(f) ==
  /\ f \in [Id -> Finding \cup {None}]
  /\ \A i \in Id : f[i] = None <=> findings[i] = None
  /\ \A i \in Known : /\ f[i].key = findings[i].key
                      /\ f[i].verdict = findings[i].verdict
                      /\ f[i].seen = findings[i].seen
                      /\ f[i].state = "open" => findings[i].state = "open"

LEMMA ClosingStep ==
  ASSUME IInv, Closing(findings'), UNCHANGED reported,
         call' \in [Caller -> CallState], feedback' \in [Id -> Outcome \cup {None}]
  PROVE  /\ IInv'
         /\ Known' = Known
         /\ \A k \in Key : OpenOf(k)' \subseteq OpenOf(k)
         /\ \A i \in Known : CardOf(i)' = CardOf(i)
<1>1. Known' = Known
  BY DEF Closing, Known
<1>2. \A i \in Known : CardOf(i)' = CardOf(i)
  BY DEF Closing, CardOf
<1>3. \A k \in Key : OpenOf(k)' \subseteq OpenOf(k)
  BY <1>1 DEF Closing, OpenOf, Of
<1>4. TypeOK'
  BY DEF IInv, TypeOK, Closing
<1>5. SeenIsReported'
  BY <1>1 DEF IInv, SeenIsReported, Closing
<1>6. OneOpenPerKey'
  BY <1>3 DEF IInv, OneOpenPerKey
<1> QED BY <1>1, <1>2, <1>3, <1>4, <1>5, <1>6 DEF IInv

\* Clearing a key empties it, and leaves the other keys alone.
LEMMA ClearedRows ==
  ASSUME IInv, NEW k \in Key, findings' = Cleared(k)
  PROVE  /\ Closing(findings')
         /\ OpenOf(k)' = {}
         /\ \A l \in Key \ {k} : OpenOf(l)' = OpenOf(l)
<1>1. /\ Known \subseteq Id
      /\ \A i \in Known : findings[i] \in Finding
      /\ \A i \in Id \ Known : findings[i] = None
  BY RowType DEF IInv
<1>2. \A i \in OpenOf(k) : i \in Known /\ findings'[i] = [findings[i] EXCEPT !.state = "cleared"]
  BY <1>1 DEF Cleared, OpenOf, Of
<1>3. \A i \in Id \ OpenOf(k) : findings'[i] = findings[i]
  BY DEF Cleared
<1>4. ASSUME NEW i \in OpenOf(k)
      PROVE  /\ findings'[i] \in Finding
             /\ findings'[i].state = "cleared"
             /\ findings'[i].key = findings[i].key
             /\ findings'[i].verdict = findings[i].verdict
             /\ findings'[i].seen = findings[i].seen
  <2>1. findings[i] \in Finding /\ "cleared" \in State
    BY <1>1, <1>2 DEF State
  <2>2. findings'[i] = [findings[i] EXCEPT !.state = "cleared"]
    BY <1>2
  <2> QED BY <2>1, <2>2, ChangedRow
<1>5. ASSUME NEW i \in OpenOf(k)
      PROVE  findings'[i] # None /\ findings[i] # None
  <2>1. findings'[i] \in Finding /\ findings[i] \in Finding
    BY <1>1, <1>2, <1>4
  <2> QED BY <2>1, NoFindingAssumption
<1>6. \A i \in Id : findings'[i] \in Finding \cup {None}
  BY <1>1, <1>3, <1>4
<1>7. findings' \in [Id -> Finding \cup {None}]
  BY <1>6 DEF Cleared
<1>8. Closing(findings')
  BY <1>1, <1>3, <1>4, <1>5, <1>7 DEF Closing
<1>9. Known' = Known
  BY <1>8 DEF Closing, Known
<1>10. OpenOf(k)' = {}
  BY <1>1, <1>3, <1>4, <1>9 DEF OpenOf, Of
<1>11. ASSUME NEW l \in Key \ {k}
       PROVE  OpenOf(l)' = OpenOf(l)
  BY <1>1, <1>3, <1>4, <1>9 DEF OpenOf, Of
<1> QED BY <1>8, <1>10, <1>11

-----------------------------------------------------------------------------
(* the board *)

\* Most steps do not show in what is counted; a report is one more for its key
\* and for one row of it, which was open or is new.
CountsKept ==
  /\ Known' = Known /\ reported' = reported
  /\ \A i \in Known : findings'[i].key = findings[i].key /\ findings'[i].seen = findings[i].seen

CountedUp(k, i) ==
  /\ reported' = [reported EXCEPT ![k] = @ + 1]
  /\ findings'[i].key = k
  /\ \/ i \in Of(k) /\ Known' = Known /\ findings'[i].seen = findings[i].seen + 1
     \/ i \notin Known /\ Known' = Known \cup {i} /\ findings'[i].seen = 1
  /\ \A j \in Known \ {i} : findings'[j] = findings[j]

CountMove == CountsKept \/ \E k \in Key, i \in Id : CountedUp(k, i)

\* A step of the ledger, or none.
LedgerMove == Ledger!Next \/ UNCHANGED <<Board, Known>>

\* Closing the rows of one key takes its card down, or does not show.
LEMMA ClosingMove ==
  ASSUME IInv, Closing(findings'), Known' = Known, NEW k \in Key,
         OpenOf(k)' = {} \/ OpenOf(k)' = OpenOf(k),
         \A l \in Key \ {k} : OpenOf(l)' = OpenOf(l),
         \A i \in Known : CardOf(i)' = CardOf(i)
  PROVE  LedgerMove
<1>1. \A l \in Key : OpenOf(l) \subseteq Known
  BY DEF OpenOf, Of
<1>2. \A l \in Key \ {k} : Board'[l] = Board[l]
  BY <1>1 DEF Board
<1>3. CASE OpenOf(k)' = OpenOf(k)
  <2>1. \A l \in Key : Board'[l] = Board[l]
    BY <1>1, <1>2, <1>3 DEF Board
  <2>2. Board' = Board
    BY <2>1 DEF Board
  <2> QED BY <2>2 DEF LedgerMove
<1>4. CASE OpenOf(k)' = {} /\ OpenOf(k) # {}
  <2>1. Board[k] # {} /\ Board'[k] = {}
    BY <1>4 DEF Board
  <2>2. Board' = [Board EXCEPT ![k] = {}]
    BY <1>2, <2>1 DEF Board
  <2>3. Ledger!TakeDown(k)
    BY <2>1, <2>2 DEF Ledger!TakeDown
  <2> QED BY <2>3 DEF LedgerMove, Ledger!Next
<1> QED BY <1>3, <1>4

\* Clearing a key, by a verdict or by a user.
LEMMA ClearedMove ==
  ASSUME IInv, NEW k \in Key, findings' = Cleared(k), UNCHANGED reported,
         call' \in [Caller -> CallState], feedback' \in [Id -> Outcome \cup {None}]
  PROVE  IInv' /\ LedgerMove /\ CountMove
<1>1. Closing(findings') /\ OpenOf(k)' = {} /\ \A l \in Key \ {k} : OpenOf(l)' = OpenOf(l)
  BY ClearedRows
<1>2. IInv' /\ Known' = Known /\ \A i \in Known : CardOf(i)' = CardOf(i)
  BY <1>1, ClosingStep
<1> QED BY <1>1, <1>2, ClosingMove DEF CountMove, CountsKept, Closing

\* One row is dismissed, or changes in what a card does not show.
LEMMA RowMove ==
  ASSUME IInv, NEW i \in Known, NEW g \in Finding, findings' = [findings EXCEPT ![i] = g],
         g.key = findings[i].key, g.verdict = findings[i].verdict, g.seen = findings[i].seen,
         g.state = "dismissed" \/ g.state = findings[i].state,
         UNCHANGED <<feedback, call, reported>>
  PROVE  IInv' /\ LedgerMove /\ CountMove
<1>1. /\ i \in Id /\ findings[i] \in Finding /\ findings[i].key \in Key
      /\ \A j \in Known : findings[j] # None
  <2>1. findings[i] \in Finding /\ i \in Id
    BY RowType DEF IInv
  <2> QED BY <2>1 DEF Finding, Known
<1>2. findings \in [Id -> Finding \cup {None}]
  BY DEF IInv, TypeOK
<1>3. findings'[i] = g /\ \A j \in Id \ {i} : findings'[j] = findings[j]
  BY <1>1, <1>2
<1>4. g # None
  BY NoFindingAssumption
<1>5. Closing(findings')
  <2>1. findings' \in [Id -> Finding \cup {None}]
    BY <1>2
  <2>2. \A j \in Id : findings'[j] = None <=> findings[j] = None
    BY <1>1, <1>3, <1>4
  <2>3. \A j \in Known : j \in Id
    BY DEF Known
  <2> QED BY <1>3, <2>1, <2>2, <2>3 DEF Closing
<1>6. /\ IInv' /\ Known' = Known /\ \A j \in Known : CardOf(j)' = CardOf(j)
      /\ \A k \in Key : OpenOf(k)' \subseteq OpenOf(k)
  BY <1>5, ClosingStep DEF IInv, TypeOK
<1> DEFINE k == findings[i].key
<1>7. \A l \in Key \ {k} : OpenOf(l)' = OpenOf(l)
  BY <1>1, <1>3, <1>6 DEF OpenOf, Of, Known
<1>8. OpenOf(k)' = {} \/ OpenOf(k)' = OpenOf(k)
  <2>1. CASE i \in OpenOf(k) /\ g.state = "dismissed"
    <3>1. OpenOf(k) = {i}
      BY <1>1, <2>1 DEF IInv, OneOpenPerKey
    <3>2. i \notin OpenOf(k)'
      BY <1>3, <2>1 DEF OpenOf
    <3> QED BY <1>1, <1>6, <3>1, <3>2
  <2>2. CASE i \notin OpenOf(k) \/ g.state = findings[i].state
    <3>1. i \in OpenOf(k)' <=> i \in OpenOf(k)
      BY <1>1, <1>3, <1>6, <2>2 DEF OpenOf, Of
    <3>2. \A j \in Known \ {i} : j \in OpenOf(k)' <=> j \in OpenOf(k)
      BY <1>1, <1>3, <1>6 DEF OpenOf, Of, Known
    <3> QED BY <1>6, <3>1, <3>2 DEF OpenOf, Of
  <2> QED BY <2>1, <2>2
<1> QED BY <1>1, <1>5, <1>6, <1>7, <1>8, ClosingMove DEF CountMove, CountsKept, Closing
-----------------------------------------------------------------------------
(* the actions *)

\* Only the caller moves on.
LEMMA CallerMove ==
  ASSUME IInv, NEW c \in Caller, UNCHANGED <<findings, feedback, reported>>,
         call' \in [Caller -> CallState]
  PROVE  IInv' /\ LedgerMove /\ CountMove
BY CallerStep DEF LedgerMove, CountMove, CountsKept

LEMMA AskMove ==
  ASSUME IInv, NEW c \in Caller, Ask(c)
  PROVE  IInv' /\ LedgerMove /\ CountMove
<1>1. call' \in [Caller -> CallState]
  BY DEF Ask, Step, IInv, TypeOK, CallState
<1> QED BY <1>1, CallerMove DEF Ask

\* A clean verdict, heard or stood in for.
LEMMA SettleMove ==
  ASSUME IInv, NEW c \in Caller, NEW k \in Key, Settle(c, k), UNCHANGED <<feedback, reported>>
  PROVE  IInv' /\ LedgerMove /\ CountMove
<1>1. call' \in [Caller -> CallState]
  BY ReturnType DEF Settle, IInv
<1> QED BY <1>1, ClearedMove DEF Settle, IInv, TypeOK

LEMMA HeardMove ==
  ASSUME IInv, NEW c \in Caller, Heard(c)
  PROVE  IInv' /\ LedgerMove /\ CountMove
<1>1. PICK r \in Reply : \/ r.verdict = "ok" /\ Settle(c, r.key)
                         \/ r.verdict # "ok" /\ Weigh(c, r.key, r.verdict)
  BY DEF Heard
<1>2. r.key \in Key /\ r.verdict \in Verdict \cup {"ok"}
  BY DEF Reply
<1>3. UNCHANGED <<feedback, reported>>
  BY DEF Heard
<1>4. CASE r.verdict = "ok" /\ Settle(c, r.key)
  BY <1>2, <1>3, <1>4, SettleMove
<1>5. CASE r.verdict # "ok" /\ Weigh(c, r.key, r.verdict)
  <2>1. r.verdict \in Verdict
    BY <1>2, <1>5
  <2> DEFINE w == [IdleCall EXCEPT !.pc = "upsert", !.key = r.key, !.verdict = r.verdict]
  <2>2. w \in CallState
    BY <1>2, <2>1, IdleType DEF IdleCall, CallState
  <2>3. call' \in [Caller -> CallState]
    BY <1>5, <2>2, IdleType DEF Weigh, Return, IInv, TypeOK
  <2> QED BY <1>3, <1>5, <2>3, CallerMove DEF Weigh
<1> QED BY <1>1, <1>4, <1>5

LEMMA UnheardMove ==
  ASSUME IInv, NEW c \in Caller, Unheard(c)
  PROVE  IInv' /\ LedgerMove /\ CountMove
<1>1. CASE call' = [call EXCEPT ![c].attempts = 1] /\ UNCHANGED findings
  <2>1. call' \in [Caller -> CallState]
    BY <1>1 DEF IInv, TypeOK, CallState
  <2> QED BY <1>1, <2>1, CallerMove DEF Unheard
<1>2. CASE Settle(c, ParseFailure)
  BY <1>2, SettleMove, FindingAssumption DEF Unheard
<1> QED BY <1>1, <1>2 DEF Unheard

\* A report counts up the one open row of its key, or opens one under a new id.
LEMMA UpsertMove ==
  ASSUME IInv, NEW c \in Caller, NEW k \in Key, NEW v \in Verdict,
         findings' \in Upserted(k, v), reported[k] < MaxSeen,
         reported' = [reported EXCEPT ![k] = @ + 1], Return(c), UNCHANGED feedback
  PROVE  IInv' /\ LedgerMove /\ CountMove
<1>1. /\ call' \in [Caller -> CallState]
      /\ MaxSeen \in Nat /\ reported[k] \in 0 .. MaxSeen
  BY ReturnType, FindingAssumption DEF IInv, TypeOK
<1>2. /\ reported' \in [Key -> 0 .. MaxSeen] /\ reported'[k] = reported[k] + 1
      /\ \A l \in Key : reported[l] <= reported'[l]
      /\ \A l \in Key : reported[l] \in 0 .. MaxSeen /\ reported'[l] \in 0 .. MaxSeen
  BY <1>1 DEF IInv, TypeOK
<1>3. /\ Known \subseteq Id
      /\ \A j \in Known : findings[j] \in Finding
      /\ \A j \in Id \ Known : findings[j] = None
      /\ findings \in [Id -> Finding \cup {None}]
  BY RowType DEF IInv, TypeOK
<1>4. \A j \in Known : /\ findings[j].key \in Key /\ findings[j].seen \in 1 .. MaxSeen
                        /\ findings[j].seen <= reported[findings[j].key]
  BY <1>3 DEF Finding, IInv, SeenIsReported
<1>5. CASE OpenOf(k) # {}
  <2>1. PICK i \in OpenOf(k) : findings' = Bumped(i)
    BY <1>5 DEF Upserted, Repeated
  <2>2. i \in Known /\ i \in Id /\ findings[i].key = k /\ OpenOf(k) = {i}
    BY <1>3, <2>1 DEF OpenOf, Of, IInv, OneOpenPerKey
  <2> DEFINE g == [findings[i] EXCEPT !.seen = @ + 1]
  <2>3. /\ g \in Finding /\ g.key = k /\ g.state = findings[i].state
        /\ g.verdict = findings[i].verdict /\ g.seen = findings[i].seen + 1
    <3>1. findings[i].seen + 1 \in 1 .. MaxSeen
      BY <1>1, <1>4, <2>2
    <3> QED BY <1>3, <2>2, <3>1 DEF Finding
  <2>4. findings'[i] = g /\ \A j \in Id \ {i} : findings'[j] = findings[j]
    BY <1>3, <2>1, <2>2 DEF Bumped
  <2>5. g # None
    BY <2>3, NoFindingAssumption
  <2>6. findings' \in [Id -> Finding \cup {None}]
    BY <1>3, <2>1, <2>3 DEF Bumped
  <2>7. Known' = Known
    BY <2>2, <2>4, <2>5 DEF Known
  <2>8. \A l \in Key : OpenOf(l)' = OpenOf(l)
    BY <1>3, <2>2, <2>3, <2>4, <2>7 DEF OpenOf, Of
  <2>9. SeenIsReported'
    <3>1. findings'[i].seen <= reported'[findings'[i].key]
      BY <1>2, <1>4, <2>2, <2>3, <2>4
    <3>2. \A j \in Known \ {i} : findings'[j].seen <= reported'[findings'[j].key]
      BY <1>2, <1>3, <1>4, <2>4
    <3> QED BY <2>7, <3>1, <3>2 DEF SeenIsReported
  <2>10. IInv'
    BY <1>1, <1>2, <2>6, <2>8, <2>9 DEF IInv, TypeOK, OneOpenPerKey
  <2>11. \A l \in Key \ {k} : Board'[l] = Board[l]
    BY <1>3, <2>2, <2>4, <2>8 DEF Board, CardOf, OpenOf, Of
  <2>12. Board[k] = {CardOf(i)} /\ Board'[k] = {CardOf(i)'}
    BY <2>2, <2>8 DEF Board
  <2>13. CardOf(i)' = Ledger!Card(CardOf(i).id, CardOf(i).verdict, CardOf(i).seen + 1)
    BY <2>3, <2>4 DEF CardOf, Ledger!Card
  <2>14. Board' = [Board EXCEPT ![k] =
                     {Ledger!Card(CardOf(i).id, CardOf(i).verdict, CardOf(i).seen + 1)}]
    BY <2>11, <2>12, <2>13 DEF Board
  <2>15. Ledger!Count(k)
    BY <2>7, <2>12, <2>14 DEF Ledger!Count
  <2>16. CountedUp(k, i)
    BY <2>2, <2>3, <2>4, <2>7, <1>3 DEF CountedUp, Of
  <2> QED BY <2>2, <2>10, <2>15, <2>16 DEF LedgerMove, Ledger!Next, CountMove
<1>6. CASE OpenOf(k) = {}
  <2>1. PICK i \in Id \ Known : findings' = Inserted(i, k, v)
    BY <1>6 DEF Upserted, Repeated
  <2> DEFINE g == NewFinding(k, v)
  <2>2. g \in Finding /\ g.key = k /\ g.state = "open" /\ g.verdict = v /\ g.seen = 1
    BY <1>1 DEF NewFinding, Finding, State
  <2>3. findings'[i] = g /\ \A j \in Id \ {i} : findings'[j] = findings[j]
    BY <1>3, <2>1 DEF Inserted
  <2>4. g # None
    BY <2>2, NoFindingAssumption
  <2>5. findings' \in [Id -> Finding \cup {None}]
    BY <1>3, <2>1, <2>2 DEF Inserted
  <2>6. Known' = Known \cup {i}
    BY <2>1, <2>3, <2>4 DEF Known
  <2>7. OpenOf(k)' = {i} /\ \A l \in Key \ {k} : OpenOf(l)' = OpenOf(l)
    BY <1>3, <1>6, <2>1, <2>2, <2>3, <2>6 DEF OpenOf, Of
  <2>8. SeenIsReported'
    BY <1>1, <1>2, <1>3, <1>4, <2>1, <2>2, <2>3, <2>6 DEF SeenIsReported
  <2>9. IInv'
    BY <1>1, <1>2, <2>5, <2>7, <2>8 DEF IInv, TypeOK, OneOpenPerKey
  <2>10. \A l \in Key \ {k} : Board'[l] = Board[l]
    BY <1>3, <2>1, <2>3, <2>7 DEF Board, CardOf, OpenOf, Of
  <2>11. Board[k] = {} /\ Board'[k] = {CardOf(i)'}
    BY <1>6, <2>7 DEF Board
  <2>12. CardOf(i)' = Ledger!Card(i, v, 1)
    BY <2>2, <2>3 DEF CardOf, Ledger!Card
  <2>13. Board' = [Board EXCEPT ![k] = {Ledger!Card(i, v, 1)}]
    BY <2>10, <2>11, <2>12 DEF Board
  <2>14. Ledger!PutUp(k)
    BY <1>1, <2>1, <2>6, <2>11, <2>13 DEF Ledger!PutUp
  <2>15. CountedUp(k, i)
    BY <2>1, <2>2, <2>3, <2>6, <1>3 DEF CountedUp
  <2> QED BY <2>1, <2>9, <2>14, <2>15 DEF LedgerMove, Ledger!Next, CountMove
<1> QED BY <1>5, <1>6

LEMMA DismissMove ==
  ASSUME IInv, NEW c \in Caller, Dismiss(c)
  PROVE  IInv' /\ LedgerMove /\ CountMove
<1>1. PICK i \in Known, muted \in BOOLEAN :
        findings' = [findings EXCEPT ![i].state = "dismissed", ![i].muted = muted]
  BY DEF Dismiss
<1>2. findings[i] \in Finding /\ "dismissed" \in State
  BY RowType DEF IInv, State
<1> DEFINE f == [findings[i] EXCEPT !.state = "dismissed"]
<1> DEFINE g == [f EXCEPT !.muted = muted]
<1>3. /\ f \in Finding /\ f.state = "dismissed" /\ f.key = findings[i].key
      /\ f.verdict = findings[i].verdict /\ f.seen = findings[i].seen
  BY <1>2, ChangedRow
<1>4. /\ g \in Finding /\ g.state = f.state /\ g.key = f.key
      /\ g.verdict = f.verdict /\ g.seen = f.seen
  <2> HIDE DEF f
  <2> QED BY <1>3, ChangedRow
<1>5. findings' = [findings EXCEPT ![i] = g]
  BY <1>1, RowType DEF IInv, TypeOK
<1> HIDE DEF f, g
<1> QED BY <1>3, <1>4, <1>5, RowMove DEF Dismiss

LEMMA WindowMove ==
  ASSUME IInv, WindowEnds
  PROVE  IInv' /\ LedgerMove /\ CountMove
<1>1. PICK i \in Known : findings' = [findings EXCEPT ![i].muted = FALSE]
  BY DEF WindowEnds
<1> DEFINE g == [findings[i] EXCEPT !.muted = FALSE]
<1>2. /\ g \in Finding /\ g.state = findings[i].state /\ g.key = findings[i].key
      /\ g.verdict = findings[i].verdict /\ g.seen = findings[i].seen
  BY RowType, ChangedRow DEF IInv
<1>3. findings' = [findings EXCEPT ![i] = g]
  BY <1>1
<1> HIDE DEF g
<1> QED BY <1>2, <1>3, RowMove DEF WindowEnds

LEMMA MarkOutcomeMove ==
  ASSUME IInv, NEW c \in Caller, MarkOutcome(c)
  PROVE  IInv' /\ LedgerMove /\ CountMove
<1>1. PICK i \in Known, outcome \in Outcome :
        call' = [call EXCEPT ![c] =
                   [IdleCall EXCEPT !.pc = IF outcome = "settled" THEN "clear" ELSE "record",
                                    !.key = findings[i].key, !.id = i, !.outcome = outcome]]
  BY DEF MarkOutcome
<1>2. i \in Id /\ findings[i].key \in Key
  BY RowType DEF IInv, Finding
<1>3. [IdleCall EXCEPT !.pc = IF outcome = "settled" THEN "clear" ELSE "record",
                       !.key = findings[i].key, !.id = i, !.outcome = outcome] \in CallState
  BY <1>2, IdleType DEF CallState, IdleCall
<1>4. call' \in [Caller -> CallState]
  BY <1>1, <1>3 DEF IInv, TypeOK
<1> QED BY <1>4, CallerMove DEF MarkOutcome

LEMMA ClearMove ==
  ASSUME IInv, NEW c \in Caller, NEW k \in Key, findings' = Cleared(k), Step(c, "record"),
         UNCHANGED <<feedback, reported>>
  PROVE  IInv' /\ LedgerMove /\ CountMove
<1>1. call' \in [Caller -> CallState]
  BY DEF Step, IInv, TypeOK, CallState
<1> QED BY <1>1, ClearedMove DEF IInv, TypeOK

LEMMA RecordMove ==
  ASSUME IInv, NEW c \in Caller, Record(c)
  PROVE  IInv' /\ LedgerMove /\ CountMove
<1>1. call' \in [Caller -> CallState] /\ call[c].outcome \in Outcome
  BY ReturnType DEF Record, IInv, TypeOK, CallState
<1>2. feedback' \in [Id -> Outcome \cup {None}]
  BY <1>1 DEF Record, IInv, TypeOK
<1>3. UNCHANGED <<findings, reported>>
  BY DEF Record
<1>4. IInv' /\ UNCHANGED <<Board, Known>>
  BY <1>1, <1>2, <1>3
     DEF IInv, TypeOK, SeenIsReported, OneOpenPerKey, Known, OpenOf, Of, Board, CardOf
<1> QED BY <1>3, <1>4 DEF LedgerMove, CountMove, CountsKept
-----------------------------------------------------------------------------
(* the invariant and the refinement *)

\* A call that is to write by a key has one.
CallsHaveKeys == \A c \in Caller : call[c].pc \in {"upsert", "clear"} => call[c].key \in Key

LEMMA KeysStep ==
  ASSUME TypeOK, CallsHaveKeys, [Next]_vars
  PROVE  CallsHaveKeys'
<1>1. ASSUME NEW c \in Caller, Return(c)
      PROVE  CallsHaveKeys'
  BY <1>1 DEF Return, IdleCall, CallsHaveKeys, TypeOK
<1>2. ASSUME NEW c \in Caller, Assess(c) \/ Record(c) \/ Restart(c)
      PROVE  CallsHaveKeys'
  <2>1. CASE Ask(c)
    BY <2>1 DEF Ask, Step, CallsHaveKeys, TypeOK
  <2>2. CASE Heard(c)
    <3>1. PICK r \in Reply : Settle(c, r.key) \/ Weigh(c, r.key, r.verdict)
      BY <2>2 DEF Heard
    <3>2. CASE call' = [call EXCEPT ![c] = [IdleCall EXCEPT !.pc = "upsert", !.key = r.key,
                                                           !.verdict = r.verdict]]
      BY <3>2 DEF Reply, IdleCall, CallsHaveKeys, TypeOK
    <3> QED BY <1>1, <3>1, <3>2 DEF Settle, Weigh
  <2>3. CASE Unheard(c)
    <3>1. CASE call' = [call EXCEPT ![c].attempts = 1]
      BY <2>3, <3>1 DEF Unheard, CallsHaveKeys, TypeOK
    <3> QED BY <1>1, <2>3, <3>1 DEF Unheard, Settle
  <2> QED BY <1>1, <1>2, <2>1, <2>2, <2>3 DEF Assess, Upsert, Record, Restart
<1>3. ASSUME NEW c \in Caller, MarkOutcome(c)
      PROVE  CallsHaveKeys'
  <2>1. \A i \in Known : findings[i].key \in Key
    BY RowType DEF Finding
  <2> QED BY <1>3, <2>1 DEF MarkOutcome, IdleCall, CallsHaveKeys, TypeOK
<1>4. ASSUME NEW c \in Caller, Clear(c)
      PROVE  CallsHaveKeys'
  BY <1>4 DEF Clear, Step, CallsHaveKeys, TypeOK
<1>5. ASSUME UNCHANGED call
      PROVE  CallsHaveKeys'
  BY <1>5 DEF CallsHaveKeys
<1> QED BY <1>2, <1>3, <1>4, <1>5 DEF Next, Dismiss, WindowEnds, vars

\* Every step keeps the invariant and is a step of the ledger, or none.
LEMMA NextMove ==
  ASSUME IInv, CallsHaveKeys, [Next]_vars
  PROVE  IInv' /\ LedgerMove /\ CountMove
<1>1. ASSUME NEW c \in Caller, Upsert(c)
      PROVE  IInv' /\ LedgerMove /\ CountMove
  <2>1. call[c].key \in Key /\ call[c].verdict \in Verdict
    BY <1>1 DEF Upsert, CallsHaveKeys, IInv, TypeOK, CallState
  <2> QED BY <1>1, <2>1, UpsertMove DEF Upsert
<1>2. ASSUME NEW c \in Caller, Clear(c)
      PROVE  IInv' /\ LedgerMove /\ CountMove
  <2>1. call[c].key \in Key
    BY <1>2 DEF Clear, CallsHaveKeys
  <2> QED BY <1>2, <2>1, ClearMove DEF Clear
<1>3. ASSUME NEW c \in Caller, Restart(c)
      PROVE  IInv' /\ LedgerMove /\ CountMove
  BY <1>3, ReturnType, CallerMove DEF Restart, IInv
<1>4. CASE UNCHANGED vars
  BY <1>4, CallerStep DEF vars, IInv, TypeOK, LedgerMove, CountMove, CountsKept
<1> QED BY <1>1, <1>2, <1>3, <1>4, AskMove, HeardMove, UnheardMove, DismissMove, MarkOutcomeMove,
           RecordMove, WindowMove DEF Next, Assess

\* A finite number of rows count all reports.
CountInv == IsFiniteSet(Known) /\ ReportsAreCounted

LEMMA RowsOfKey ==
  ASSUME TypeOK, CountInv, NEW k \in Key
  PROVE  /\ IsFiniteSet(Of(k)) /\ Of(k) \subseteq Known
         /\ \A i \in Of(k) : findings[i].seen \in Int
<1>1. Of(k) \subseteq Known /\ IsFiniteSet(Known)
  BY DEF Of, CountInv
<1>2. \A i \in Known : findings[i].seen \in Int
  BY RowType, FindingAssumption DEF Finding
<1> QED BY <1>1, <1>2, FS_Subset

\* A sum over the rows of a key changes by what the report adds to one of them.
LEMMA CountStep ==
  ASSUME TypeOK, CountInv, CountMove
  PROVE  CountInv'
<1> DEFINE Seen == [i \in Known |-> findings[i].seen]
<1>1. \A k \in Key : SumFunctionOnSet(Seen, Of(k)) = reported[k]
  BY DEF CountInv, ReportsAreCounted
<1>2. \A k \in Key : IsFiniteSet(Of(k)) /\ Of(k) \subseteq Known /\ \A i \in Of(k) : Seen[i] \in Int
  BY RowsOfKey
<1>3. CASE CountsKept
  <2>1. Seen' = Seen /\ \A k \in Key : Of(k)' = Of(k)
    BY <1>3 DEF CountsKept, Of
  <2> QED BY <1>1, <1>3, <2>1 DEF CountInv, ReportsAreCounted, CountsKept
<1>4. ASSUME NEW k \in Key, NEW i \in Id, CountedUp(k, i)
      PROVE  CountInv'
  <2>1. /\ reported'[k] = reported[k] + 1 /\ reported[k] \in Int
        /\ \A l \in Key \ {k} : reported'[l] = reported[l]
    BY <1>4, FindingAssumption DEF CountedUp, TypeOK
  <2>2. Known' = Known \cup {i} /\ IsFiniteSet(Known')
    <3>1. Known' = Known \cup {i}
      BY <1>4 DEF CountedUp, Of
    <3> QED BY <3>1, FS_AddElement DEF CountInv
  <2>3. Of(k)' = Of(k) \cup {i} /\ \A l \in Key \ {k} : Of(l)' = Of(l)
    BY <1>4, <2>2 DEF CountedUp, Of
  <2>4. ASSUME NEW l \in Key \ {k}
        PROVE  SumFunctionOnSet(Seen', Of(l)') = reported'[l]
    <3>1. i \notin Of(l)
      BY <1>4, <2>3 DEF CountedUp, Of
    <3>2. \A j \in Of(l) : Seen[j] \in Int /\ Seen[j] = Seen'[j]
      BY <1>2, <1>4, <2>2, <3>1 DEF CountedUp
    <3> HIDE DEF Seen
    <3>3. SumFunctionOnSet(Seen, Of(l)) = SumFunctionOnSet(Seen', Of(l))
      BY <1>2, <3>2, SumSame
    <3> QED BY <1>1, <2>1, <2>3, <3>3
  <2>5. SumFunctionOnSet(Seen', Of(k)') = reported'[k]
    <3>1. CASE i \in Of(k)
      <4>1. /\ Of(k)' = Of(k) /\ Seen'[i] = Seen[i] + 1
            /\ \A j \in Of(k) \ {i} : Seen'[j] = Seen[j]
        BY <1>2, <1>4, <2>2, <2>3, <3>1 DEF CountedUp
      <4>2. \A j \in Of(k) : Seen[j] \in Int /\ Seen'[j] \in Int
        BY <1>2, <3>1, <4>1
      <4> HIDE DEF Seen
      <4>3. SumFunctionOnSet(Seen', Of(k)) = SumFunctionOnSet(Seen, Of(k)) + (Seen'[i] - Seen[i])
        BY <1>2, <3>1, <4>1, <4>2, SumChanged
      <4> QED BY <1>1, <2>1, <3>1, <4>1, <4>2, <4>3
    <3>2. CASE i \notin Of(k)
      <4>1. Seen'[i] = 1 /\ \A j \in Of(k) : Seen'[j] = Seen[j] /\ Seen'[j] \in Int
        BY <1>2, <1>4, <2>2, <3>2 DEF CountedUp, Of
      <4> HIDE DEF Seen
      <4>2. SumFunctionOnSet(Seen', Of(k) \cup {i}) = Seen'[i] + SumFunctionOnSet(Seen', Of(k))
        BY <1>2, <3>2, <4>1, SumMore
      <4>3. SumFunctionOnSet(Seen, Of(k)) = SumFunctionOnSet(Seen', Of(k))
        BY <1>2, <4>1, SumSame
      <4> QED BY <1>1, <2>1, <2>3, <4>1, <4>2, <4>3
    <3> QED BY <3>1, <3>2
  <2> QED BY <2>2, <2>4, <2>5 DEF CountInv, ReportsAreCounted
<1> QED BY <1>3, <1>4 DEF CountMove

LEMMA InitMove ==
  ASSUME Init
  PROVE  IInv /\ CallsHaveKeys /\ CountInv /\ Ledger!Init
<1>1. Known = {} /\ \A k \in Key : OpenOf(k) = {}
  BY DEF Init, Known, OpenOf, Of
<1>2. TypeOK
  BY IdleType, FindingAssumption DEF Init, TypeOK
<1>3. CallsHaveKeys
  BY DEF Init, CallsHaveKeys, IdleCall
<1>4. Board = [k \in Key |-> {}]
  BY <1>1 DEF Board
<1>5. CountInv
  BY <1>1, FS_EmptySet, SumOfNone DEF Init, CountInv, ReportsAreCounted, Of
<1> QED BY <1>1, <1>2, <1>3, <1>4, <1>5 DEF IInv, SeenIsReported, OneOpenPerKey, Ledger!Init

LEMMA Inductive == Spec => [](IInv /\ CallsHaveKeys /\ CountInv)
<1>1. IInv /\ CallsHaveKeys /\ CountInv /\ [Next]_vars => (IInv /\ CallsHaveKeys /\ CountInv)'
  BY NextMove, KeysStep, CountStep DEF IInv
<1>2. Init => IInv /\ CallsHaveKeys /\ CountInv
  BY InitMove
<1> QED BY <1>1, <1>2, PTL DEF Spec

\* The columns hold what the schema allows, for every number of callers, keys
\* and ids.
THEOREM TypesHold == Spec => []TypeOK
<1>1. IInv => TypeOK
  BY DEF IInv
<1> QED BY <1>1, Inductive, PTL

\* However many engine runs, dismissals and feedback calls interleave, no two
\* open findings share a key (upsert_assessment_finding's dedup).
THEOREM KeysAreUnique == Spec => []OneOpenPerKey
<1>1. IInv => OneOpenPerKey
  BY DEF IInv
<1> QED BY <1>1, Inductive, PTL

\* For any number of callers, keys and ids, the counts of the rows of a key add
\* up to the concerns that were recorded with it, and the sum is one over a
\* finite set of rows: no report is lost and none is counted twice.
THEOREM NoReportIsLost == Spec => []ReportsAreCounted
<1>1. CountInv => ReportsAreCounted
  BY DEF CountInv
<1> QED BY <1>1, Inductive, PTL

\* The tables implement the ledger: one card per key, put up under a new id,
\* counted up under its first verdict, taken down as a whole.
THEOREM TablesKeepTheLedger == Spec => LedgerKept
<1>1. Init => Ledger!Init
  BY InitMove
<1>2. IInv /\ CallsHaveKeys /\ [Next]_vars => [Ledger!Next]_<<Board, Known>>
  BY NextMove DEF LedgerMove
<1> QED BY <1>1, <1>2, Inductive, PTL DEF Spec, LedgerKept, Ledger!Spec
-----------------------------------------------------------------------------
(* chat: the loop of a turn *)

\* A turn that dispatches no more than it counts, nor more than the budget.
Frugal(t) == t \in TurnState /\ t.run <= t.used /\ t.run <= MaxCalls

TurnsInv == turn \in [Client -> TurnState] /\ \A c \in Client : Frugal(turn[c])

LEMMA NewTurn ==
  ASSUME NEW t, t \in TurnState, t.run = 0
  PROVE  Frugal(t)
BY DirectChatAssumption DEF Frugal, TurnState

LEMMA NoTurnType == NoTurn \in TurnState /\ NoTurn.run = 0
BY DirectChatAssumption DEF NoTurn, TurnState, Text

\* Where the loop goes next, and what it says, has no calls in it.
LEMMA Elsewhere ==
  ASSUME NEW t, Frugal(t)
  PROVE  /\ \A pc \in {"complete", "tools", "audit", "force", "after"} :
              /\ Frugal([t EXCEPT !.pc = pc])
              /\ \A n \in 1 .. MaxBatch : Frugal([t EXCEPT !.pc = pc, !.calls = n])
              /\ \A text \in Text : Frugal([t EXCEPT !.pc = pc, !.text = text])
         /\ Frugal([t EXCEPT !.pc = "force", !.asked = TRUE])
         /\ Frugal([t EXCEPT !.gathers = 1, !.text = ""])
         /\ Frugal([t EXCEPT !.rewrites = 1, !.text = ""])
         /\ Frugal(NextRound(t))
<1>1. t \in TurnState /\ t.run <= t.used /\ t.run <= MaxCalls
  BY DEF Frugal
<1>2. \A pc \in {"complete", "tools", "audit", "force", "after"} :
        /\ Frugal([t EXCEPT !.pc = pc])
        /\ \A n \in 1 .. MaxBatch : Frugal([t EXCEPT !.pc = pc, !.calls = n])
        /\ \A text \in Text : Frugal([t EXCEPT !.pc = pc, !.text = text])
  <2> SUFFICES ASSUME NEW pc \in {"complete", "tools", "audit", "force", "after"}
               PROVE  /\ Frugal([t EXCEPT !.pc = pc])
                      /\ \A n \in 1 .. MaxBatch : Frugal([t EXCEPT !.pc = pc, !.calls = n])
                      /\ \A text \in Text : Frugal([t EXCEPT !.pc = pc, !.text = text])
    OBVIOUS
  <2>1. /\ [t EXCEPT !.pc = pc] \in TurnState
        /\ [t EXCEPT !.pc = pc].run = t.run /\ [t EXCEPT !.pc = pc].used = t.used
    BY <1>1 DEF TurnState
  <2>2. ASSUME NEW n \in 1 .. MaxBatch
        PROVE  Frugal([t EXCEPT !.pc = pc, !.calls = n])
    <3> DEFINE u == [t EXCEPT !.pc = pc, !.calls = n]
    <3>1. n \in 0 .. MaxBatch
      BY DirectChatAssumption
    <3>2. u \in TurnState /\ u.run = t.run /\ u.used = t.used
      BY <1>1, <3>1 DEF TurnState
    <3>3. Frugal(u)
      <4> HIDE DEF u
      <4> QED BY <1>1, <3>2 DEF Frugal
    <3> QED BY <3>3
  <2>3. ASSUME NEW text \in Text
        PROVE  Frugal([t EXCEPT !.pc = pc, !.text = text])
    <3> DEFINE u == [t EXCEPT !.pc = pc, !.text = text]
    <3>1. u \in TurnState /\ u.run = t.run /\ u.used = t.used
      BY <1>1 DEF TurnState
    <3>2. Frugal(u)
      <4> HIDE DEF u
      <4> QED BY <1>1, <3>1 DEF Frugal
    <3> QED BY <3>2
  <2> QED BY <1>1, <2>1, <2>2, <2>3 DEF Frugal
<1>3. /\ Frugal([t EXCEPT !.pc = "force", !.asked = TRUE])
      /\ Frugal([t EXCEPT !.gathers = 1, !.text = ""])
      /\ Frugal([t EXCEPT !.rewrites = 1, !.text = ""])
  <2> DEFINE u == [t EXCEPT !.pc = "force", !.asked = TRUE]
             v == [t EXCEPT !.gathers = 1, !.text = ""]
             w == [t EXCEPT !.rewrites = 1, !.text = ""]
  <2>1. "" \in Text /\ 1 \in 0 .. 1
    BY DEF Text
  <2>2. u \in TurnState /\ u.run = t.run /\ u.used = t.used
    BY <1>1 DEF TurnState
  <2>3. v \in TurnState /\ v.run = t.run /\ v.used = t.used
    BY <1>1, <2>1 DEF TurnState
  <2>4. w \in TurnState /\ w.run = t.run /\ w.used = t.used
    BY <1>1, <2>1 DEF TurnState
  <2> HIDE DEF u, v, w
  <2>5. Frugal(u) /\ Frugal(v) /\ Frugal(w)
    BY <1>1, <2>2, <2>3, <2>4 DEF Frugal
  <2> QED BY <2>5 DEF u, v, w
<1>4. Frugal(NextRound(t))
  <2>1. CASE t.round < Rounds
    <3>1. t.round + 1 \in 0 .. Rounds
      BY <1>1, <2>1, DirectChatAssumption DEF TurnState
    <3>2. Frugal([t EXCEPT !.pc = "complete", !.round = @ + 1])
      BY <1>1, <3>1 DEF Frugal, TurnState
    <3> QED BY <2>1, <3>2 DEF NextRound
  <2>2. CASE ~(t.round < Rounds)
    BY <1>2, <2>2 DEF NextRound
  <2> QED BY <2>1, <2>2
<1> QED BY <1>2, <1>3, <1>4

LEMMA ChangedTurn ==
  ASSUME TurnsInv, NEW c \in Client, NEW t, Frugal(t), turn' = [turn EXCEPT ![c] = t]
  PROVE  TurnsInv'
<1>1. /\ turn \in [Client -> TurnState] /\ t \in TurnState
      /\ \A d \in Client : Frugal(turn[d])
  BY DEF TurnsInv, Frugal
<1>2. turn' \in [Client -> TurnState]
  BY <1>1
<1>3. \A d \in Client : turn'[d] = IF d = c THEN t ELSE turn[d]
  BY <1>1
<1>4. \A d \in Client : Frugal(turn'[d])
  BY <1>1, <1>3
<1> QED BY <1>2, <1>4 DEF TurnsInv, Frugal

LEMMA AnswerStep ==
  ASSUME TurnsInv, NEW c \in Client, NEW text \in Text, Answer(c, text)
  PROVE  TurnsInv'
<1> DEFINE t == [NoTurn EXCEPT !.pc = "done", !.text = text]
<1>1. t \in TurnState /\ t.run = 0
  BY NoTurnType, DirectChatAssumption DEF NoTurn, TurnState
<1>2. Frugal(t)
  BY <1>1, NewTurn
<1>3. turn' = [turn EXCEPT ![c] = t]
  BY DEF Answer
<1> HIDE DEF t
<1> QED BY <1>2, <1>3, ChangedTurn

\* A call is counted whether it is run or not, and run within the budget only.
LEMMA RunToolStep ==
  ASSUME TurnsInv, NEW c \in Client, RunTool(c)
  PROVE  TurnsInv'
<1> DEFINE t == turn[c]
<1>1. /\ t \in TurnState /\ t.run <= t.used /\ t.run <= MaxCalls
      /\ t.calls > 0 /\ t.calls \in 0 .. MaxBatch /\ t.used \in Nat /\ t.run \in Nat
      /\ t.trace \in SUBSET (Offered \cup Excluded)
  BY DEF TurnsInv, Frugal, RunTool, TurnState
<1>2. PICK tool \in Called, runs \in BOOLEAN :
        /\ runs => WithinBudget(t.used) /\ tool \in Offered
        /\ turn' = [turn EXCEPT ![c].calls = @ - 1, ![c].used = @ + 1, ![c].traced = TRUE,
                                ![c].run = IF runs THEN @ + 1 ELSE @,
                                ![c].trace = IF runs THEN @ \cup {tool} ELSE @]
  <2>1. PICK tool \in Called : \E valid \in IF tool \in NodeTools THEN BOOLEAN ELSE {TRUE} :
          LET runs == WithinBudget(t.used) /\ valid /\ Allowed(tool, FALSE)
          IN turn' = [turn EXCEPT ![c].calls = @ - 1, ![c].used = @ + 1, ![c].traced = TRUE,
                                  ![c].run = IF runs THEN @ + 1 ELSE @,
                                  ![c].trace = IF runs THEN @ \cup {tool} ELSE @]
    BY DEF RunTool
  <2>2. PICK valid \in IF tool \in NodeTools THEN BOOLEAN ELSE {TRUE} :
          LET runs == WithinBudget(t.used) /\ valid /\ Allowed(tool, FALSE)
          IN turn' = [turn EXCEPT ![c].calls = @ - 1, ![c].used = @ + 1, ![c].traced = TRUE,
                                  ![c].run = IF runs THEN @ + 1 ELSE @,
                                  ![c].trace = IF runs THEN @ \cup {tool} ELSE @]
    BY <2>1
  <2> DEFINE runs == WithinBudget(t.used) /\ valid /\ Allowed(tool, FALSE)
  <2>3. CASE runs
    BY <2>2, <2>3 DEF Allowed
  <2>4. CASE ~runs
    BY <2>2, <2>4
  <2> QED BY <2>3, <2>4
<1>3. t.calls - 1 \in 0 .. MaxBatch /\ t.used + 1 \in Nat
  BY <1>1, DirectChatAssumption
<1>4. CASE runs
  <2> DEFINE u == [t EXCEPT !.calls = @ - 1, !.used = @ + 1, !.traced = TRUE,
                            !.run = @ + 1, !.trace = @ \cup {tool}]
  <2>1. t.run + 1 <= t.used + 1 /\ t.run + 1 <= MaxCalls /\ t.run + 1 \in Nat
    BY <1>1, <1>2, <1>4, DirectChatAssumption DEF WithinBudget
  <2>2. t.trace \cup {tool} \in SUBSET (Offered \cup Excluded)
    BY <1>1, <1>2, <1>4
  <2>3. Frugal(u)
    BY <1>1, <1>3, <2>1, <2>2 DEF Frugal, TurnState
  <2>4. turn' = [turn EXCEPT ![c] = u]
    BY <1>2, <1>4
  <2> HIDE DEF u
  <2> QED BY <2>3, <2>4, ChangedTurn
<1>5. CASE ~runs
  <2> DEFINE u == [t EXCEPT !.calls = @ - 1, !.used = @ + 1, !.traced = TRUE]
  <2>1. u \in TurnState /\ u.run = t.run /\ u.used = t.used + 1
    BY <1>1, <1>3 DEF TurnState
  <2>2. turn' = [turn EXCEPT ![c] = u]
    BY <1>1, <1>2, <1>5 DEF TurnState
  <2> HIDE DEF u
  <2>3. Frugal(u)
    BY <1>1, <1>3, <2>1 DEF Frugal
  <2> QED BY <2>2, <2>3, ChangedTurn
<1> QED BY <1>4, <1>5

LEMMA LoopKeeps ==
  ASSUME TurnsInv, NEW c \in Client, LoopStep(c)
  PROVE  TurnsInv'
<1> DEFINE t == turn[c]
<1>1. Frugal(t) /\ t \in TurnState
  BY DEF TurnsInv
<1>2. CASE Gather(c)
  <2> DEFINE found == Evidence(t.question)
             u     == [t EXCEPT !.trace = found, !.traced = found # {}]
  <2>1. found \in SUBSET (Offered \cup Excluded)
    BY DEF Evidence, NodeEvidence, CurrentEvidence, Ran, Allowed
  <2>2. Frugal(u)
    <3>1. PICK any \in BOOLEAN : any = (found # {})
      OBVIOUS
    <3>2. u = [t EXCEPT !.trace = found, !.traced = any]
      BY <3>1
    <3> HIDE DEF found, u
    <3>3. u \in TurnState /\ u.run = t.run /\ u.used = t.used
      BY <1>1, <2>1, <3>2 DEF TurnState
    <3> QED BY <1>1, <3>3 DEF Frugal
  <2>3. turn' = [turn EXCEPT ![c] = NextRound(u)]
    BY <1>2 DEF Gather
  <2> HIDE DEF u
  <2>4. Frugal(NextRound(u))
    BY <2>2, Elsewhere
  <2> QED BY <2>3, <2>4, ChangedTurn
<1>3. CASE Complete(c)
  <2>1. CASE \E n \in 1 .. MaxBatch :
               turn' = [turn EXCEPT ![c].pc = "tools", ![c].calls = n]
    <3>1. PICK n \in 1 .. MaxBatch :
            turn' = [turn EXCEPT ![c] = [t EXCEPT !.pc = "tools", !.calls = n]]
      BY <2>1
    <3>2. Frugal([t EXCEPT !.pc = "tools", !.calls = n])
      BY <1>1, Elsewhere
    <3> HIDE DEF t
    <3> QED BY <3>1, <3>2, ChangedTurn
  <2>2. CASE \E text \in {"", "candidate"} :
               turn' = [turn EXCEPT ![c].pc = "audit", ![c].text = text]
    <3>1. PICK text \in Text : turn' = [turn EXCEPT ![c] = [t EXCEPT !.pc = "audit", !.text = text]]
      BY <2>2 DEF Text
    <3>2. Frugal([t EXCEPT !.pc = "audit", !.text = text])
      BY <1>1, Elsewhere
    <3> HIDE DEF t
    <3> QED BY <3>1, <3>2, ChangedTurn
  <2> QED BY <1>3, <2>1, <2>2 DEF Complete
<1>4. CASE RunTool(c)
  BY <1>4, RunToolStep
<1>5. CASE ToolsDone(c)
  <2>1. CASE Answer(c, "exact")
    BY <2>1, AnswerStep DEF Text
  <2>2. CASE To(c, "force")
    <3>1. /\ turn' = [turn EXCEPT ![c] = [t EXCEPT !.pc = "force"]]
          /\ Frugal([t EXCEPT !.pc = "force"])
      BY <1>1, <2>2, Elsewhere DEF To
    <3> QED BY <3>1, ChangedTurn
  <2>3. CASE turn' = [turn EXCEPT ![c] = NextRound(t)]
    BY <1>1, <2>3, Elsewhere, ChangedTurn
  <2> QED BY <1>5, <2>1, <2>2, <2>3 DEF ToolsDone
<1>6. CASE Audit(c)
  <2>1. CASE turn' = [turn EXCEPT ![c] = NextRound([t EXCEPT !.gathers = 1, !.text = ""])]
    <3>1. Frugal([t EXCEPT !.gathers = 1, !.text = ""])
      BY <1>1, Elsewhere
    <3>2. Frugal(NextRound([t EXCEPT !.gathers = 1, !.text = ""]))
      BY <3>1, Elsewhere
    <3> QED BY <2>1, <3>2, ChangedTurn
  <2>2. CASE turn' = [turn EXCEPT ![c] = NextRound([t EXCEPT !.rewrites = 1, !.text = ""])]
    <3>1. Frugal([t EXCEPT !.rewrites = 1, !.text = ""])
      BY <1>1, Elsewhere
    <3>2. Frugal(NextRound([t EXCEPT !.rewrites = 1, !.text = ""]))
      BY <3>1, Elsewhere
    <3> QED BY <2>2, <3>2, ChangedTurn
  <2>3. CASE To(c, "after")
    <3>1. /\ turn' = [turn EXCEPT ![c] = [t EXCEPT !.pc = "after"]]
          /\ Frugal([t EXCEPT !.pc = "after"])
      BY <1>1, <2>3, Elsewhere DEF To
    <3> QED BY <3>1, ChangedTurn
  <2> QED BY <1>6, <2>1, <2>2, <2>3 DEF Audit
<1>7. CASE ForceAnswer(c)
  <2>1. PICK text \in Text : turn' = [turn EXCEPT ![c] = [t EXCEPT !.pc = "after", !.text = text]]
    BY <1>7 DEF ForceAnswer, Text
  <2>2. Frugal([t EXCEPT !.pc = "after", !.text = text])
    BY <1>1, Elsewhere
  <2> HIDE DEF t
  <2> QED BY <2>1, <2>2, ChangedTurn
<1>8. CASE After(c)
  <2>1. CASE Answer(c, t.text)
    <3>1. t.text \in Text
      BY <1>1 DEF TurnState
    <3> QED BY <2>1, <3>1, AnswerStep
  <2>2. CASE turn' = [turn EXCEPT ![c].pc = "force", ![c].asked = TRUE]
    <3>1. /\ turn' = [turn EXCEPT ![c] = [t EXCEPT !.pc = "force", !.asked = TRUE]]
          /\ Frugal([t EXCEPT !.pc = "force", !.asked = TRUE])
      BY <1>1, <2>2, Elsewhere
    <3> QED BY <3>1, ChangedTurn
  <2>3. CASE Answer(c, LastResort)
    BY <2>3, AnswerStep DEF LastResort, Text
  <2> QED BY <1>8, <2>1, <2>2, <2>3 DEF After
<1> QED BY <1>2, <1>3, <1>4, <1>5, <1>6, <1>7, <1>8 DEF LoopStep
-----------------------------------------------------------------------------
(* chat: the memory of a session *)

\* The state of a session: nothing is pending twice, nor once it is settled.
Sound(st) == st \in SessionState /\ IsInjective(st.pending) /\ Settled(st.turns, st.pending)

Sane(t) == t \in Turn /\ (t.resolved => t.asks # None)

LEMMA StateType ==
  ASSUME NEW st \in SessionState
  PROVE  /\ st.updated \in 0 .. MaxTime
         /\ st.turns \in Seq(Turn) /\ Len(st.turns) \in Nat /\ Len(st.turns) <= MaxTurns
         /\ DOMAIN st.turns = 1 .. Len(st.turns)
         /\ st.pending \in Seq(Asked) /\ Len(st.pending) \in Nat /\ Len(st.pending) <= MaxPending
         /\ DOMAIN st.pending = 1 .. Len(st.pending)
<1>1. /\ st.updated \in 0 .. MaxTime /\ st.turns \in SeqOf(Turn, MaxTurns)
      /\ st.pending \in SeqOf(Asked, MaxPending)
  BY DEF SessionState
<1>2. /\ st.turns \in Seq(Turn) /\ Len(st.turns) <= MaxTurns
      /\ st.pending \in Seq(Asked) /\ Len(st.pending) <= MaxPending
  BY <1>1, BoundedList, ChatMemoryAssumption
<1> QED BY <1>1, <1>2, LenProperties

\* To look at a session changes its time only.
LEMMA Touched ==
  ASSUME NEW st, Sound(st), now \in 0 .. MaxTime
  PROVE  LET u == [st EXCEPT !.updated = now]
         IN Sound(u) /\ u.turns = st.turns /\ u.pending = st.pending
<1> DEFINE u == [st EXCEPT !.updated = now]
<1>1. u \in SessionState /\ u.turns = st.turns /\ u.pending = st.pending
  BY DEF Sound, SessionState
<1> HIDE DEF u
<1>2. Sound(u)
  BY <1>1 DEF Sound
<1> QED BY <1>1, <1>2 DEF u

LEMMA FreshSound ==
  ASSUME now \in 0 .. MaxTime
  PROVE  Sound(Fresh) /\ Ids(Fresh) = {}
<1>1. << >> \in SeqOf(Turn, MaxTurns) /\ << >> \in SeqOf(Asked, MaxPending)
  <2>1. /\ << >> \in Seq(Turn) /\ << >> \in Seq(Asked) /\ Len(<< >>) = 0
        /\ MaxTurns \in Nat /\ MaxPending \in Nat
    BY ChatMemoryAssumption, EmptySeq
  <2>2. Len(<< >>) <= MaxTurns /\ Len(<< >>) <= MaxPending
    BY <2>1
  <2> QED BY <2>1, <2>2, BoundedList
<1>2. Fresh \in SessionState
  BY <1>1 DEF Fresh, SessionState
<1> QED BY <1>2 DEF Sound, Fresh, IsInjective, Settled, Ids

\* A question that is asked is pending, and every other that was, unless the
\* list is full.
LEMMA PushedList ==
  ASSUME NEW l \in Seq(Asked), IsInjective(l), NEW x \in Asked, NEW p, p = Pushed(l, x, MaxPending)
  PROVE  /\ p \in Seq(Asked) /\ Len(p) <= MaxPending /\ IsInjective(p)
         /\ \A k \in 1 .. Len(p) : p[k] = x \/ \E m \in 1 .. Len(l) : p[k] = l[m]
<1> DEFINE r == RemoveFirst(l, x)
           n == IF Len(<<x>> \o r) < MaxPending THEN Len(<<x>> \o r) ELSE MaxPending
<1>1. /\ r \in Seq(Asked) /\ Len(r) <= Len(l) /\ IsInjective(r)
      /\ \A k \in 1 .. Len(r) : r[k] # x /\ \E m \in 1 .. Len(l) : r[k] = l[m]
  BY RemovedOnce
<1>2. p = SubSeq(<<x>> \o r, 1, n)
  BY DEF Pushed
<1> HIDE DEF r
<1>3. Len(r) \in Nat /\ DOMAIN r = 1 .. Len(r) /\ Len(<<x>> \o r) = Len(r) + 1
  BY <1>1, LenProperties, ConcatProperties
<1>4. n \in Nat /\ n <= Len(r) + 1 /\ n <= MaxPending
  BY <1>3, ChatMemoryAssumption
<1> HIDE DEF n
<1>5. /\ p \in Seq(Asked) /\ Len(p) = n
      /\ \A k \in 1 .. n : p[k] = IF k = 1 THEN x ELSE r[k - 1]
  BY <1>1, <1>2, <1>4, Headed
<1>6. DOMAIN p = 1 .. n
  BY <1>5, LenProperties
<1>7. \A k \in 1 .. n : k # 1 => k - 1 \in 1 .. Len(r)
  BY <1>3, <1>4
<1>8. IsInjective(p)
  <2>1. ASSUME NEW j \in 1 .. n, NEW k \in 1 .. n, p[j] = p[k]
        PROVE  j = k
    <3>1. CASE j = 1
      BY <1>1, <1>5, <1>7, <2>1, <3>1
    <3>2. CASE k = 1
      BY <1>1, <1>5, <1>7, <2>1, <3>2
    <3>3. CASE j # 1 /\ k # 1
      <4>1. r[j - 1] = r[k - 1] /\ j - 1 \in DOMAIN r /\ k - 1 \in DOMAIN r
        BY <1>3, <1>5, <1>7, <2>1, <3>3
      <4>2. j - 1 = k - 1
        BY <1>1, <4>1 DEF IsInjective
      <4> QED BY <1>4, <4>2
    <3> QED BY <3>1, <3>2, <3>3
  <2> QED BY <1>6, <2>1 DEF IsInjective
<1>9. ASSUME NEW k \in 1 .. n
      PROVE  p[k] = x \/ \E m \in 1 .. Len(l) : p[k] = l[m]
  <2>1. CASE k = 1
    BY <1>5, <2>1
  <2>2. CASE k # 1
    <3>1. p[k] = r[k - 1] /\ k - 1 \in 1 .. Len(r)
      BY <1>5, <1>7, <2>2
    <3> QED BY <1>1, <3>1
  <2> QED BY <2>1, <2>2
<1> QED BY <1>4, <1>5, <1>8, <1>9

\* What is pending after a turn was pending, or is what it asked and left open.
LEMMA PendingList ==
  ASSUME NEW st, Sound(st), NEW t, Sane(t), NEW p, p = Pending(st, t)
  PROVE  /\ p \in Seq(Asked) /\ Len(p) \in Nat /\ Len(p) <= MaxPending /\ IsInjective(p)
         /\ \A k \in 1 .. Len(p) : \/ p[k] = Kept(t.asks)
                                   \/ \E m \in 1 .. Len(st.pending) : p[k] = st.pending[m]
         /\ t.resolved => \A k \in 1 .. Len(p) : p[k] # t.asks
<1>1. /\ st.pending \in Seq(Asked) /\ Len(st.pending) <= MaxPending
      /\ IsInjective(st.pending) /\ t.asks \in Asked \cup {None}
  BY StateType DEF Sound, Sane, Turn
<1> PICK q : q = Pushed(st.pending, Kept(t.asks), MaxPending)
  OBVIOUS
<1>2. CASE t.asks = None
  BY <1>1, <1>2, LenProperties DEF Pending, Sane
<1>3. CASE t.asks # None
  <2>1. /\ q \in Seq(Asked) /\ Len(q) <= MaxPending /\ IsInjective(q)
        /\ \A k \in 1 .. Len(q) : \/ q[k] = Kept(t.asks)
                                  \/ \E m \in 1 .. Len(st.pending) : q[k] = st.pending[m]
    <3>1. PICK x \in Asked : x = Kept(t.asks)
      BY <1>1, <1>3, ChatMemoryAssumption DEF Kept
    <3>2. PICK l \in Seq(Asked) : l = st.pending
      BY <1>1
    <3>3. IsInjective(l) /\ q = Pushed(l, x, MaxPending)
      BY <1>1, <3>1, <3>2
    <3>4. /\ q \in Seq(Asked) /\ Len(q) <= MaxPending /\ IsInjective(q)
          /\ \A k \in 1 .. Len(q) : q[k] = x \/ \E m \in 1 .. Len(l) : q[k] = l[m]
      <4>1. \A y \in Asked : \A r : r = Pushed(l, y, MaxPending) =>
               /\ r \in Seq(Asked) /\ Len(r) <= MaxPending /\ IsInjective(r)
               /\ \A k \in 1 .. Len(r) : r[k] = y \/ \E m \in 1 .. Len(l) : r[k] = l[m]
        BY <3>3, PushedList
      <4> QED BY <3>3, <4>1
    <3> QED BY <3>1, <3>2, <3>4
  <2>2. CASE t.resolved
    <3>1. p = RemoveFirst(q, t.asks)
      BY <1>3, <2>2 DEF Pending
    <3>2. /\ p \in Seq(Asked) /\ Len(p) <= Len(q) /\ IsInjective(p)
          /\ \A k \in 1 .. Len(p) : p[k] # t.asks /\ \E m \in 1 .. Len(q) : p[k] = q[m]
      BY <2>1, <3>1, RemovedOnce
    <3>3. Len(p) \in Nat /\ Len(q) \in Nat
      BY <2>1, <3>2, LenProperties
    <3> QED BY <2>1, <3>2, <3>3, ChatMemoryAssumption
  <2>3. CASE ~t.resolved
    <3>1. p = q
      BY <1>3, <2>3 DEF Pending
    <3> QED BY <2>1, <2>3, <3>1, LenProperties
  <2> QED BY <2>2, <2>3
<1> QED BY <1>2, <1>3

\* A recorded turn keeps the state sound; turns fall out at the far end only,
\* when there are MaxTurns.
LEMMA TurnedSound ==
  ASSUME NEW st, Sound(st), NEW t, Sane(t), NEW u, u = Turned(st, t)
  PROVE  /\ Sound(u)
         /\ Len(st.turns) = MaxTurns => Len(u.turns) = MaxTurns
         /\ Len(st.turns) < MaxTurns => Ids(st) \subseteq Ids(u)
<1>1. /\ st \in SessionState /\ st.updated \in 0 .. MaxTime
      /\ st.turns \in Seq(Turn) /\ Len(st.turns) \in Nat /\ Len(st.turns) <= MaxTurns
      /\ DOMAIN st.turns = 1 .. Len(st.turns)
      /\ DOMAIN st.pending = 1 .. Len(st.pending)
      /\ st.pending \in Seq(Asked)
  BY StateType DEF Sound
<1> DEFINE n == IF Len(st.turns) < MaxTurns THEN Len(st.turns) + 1 ELSE MaxTurns
           l == SubSeq(<<t>> \o st.turns, 1, n)
           p == Pending(st, t)
<1>2. n \in Nat \ {0} /\ n <= Len(st.turns) + 1 /\ n <= MaxTurns
  BY <1>1, ChatMemoryAssumption
<1>3. u = [updated |-> st.updated, turns |-> l, pending |-> p]
  BY DEF Turned, Sound, SessionState
<1>4. /\ p \in Seq(Asked) /\ Len(p) \in Nat /\ Len(p) <= MaxPending /\ IsInjective(p)
      /\ \A k \in 1 .. Len(p) : \/ p[k] = Kept(t.asks)
                                \/ \E m \in 1 .. Len(st.pending) : p[k] = st.pending[m]
      /\ t.resolved => \A k \in 1 .. Len(p) : p[k] # t.asks
  BY PendingList
<1> HIDE DEF p
<1>5. DOMAIN p = 1 .. Len(p)
  BY <1>4, LenProperties
<1>6. /\ l \in Seq(Turn) /\ Len(l) = n
      /\ \A k \in 1 .. n : l[k] = IF k = 1 THEN t ELSE st.turns[k - 1]
  <2>1. t \in Turn
    BY DEF Sane
  <2> HIDE DEF n
  <2> QED BY <1>1, <1>2, <2>1, Headed
<1> HIDE DEF l
<1>7. DOMAIN l = 1 .. n
  BY <1>6, LenProperties
<1>8. u \in SessionState
  <2>1. l \in SeqOf(Turn, MaxTurns) /\ p \in SeqOf(Asked, MaxPending)
    <3> HIDE DEF n
    <3> QED BY <1>2, <1>4, <1>6, BoundedList, ChatMemoryAssumption
  <2> QED BY <1>1, <1>3, <2>1 DEF SessionState
<1>9. Settled(l, p)
  <2> SUFFICES ASSUME NEW i \in 1 .. n, l[i].resolved, Kept(l[i].asks) = l[i].asks,
                      \A j \in 1 .. i - 1 : Kept(l[j].asks) # l[i].asks,
                      NEW k \in 1 .. Len(p), p[k] = l[i].asks
               PROVE  FALSE
    BY <1>5, <1>7 DEF Settled
  <2>1. CASE i = 1
    <3>1. l[i] = t
      BY <1>6, <2>1
    <3> QED BY <1>4, <3>1
  <2>2. CASE i # 1
    <3>1. 1 \in 1 .. i - 1 /\ i - 1 \in 1 .. Len(st.turns) /\ l[1] = t /\ l[i] = st.turns[i - 1]
      <4>1. 1 \in 1 .. i - 1 /\ 1 \in 1 .. n /\ i - 1 \in 1 .. Len(st.turns)
        BY <1>1, <1>2, <2>2
      <4> QED BY <1>6, <2>2, <4>1
    <3>2. p[k] # Kept(t.asks)
      BY <3>1
    <3>3. PICK m \in 1 .. Len(st.pending) : p[k] = st.pending[m]
      BY <1>4, <3>2
    <3>4. ASSUME NEW j \in 1 .. (i - 1) - 1
          PROVE  Kept(st.turns[j].asks) # st.turns[i - 1].asks
      <4>1. j + 1 \in 1 .. i - 1 /\ j + 1 \in 1 .. n /\ j + 1 # 1 /\ (j + 1) - 1 = j
        BY <1>2
      <4>2. l[j + 1] = st.turns[j]
        BY <1>6, <4>1
      <4> QED BY <3>1, <4>1, <4>2
    <3> QED BY <1>1, <3>1, <3>3, <3>4 DEF Sound, Settled
  <2> QED BY <2>1, <2>2
<1>10. Len(st.turns) < MaxTurns => Ids(st) \subseteq Ids(u)
  <2> SUFFICES ASSUME Len(st.turns) < MaxTurns, NEW i \in 1 .. Len(st.turns)
               PROVE  st.turns[i].id \in Ids(u)
    BY <1>1 DEF Ids
  <2>1. i + 1 \in 1 .. n /\ (i + 1) - 1 = i /\ i + 1 # 1
    BY <1>1
  <2>2. l[i + 1] = st.turns[i]
    BY <1>6, <2>1
  <2> QED BY <1>3, <1>7, <2>1, <2>2 DEF Ids
<1>11. Len(st.turns) = MaxTurns => Len(l) = MaxTurns
  BY <1>1, <1>6, ChatMemoryAssumption
<1> QED BY <1>3, <1>4, <1>8, <1>9, <1>10, <1>11 DEF Sound
-----------------------------------------------------------------------------
(* chat: the sessions, the rows and the transcript thread *)

MemoryTyped ==
  /\ sessions \in [Session -> SessionState \cup {None}]
  /\ stored \in [Session -> Row \cup {None}]
  /\ now \in 0 .. MaxTime
  /\ lost \subseteq 1 .. MaxId
  /\ reader = None \/ reader \in [session : Session, state : SessionState]

\* Memory, rows and the thread hold sound states: a state travels between them.
MemorySound ==
  /\ \A s \in Session : sessions[s] # None => Sound(sessions[s])
  /\ \A s \in Session : stored[s] # None => Sound(stored[s].state)
  /\ reader # None => Sound(reader.state)

MemoryInv == MemoryTyped /\ MemorySound /\ MemoryKeepsRow

LEMMA IdsType ==
  ASSUME NEW st \in SessionState
  PROVE  Ids(st) \subseteq 1 .. MaxId
<1>1. DOMAIN st.turns = 1 .. Len(st.turns) /\ st.turns \in Seq(Turn)
  BY StateType
<1>2. \A i \in DOMAIN st.turns : st.turns[i] \in Turn
  BY <1>1, ElementOfSeq
<1> QED BY <1>2 DEF Ids, Turn

\* What the prune leaves is what was there.
LEMMA PrunedMemory ==
  ASSUME MemoryInv
  PROVE  /\ InMemory \in [Session -> SessionState \cup {None}]
         /\ Unexpired \in [Session -> Row \cup {None}]
         /\ \A s \in Session : InMemory[s] # None => InMemory[s] = sessions[s] /\ sessions[s] # None
         /\ \A s \in Session : Unexpired[s] # None => Unexpired[s] = stored[s] /\ stored[s] # None
BY DEF MemoryInv, MemoryTyped, InMemory, Unexpired

\* The state a turn is recorded in is sound, and knows the turns of the row
\* unless the load fails.
LEMMA EnsuredState ==
  ASSUME MemoryInv, NEW s \in Session, NEW fails \in BOOLEAN, NEW e, e = Ensured(s, fails)
  PROVE  /\ Sound(e)
         /\ Missed(s, fails) \subseteq 1 .. MaxId
         /\ Unexpired[s] # None =>
              \/ Ids(stored[s].state) \subseteq Ids(e) \cup lost \cup Missed(s, fails)
              \/ Len(e.turns) = MaxTurns
<1>1. /\ InMemory[s] # None => InMemory[s] = sessions[s] /\ Sound(sessions[s])
      /\ Unexpired[s] # None =>
           Unexpired[s] = stored[s] /\ stored[s] # None /\ Sound(stored[s].state)
      /\ now \in 0 .. MaxTime
  BY PrunedMemory DEF MemoryInv, MemorySound, MemoryTyped
<1>2. Missed(s, fails) \subseteq 1 .. MaxId
  BY <1>1, IdsType DEF Missed, Sound
<1>3. CASE InMemory[s] # None
  <2>1. e = [sessions[s] EXCEPT !.updated = now]
    BY <1>1, <1>3 DEF Ensured
  <2>2. Sound(e) /\ e.turns = sessions[s].turns
    BY <1>1, <1>3, <2>1, Touched
  <2>3. sessions[s] # None
    BY <1>3, PrunedMemory
  <2>4. stored[s] # None => \/ Ids(stored[s].state) \subseteq Ids(sessions[s]) \cup lost
                            \/ Len(sessions[s].turns) = MaxTurns
    BY <2>3 DEF MemoryInv, MemoryKeepsRow
  <2>5. Ids(e) = Ids(sessions[s])
    BY <2>2 DEF Ids
  <2> QED BY <1>1, <1>2, <2>2, <2>4, <2>5
<1>4. CASE InMemory[s] = None /\ fails
  <2>1. e = Fresh
    BY <1>4 DEF Ensured
  <2>2. Unexpired[s] # None => Missed(s, fails) = Ids(stored[s].state)
    BY <1>1, <1>4 DEF Missed
  <2> QED BY <1>1, <1>2, <2>1, <2>2, FreshSound
<1>5. CASE InMemory[s] = None /\ ~fails
  <2>1. e = Loaded(Unexpired, s)
    BY <1>5 DEF Ensured
  <2>2. CASE Unexpired[s] = None
    BY <1>1, <1>2, <2>1, <2>2, FreshSound DEF Loaded
  <2>3. CASE Unexpired[s] # None
    <3>1. e = [stored[s].state EXCEPT !.updated = now]
      BY <1>1, <2>1, <2>3 DEF Loaded
    <3>2. Sound(e) /\ e.turns = stored[s].state.turns
      BY <1>1, <2>3, <3>1, Touched
    <3>3. Ids(e) = Ids(stored[s].state)
      BY <3>2 DEF Ids
    <3> QED BY <1>2, <3>2, <3>3
  <2> QED BY <2>2, <2>3
<1> QED BY <1>3, <1>4, <1>5

LEMMA RecordTurnStep ==
  ASSUME MemoryInv, NEW s \in Session, NEW t, Sane(t), NEW written \in BOOLEAN,
         NEW fails \in BOOLEAN, RecordTurn(s, t, written, fails), UNCHANGED <<now, reader>>
  PROVE  MemoryInv'
<1>1. PICK e : e = Ensured(s, fails)
  OBVIOUS
<1>2. PICK u : u = Turned(e, t)
  OBVIOUS
<1>3. /\ Sound(e)
      /\ Missed(s, fails) \subseteq 1 .. MaxId
      /\ Unexpired[s] # None =>
           \/ Ids(stored[s].state) \subseteq Ids(e) \cup lost \cup Missed(s, fails)
           \/ Len(e.turns) = MaxTurns
  BY <1>1, EnsuredState
<1>4. /\ Sound(u)
      /\ Len(e.turns) = MaxTurns => Len(u.turns) = MaxTurns
      /\ Len(e.turns) < MaxTurns => Ids(e) \subseteq Ids(u)
  BY <1>2, <1>3, TurnedSound
<1>5. Len(e.turns) \in Nat /\ Len(e.turns) <= MaxTurns /\ MaxTurns \in Nat
  BY <1>3, StateType, ChatMemoryAssumption DEF Sound
<1>6. /\ InMemory \in [Session -> SessionState \cup {None}]
      /\ Unexpired \in [Session -> Row \cup {None}]
      /\ \A r \in Session : InMemory[r] # None => InMemory[r] = sessions[r] /\ sessions[r] # None
      /\ \A r \in Session : Unexpired[r] # None => Unexpired[r] = stored[r] /\ stored[r] # None
  BY PrunedMemory
<1> DEFINE row == [state |-> u, expires |-> now + Days]
<1>7. row \in Row /\ row.state = u
  <2>1. u \in SessionState /\ now + Days \in Nat
    BY <1>4, ChatMemoryAssumption DEF Sound, MemoryInv, MemoryTyped
  <2> QED BY <2>1 DEF Row
<1>8. /\ sessions' = [InMemory EXCEPT ![s] = u]
      /\ stored' = IF written THEN [Unexpired EXCEPT ![s] = row] ELSE Unexpired
      /\ lost' = lost \cup Missed(s, fails)
  BY <1>1, <1>2 DEF RecordTurn
<1> HIDE DEF row
<1>9. /\ sessions'[s] = u
      /\ \A r \in Session \ {s} : sessions'[r] = InMemory[r] /\ stored'[r] = Unexpired[r]
      /\ stored'[s] = IF written THEN row ELSE Unexpired[s]
  BY <1>6, <1>8
<1>10. MemoryTyped'
  <2>1. sessions' \in [Session -> SessionState \cup {None}]
    BY <1>4, <1>6, <1>8 DEF Sound
  <2>2. stored' \in [Session -> Row \cup {None}]
    BY <1>6, <1>7, <1>8
  <2>3. lost' \subseteq 1 .. MaxId
    BY <1>3, <1>8 DEF MemoryInv, MemoryTyped
  <2> QED BY <2>1, <2>2, <2>3 DEF MemoryInv, MemoryTyped
<1>11. MemorySound'
  <2>1. ASSUME NEW r \in Session
        PROVE  /\ sessions'[r] # None => Sound(sessions'[r])
               /\ stored'[r] # None => Sound(stored'[r].state)
    BY <1>4, <1>6, <1>7, <1>9 DEF MemoryInv, MemorySound
  <2>2. \A st : Sound(st)' <=> Sound(st)
    BY DEF Sound
  <2> QED BY <2>1, <2>2 DEF MemoryInv, MemorySound
<1>12. ASSUME NEW r \in Session, sessions'[r] # None, stored'[r] # None
       PROVE  \/ Ids(stored'[r].state) \subseteq Ids(sessions'[r]) \cup lost'
              \/ Len(sessions'[r].turns) = MaxTurns
  <2>1. CASE r # s
    <3>1. sessions'[r] = sessions[r] /\ stored'[r] = stored[r]
      BY <1>6, <1>9, <1>12, <2>1
    <3> QED BY <1>8, <1>12, <3>1 DEF MemoryInv, MemoryKeepsRow
  <2>2. CASE r = s /\ written
    BY <1>7, <1>9, <2>2
  <2>3. CASE r = s /\ ~written
    <3>1. Unexpired[s] # None /\ stored'[s] = stored[s]
      BY <1>6, <1>9, <1>12, <2>3
    <3>2. CASE Len(e.turns) = MaxTurns
      BY <1>4, <1>9, <2>3, <3>2
    <3>3. CASE Len(e.turns) < MaxTurns
      BY <1>3, <1>4, <1>5, <1>8, <1>9, <2>3, <3>1, <3>3
    <3> QED BY <1>5, <3>2, <3>3
  <2> QED BY <2>1, <2>2, <2>3
<1>13. MemoryKeepsRow'
  BY <1>12 DEF MemoryKeepsRow, Ids
<1> QED BY <1>10, <1>11, <1>13 DEF MemoryInv

\* The row becomes the session.
LEMMA LoadContextStep ==
  ASSUME MemoryInv, NEW s \in Session, LoadContext(s), UNCHANGED <<stored, lost, now, reader>>
  PROVE  MemoryInv'
<1>1. /\ sessions \in [Session -> SessionState \cup {None}]
      /\ \A r \in Session \ {s} : sessions'[r] = sessions[r]
      /\ sessions'[s] = IF sessions[s] = None /\ stored[s] # None
                        THEN stored[s].state ELSE sessions[s]
      /\ sessions' = [sessions EXCEPT ![s] = sessions'[s]]
  BY DEF LoadContext, MemoryInv, MemoryTyped
<1>2. stored[s] # None => stored[s].state \in SessionState /\ Sound(stored[s].state)
  BY DEF MemoryInv, MemorySound, Sound
<1>3. MemoryTyped'
  BY <1>1, <1>2 DEF MemoryInv, MemoryTyped
<1>4. \A st : Sound(st)' <=> Sound(st)
  BY DEF Sound
<1>5. MemorySound'
  BY <1>1, <1>2, <1>4 DEF MemoryInv, MemorySound
<1>6. MemoryKeepsRow'
  BY <1>1 DEF MemoryInv, MemoryKeepsRow, Ids
<1> QED BY <1>3, <1>5, <1>6 DEF MemoryInv

LEMMA LookUpStep ==
  ASSUME MemoryInv, NEW s \in Session, LookUp(s)
  PROVE  MemoryInv'
<1>1. /\ stored[s] # None /\ reader' = [session |-> s, state |-> stored[s].state]
      /\ UNCHANGED <<sessions, stored, lost, now>>
  BY DEF LookUp, memoryVars
<1>2. Sound(stored[s].state) /\ stored[s].state \in SessionState
  BY <1>1 DEF MemoryInv, MemorySound, Sound
<1>3. MemoryTyped'
  BY <1>1, <1>2 DEF MemoryInv, MemoryTyped
<1>4. \A st : Sound(st)' <=> Sound(st)
  BY DEF Sound
<1>5. MemorySound'
  BY <1>1, <1>2, <1>4 DEF MemoryInv, MemorySound
<1>6. MemoryKeepsRow'
  BY <1>1 DEF MemoryInv, MemoryKeepsRow, Ids
<1> QED BY <1>3, <1>5, <1>6 DEF MemoryInv

\* What the thread read replaces the session; what it replaces is told as lost.
LEMMA ShowStep ==
  ASSUME MemoryInv, Show
  PROVE  MemoryInv'
<1> PICK s : s = reader.session
  OBVIOUS
<1>1. /\ s \in Session /\ reader.state \in SessionState /\ Sound(reader.state)
      /\ sessions' = [sessions EXCEPT ![s] = reader.state]
      /\ reader' = None /\ stored' = stored /\ now' = now
  BY DEF Show, MemoryInv, MemoryTyped, MemorySound
<1>2. sessions'[s] = reader.state /\ \A r \in Session \ {s} : sessions'[r] = sessions[r]
  BY <1>1 DEF MemoryInv, MemoryTyped
<1> DEFINE held == {sessions[s], IF stored[s] = None THEN None ELSE stored[s].state}
           seen == UNION {IF x = None THEN {} ELSE Ids(x) : x \in held}
<1>3. lost' = lost \cup (seen \ Ids(reader.state))
  BY DEF Show
<1>4. seen \subseteq 1 .. MaxId
  <2>1. \A x \in held : x = None \/ x \in SessionState
    BY <1>1 DEF MemoryInv, MemoryTyped, MemorySound, Sound
  <2> QED BY <2>1, IdsType
<1>5. stored[s] # None => Ids(stored[s].state) \subseteq seen
  <2> SUFFICES ASSUME stored[s] # None PROVE Ids(stored[s].state) \subseteq seen
    OBVIOUS
  <2>1. stored[s].state # None /\ stored[s].state \in held
    BY <1>1, NoSessionAssumption DEF MemoryInv, MemorySound, Sound
  <2> QED BY <2>1
<1> HIDE DEF seen, held
<1>6. MemoryTyped'
  BY <1>1, <1>3, <1>4 DEF MemoryInv, MemoryTyped
<1>7. \A st : Sound(st)' <=> Sound(st)
  BY DEF Sound
<1>8. MemorySound'
  BY <1>1, <1>2, <1>7 DEF MemoryInv, MemorySound
<1>9. ASSUME NEW r \in Session, sessions'[r] # None, stored'[r] # None
      PROVE  \/ Ids(stored'[r].state) \subseteq Ids(sessions'[r]) \cup lost'
             \/ Len(sessions'[r].turns) = MaxTurns
  <2>1. CASE r = s
    BY <1>1, <1>2, <1>3, <1>5, <1>9, <2>1
  <2>2. CASE r # s
    BY <1>1, <1>2, <1>3, <1>9, <2>2 DEF MemoryInv, MemoryKeepsRow
  <2> QED BY <2>1, <2>2
<1>10. MemoryKeepsRow'
  BY <1>9 DEF MemoryKeepsRow, Ids
<1> QED BY <1>6, <1>8, <1>10 DEF MemoryInv

\* A restart forgets the sessions; nothing else moves but the clock.
LEMMA MemoryStays ==
  ASSUME MemoryInv, UNCHANGED <<stored, lost>>, now' \in 0 .. MaxTime,
         sessions' = sessions \/ sessions' = [s \in Session |-> None],
         reader' = reader \/ reader' = None
  PROVE  MemoryInv'
<1>1. MemoryTyped'
  BY DEF MemoryInv, MemoryTyped
<1>2. \A st : Sound(st)' <=> Sound(st)
  BY DEF Sound
<1>3. MemorySound'
  BY <1>2 DEF MemoryInv, MemorySound
<1>4. MemoryKeepsRow'
  BY DEF MemoryInv, MemoryKeepsRow, Ids
<1> QED BY <1>1, <1>3, <1>4 DEF MemoryInv
-----------------------------------------------------------------------------
(* chat: the service *)

\* A turn under way has the session and the id it will be recorded with.
RequestsInv ==
  /\ request \in [Client -> [session : Session \cup {None}, id : 0 .. MaxId]]
  /\ started \in 0 .. MaxId
  /\ \A c \in Client :
       turn[c].pc # "idle" => request[c].session \in Session /\ request[c].id \in 1 .. MaxId

ChatInv == TurnsInv /\ MemoryInv /\ RequestsInv

LEMMA StartStep ==
  ASSUME ChatInv, NEW c \in Client, Start(c)
  PROVE  ChatInv'
<1>1. PICK s \in Session, question \in Question :
        /\ request' = [request EXCEPT ![c] = [session |-> s, id |-> started + 1]]
        /\ turn' = [turn EXCEPT ![c] =
                      IF c \in Direct THEN [NoTurn EXCEPT !.pc = "gather", !.question = question]
                                      ELSE [NoTurn EXCEPT !.pc = "proxy"]]
        /\ LoadContext(s) \/ UNCHANGED sessions
  BY DEF Start
<1>2. started < MaxId /\ started' = started + 1 /\ UNCHANGED <<stored, now, lost, reader>>
  BY DEF Start
<1>3. started + 1 \in 1 .. MaxId /\ started + 1 \in 0 .. MaxId
  BY <1>2, ChatMemoryAssumption DEF ChatInv, RequestsInv
<1> PICK t : t = IF c \in Direct THEN [NoTurn EXCEPT !.pc = "gather", !.question = question]
                                 ELSE [NoTurn EXCEPT !.pc = "proxy"]
  OBVIOUS
<1>4. t \in TurnState /\ t.run = 0
  BY NoTurnType DEF NoTurn, TurnState
<1>5. TurnsInv'
  BY <1>1, <1>4, NewTurn, ChangedTurn DEF ChatInv
<1>6. \A d \in Client \ {c} : turn'[d] = turn[d]
  BY <1>1 DEF ChatInv, TurnsInv
<1>7. RequestsInv'
  BY <1>1, <1>2, <1>3, <1>6 DEF ChatInv, RequestsInv
<1>8. MemoryInv'
  <2>1. CASE LoadContext(s)
    BY <1>2, <2>1, LoadContextStep DEF ChatInv
  <2>2. CASE UNCHANGED sessions
    BY <1>2, <2>2, MemoryStays DEF ChatInv, MemoryInv, MemoryTyped
  <2> QED BY <1>1, <2>1, <2>2
<1> QED BY <1>5, <1>7, <1>8 DEF ChatInv

LEMMA WorkStep ==
  ASSUME ChatInv, NEW c \in Client, Work(c)
  PROVE  ChatInv'
<1>1. LoopStep(c) /\ UNCHANGED <<sessions, stored, lost, now, request, reader, started>>
  BY DEF Work, memoryVars
<1>2. TurnsInv'
  BY <1>1, LoopKeeps DEF ChatInv
<1>3. turn[c].pc # "idle"
  BY <1>1 DEF LoopStep, Gather, Complete, RunTool, ToolsDone, Audit, ForceAnswer, After
<1>4. \A d \in Client \ {c} : turn'[d] = turn[d]
  BY <1>1 DEF LoopStep, Gather, Complete, RunTool, ToolsDone, Audit, ForceAnswer, After,
              Answer, To, ChatInv, TurnsInv
<1>5. RequestsInv'
  BY <1>1, <1>3, <1>4 DEF ChatInv, RequestsInv
<1>6. MemoryInv'
  BY <1>1, MemoryStays DEF ChatInv, MemoryInv, MemoryTyped
<1> QED BY <1>2, <1>5, <1>6 DEF ChatInv

\* The handler of a client is done with its turn.
LEMMA IdledStep ==
  ASSUME ChatInv, NEW c \in Client, Idled(c)
  PROVE  TurnsInv' /\ RequestsInv'
<1>1. TurnsInv'
  BY NoTurnType, NewTurn, ChangedTurn DEF ChatInv, Idled
<1>2. /\ \A d \in Client \ {c} : turn'[d] = turn[d] /\ request'[d] = request[d]
      /\ turn'[c].pc = "idle"
  BY DEF Idled, NoTurn, ChatInv, TurnsInv, RequestsInv
<1>3. NoRequest \in [session : Session \cup {None}, id : 0 .. MaxId]
  BY ChatMemoryAssumption DEF NoRequest
<1>4. RequestsInv'
  BY <1>2, <1>3 DEF Idled, ChatInv, RequestsInv
<1> QED BY <1>1, <1>4

LEMMA FinishStep ==
  ASSUME ChatInv, NEW c \in Client, Finish(c)
  PROVE  ChatInv'
<1>1. turn[c].pc # "idle" /\ Idled(c) /\ UNCHANGED <<now, reader>>
  BY DEF Finish, Idled
<1>2. PICK s \in Session, n \in 1 .. MaxId : request[c].session = s /\ request[c].id = n
  BY <1>1 DEF ChatInv, RequestsInv
<1>3. PICK asks \in Asked \cup {None}, resolved, written, fails \in BOOLEAN :
        /\ resolved => asks # None /\ turn[c].text # "apology"
        /\ RecordTurn(s, [id |-> n, asks |-> asks, resolved |-> resolved], written, fails)
  BY <1>2 DEF Finish
<1> PICK t : t = [id |-> n, asks |-> asks, resolved |-> resolved]
  OBVIOUS
<1>4. Sane(t)
  BY <1>3 DEF Sane, Turn
<1>5. MemoryInv'
  BY <1>1, <1>3, <1>4, RecordTurnStep DEF ChatInv
<1> QED BY <1>1, <1>5, IdledStep DEF ChatInv

LEMMA ChatStep ==
  ASSUME ChatInv, [ChatNext]_chatVars
  PROVE  ChatInv'
<1>1. ASSUME NEW c \in Client, Fail(c)
      PROVE  ChatInv'
  <2>1. Idled(c) /\ UNCHANGED <<sessions, stored, lost, now, reader>>
    BY <1>1 DEF Fail, Idled, memoryVars
  <2>2. MemoryInv'
    BY <2>1, MemoryStays DEF ChatInv, MemoryInv, MemoryTyped
  <2> QED BY <2>1, <2>2, IdledStep DEF ChatInv
<1>2. ASSUME NEW s \in Session, LookUp(s)
      PROVE  ChatInv'
  <2>1. MemoryInv' /\ UNCHANGED <<turn, request, started>>
    BY <1>2, LookUpStep DEF ChatInv, LookUp
  <2> QED BY <2>1 DEF ChatInv, TurnsInv, RequestsInv, Frugal
<1>3. CASE Show
  <2>1. MemoryInv' /\ UNCHANGED <<turn, request, started>>
    BY <1>3, ShowStep DEF ChatInv, Show
  <2> QED BY <2>1 DEF ChatInv, TurnsInv, RequestsInv, Frugal
<1>4. CASE ChatRestart
  <2>1. MemoryInv'
    BY <1>4, MemoryStays DEF ChatRestart, ChatInv, MemoryInv, MemoryTyped
  <2>2. Frugal(NoTurn) /\ NoTurn \in TurnState
    BY NoTurnType, NewTurn
  <2>3. TurnsInv'
    BY <1>4, <2>2 DEF ChatRestart, TurnsInv, Frugal
  <2>4. NoRequest \in [session : Session \cup {None}, id : 0 .. MaxId]
    BY ChatMemoryAssumption DEF NoRequest
  <2>5. RequestsInv'
    BY <1>4, <2>4 DEF ChatRestart, ChatInv, RequestsInv, NoTurn
  <2> QED BY <2>1, <2>3, <2>5 DEF ChatInv
<1>5. CASE Tick
  <2>1. /\ now' \in 0 .. MaxTime
        /\ UNCHANGED <<turn, sessions, stored, lost, request, reader, started>>
    BY <1>5, ChatMemoryAssumption DEF Tick, memoryVars, ChatInv, MemoryInv, MemoryTyped
  <2>2. MemoryInv'
    BY <2>1, MemoryStays DEF ChatInv
  <2> QED BY <2>1, <2>2 DEF ChatInv, TurnsInv, RequestsInv, Frugal
<1>6. CASE UNCHANGED chatVars
  <2>1. MemoryInv'
    BY <1>6, MemoryStays DEF chatVars, ChatInv, MemoryInv, MemoryTyped
  <2> QED BY <1>6, <2>1 DEF chatVars, ChatInv, TurnsInv, RequestsInv, Frugal
<1> QED BY <1>1, <1>2, <1>3, <1>4, <1>5, <1>6, StartStep, WorkStep, FinishStep
           DEF ChatNext, Proceed

LEMMA ChatStarts ==
  ASSUME ChatInit
  PROVE  ChatInv
<1>1. Frugal(NoTurn) /\ NoTurn \in TurnState /\ NoTurn.pc = "idle"
  BY NoTurnType, NewTurn DEF NoTurn
<1>2. TurnsInv
  BY <1>1 DEF ChatInit, TurnsInv
<1>3. NoRequest \in [session : Session \cup {None}, id : 0 .. MaxId]
  BY ChatMemoryAssumption DEF NoRequest
<1>4. RequestsInv
  BY <1>1, <1>3, ChatMemoryAssumption DEF ChatInit, RequestsInv
<1>5. MemoryInv
  BY ChatMemoryAssumption DEF ChatInit, MemoryInv, MemoryTyped, MemorySound, MemoryKeepsRow
<1> QED BY <1>2, <1>4, <1>5 DEF ChatInv

LEMMA ChatInductive == ChatSpec => []ChatInv
<1>1. ChatInv /\ [ChatNext]_chatVars => ChatInv'
  BY ChatStep
<1>2. ChatInit => ChatInv
  BY ChatStarts
<1> QED BY <1>1, <1>2, PTL DEF ChatSpec

\* Requests, sessions and rows hold what they may, for every number of clients,
\* conversations, turns and ticks.
THEOREM ChatStaysTyped == ChatSpec => []ChatTyped
<1>1. ChatInv => ChatTyped
  BY DEF ChatInv, TurnsInv, MemoryInv, MemoryTyped, RequestsInv, ChatTyped
<1> QED BY <1>1, ChatInductive, PTL

\* For any number of rounds, calls per completion and turns under way, a turn
\* dispatches no more tools than its budget (direct_chat_turn).
THEOREM ToolBudgetHolds == ChatSpec => []CallsInBudget
<1>1. ChatInv => CallsInBudget
  BY DEF ChatInv, TurnsInv, Frugal, CallsInBudget
<1> QED BY <1>1, ChatInductive, PTL

\* Whatever turns overlap, and whichever loads and writes fail, the session in
\* memory has the turns of its row but for those a failed load or a late
\* transcript thread dropped, or MaxTurns others.
THEOREM MemoryIsNotBehind == ChatSpec => []MemoryKeepsRow
<1>1. ChatInv => MemoryKeepsRow
  BY DEF ChatInv, MemoryInv
<1> QED BY <1>1, ChatInductive, PTL

\* A question that its latest turn settled is not pending, whatever overlapped
\* and whatever was restored (_update_from_response, _push_pending_question).
THEOREM SettledStaysSettled == ChatSpec => []SettledNotPending
<1>1. ChatInv => SettledNotPending
  BY DEF ChatInv, MemoryInv, MemorySound, Sound, SettledNotPending
<1> QED BY <1>1, ChatInductive, PTL
=============================================================================
