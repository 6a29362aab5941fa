------------------------------ MODULE ChatMemory ------------------------------
(***************************************************************************)
(* The memory of chat sessions: services/chat_memory.py and the table      *)
(* chat_session_memory of storage/sqlite_store.py.                         *)
(*                                                                         *)
(* A session lives in the memory of the service and, when transcripts are  *)
(* persisted, in a row.  Every operation prunes first, then looks in the   *)
(* memory, then in the table, then starts anew.  Goal, focus, facts,       *)
(* hypotheses and recent tools are lists that are kept as the list of      *)
(* pending questions is: newest first, without repetition, capped.         *)
(***************************************************************************)
EXTENDS Naturals, Sequences, SequencesExt, Absent

CONSTANTS
  Session,      \* conversation ids
  Asked,        \* texts of questions, normalised and cut to _MAX_GOAL_CHARS
  Trimmed,      \* what normalising such a text again makes of it: a cut may end in a blank
  MaxTurns,     \* _MAX_TRANSCRIPT_TURNS
  MaxPending,   \* _MAX_PENDING_QUESTIONS
  Ttl,          \* _SESSION_TTL_SECONDS, in ticks
  Days,         \* retention.chat_days, in ticks
  MaxId,        \* bound: turns
  MaxTime       \* bound: ticks

ASSUME ChatMemoryAssumption ==
  /\ None \notin Asked
  /\ Trimmed \in [Asked -> Asked] /\ \A q \in Asked : Trimmed[Trimmed[q]] = Trimmed[q]
  /\ MaxId \in Nat /\ MaxTime \in Nat
  /\ MaxTurns \in Nat \ {0}
  /\ MaxPending \in Nat \ {0}
  /\ Ttl \in Nat /\ Days \in Nat
  /\ Ttl <= Days

\* asks: the question asked, if it is one; resolved: the answer settles it.
Turn == [id : 1 .. MaxId, asks : Asked \cup {None}, resolved : BOOLEAN]
SessionState ==
  [updated : 0 .. MaxTime, turns : SeqOf(Turn, MaxTurns), pending : SeqOf(Asked, MaxPending)]
Row == [state : SessionState, expires : Nat]

ASSUME NoSessionAssumption == None \notin SessionState /\ None \notin Row

VARIABLES
  sessions,   \* _sessions, in the memory of the service
  stored,     \* chat_session_memory
  now,
  lost        \* history: turns dropped by a failed load or a late transcript read

Ids(state) == {state.turns[i].id : i \in DOMAIN state.turns}

Fresh == [updated |-> now, turns |-> <<>>, pending |-> <<>>]

\* Newest first, capped; as nothing is twice in a list, to remove the first
\* occurrence is to remove all, as the code does.
Pushed(list, x, cap) == LET l == <<x>> \o RemoveFirst(list, x)
                        IN SubSeq(l, 1, IF Len(l) < cap THEN Len(l) ELSE cap)

\* _prune: idle sessions leave the memory; rows go a Ttl after they expired.
Idle(state)   == now - state.updated > Ttl
InMemory      == [s \in Session |-> IF sessions[s] # None /\ Idle(sessions[s])
                                    THEN None ELSE sessions[s]]
Expired(row)  == row.expires + Ttl < now
Unexpired     == [s \in Session |-> IF stored[s] # None /\ Expired(stored[s])
                                    THEN None ELSE stored[s]]

\* Broken: a session that is not in memory starts anew.
LoadedNever(rows, s) == Fresh

\* _load_persisted, and the new session when there is no row.
Loaded(rows, s) == IF rows[s] # None THEN [rows[s].state EXCEPT !.updated = now] ELSE Fresh

\* ensure_session after the prune; a load that fails finds no row.
Ensured(s, fails) ==
  CASE InMemory[s] # None -> [InMemory[s] EXCEPT !.updated = now]
    [] InMemory[s] = None /\ fails -> Fresh
    [] OTHER -> Loaded(Unexpired, s)

\* What is kept of a question that is pushed; nothing of a message that is none.
Kept(asks) == IF asks = None THEN None ELSE Trimmed[asks]

\* Broken: a question is settled before it is asked.
PendingSettledFirst(state, t) ==
  LET settled == IF t.resolved THEN RemoveFirst(state.pending, t.asks) ELSE state.pending
  IN IF t.asks = None THEN state.pending ELSE Pushed(settled, Kept(t.asks), MaxPending)

\* record_turn: the question is pending until an answer settles it. It is kept
\* trimmed, and settled by the text that was cut.
Pending(state, t) ==
  LET asked == Pushed(state.pending, Kept(t.asks), MaxPending)
  IN CASE t.asks = None -> state.pending
       [] t.asks # None /\ t.resolved -> RemoveFirst(asked, t.asks)
       [] OTHER -> asked

Turned(state, t) ==
  [state EXCEPT !.pending = Pending(state, t),
                !.turns = SubSeq(<<t>> \o @, 1, IF Len(@) < MaxTurns THEN Len(@) + 1 ELSE MaxTurns)]

\* The turns a failed load leaves behind.
Missed(s, fails) == IF fails /\ InMemory[s] = None /\ Unexpired[s] # None
                    THEN Ids(Unexpired[s].state) ELSE {}

\* record_turn, in one go of the event loop. The turn is not written when
\* transcripts are not persisted, or when the write fails.
RecordTurn(s, t, written, fails) ==
  LET state == Turned(Ensured(s, fails), t)
  IN /\ sessions' = [InMemory EXCEPT ![s] = state]
     /\ stored' = IF written
                  THEN [Unexpired EXCEPT ![s] = [state |-> state, expires |-> now + Days]]
                  ELSE Unexpired
     /\ lost' = lost \cup Missed(s, fails)

\* build_prompt_context: loads a row, however old, and does not prune.
LoadContext(s) ==
  sessions' = [sessions EXCEPT ![s] = IF @ = None /\ stored[s] # None THEN stored[s].state ELSE @]
=============================================================================
