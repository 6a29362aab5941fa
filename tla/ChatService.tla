------------------------------ MODULE ChatService ------------------------------
(***************************************************************************)
(* The chat requests of api/http_api.py over DirectChat and ChatMemory.    *)
(*                                                                         *)
(* A request builds the context of its session, awaits an answer, from the *)
(* loop of DirectChat or from Home Assistant, and records the turn.  The   *)
(* handler runs in the event loop, so the part between two awaits is one   *)
(* step; the transcript route is a plain function and runs in a thread, so *)
(* its look-up and its store are two.  A request that is refused, and the  *)
(* telemetry, change nothing any part decides by and are left out.         *)
(***************************************************************************)
EXTENDS DirectChat, ChatMemory

CONSTANT Direct   \* clients whose agent is the direct model; the others ask Home Assistant

ASSUME DirectAssumption == Direct \subseteq Client

VARIABLES
  request,   \* what the handler of each client holds
  reader,    \* the row the transcript thread has loaded
  started    \* turns started; a turn's id

memoryVars == <<sessions, stored, lost>>
chatVars == <<turn, sessions, stored, now, lost, request, reader, started>>

NoRequest == [session |-> None, id |-> 0]

ChatInit ==
  /\ turn = [c \in Client |-> NoTurn]
  /\ sessions = [s \in Session |-> None]
  /\ stored = [s \in Session |-> None]
  /\ now = 0 /\ lost = {} /\ started = 0
  /\ request = [c \in Client |-> NoRequest]
  /\ reader = None
-----------------------------------------------------------------------------
(* the chat_turn handler *)

\* The row of the session is loaded for the prompt, unless the read fails. The
\* message and the options are those of this moment; as nothing looks at them
\* before the turn is recorded, Finish chooses them.
Start(c) ==
  /\ turn[c].pc = "idle" /\ started < MaxId
  /\ \E s \in Session, question \in Question :
       /\ request' = [request EXCEPT ![c] = [session |-> s, id |-> started + 1]]
       /\ turn' = [turn EXCEPT ![c] =
                     IF c \in Direct THEN [NoTurn EXCEPT !.pc = "gather", !.question = question]
                                     ELSE [NoTurn EXCEPT !.pc = "proxy"]]
       /\ LoadContext(s) \/ UNCHANGED sessions
  /\ started' = started + 1
  /\ UNCHANGED <<stored, now, lost, reader>>

Work(c) == LoopStep(c) /\ UNCHANGED <<memoryVars, now, request, reader, started>>

Idled(c) == /\ turn' = [turn EXCEPT ![c] = NoTurn]
            /\ request' = [request EXCEPT ![c] = NoRequest]
            /\ UNCHANGED <<now, reader, started>>

\* The answer is recorded and returned.  An apology settles nothing; another
\* answer settles the question unless its words say otherwise.
Finish(c) ==
  /\ turn[c].pc \in {"done", "proxy"}
  /\ Idled(c)
  /\ \E asks \in Asked \cup {None}, resolved, written, fails \in BOOLEAN :
       /\ resolved => asks # None /\ turn[c].text # "apology"
       /\ RecordTurn(request[c].session,
                     [id |-> request[c].id, asks |-> asks, resolved |-> resolved],
                     written, fails)

\* An exception ends the request, and so does an answer of Home Assistant that
\* names no conversation; nothing is recorded.
Fail(c) == MayFail(c) /\ Idled(c) /\ UNCHANGED memoryVars
-----------------------------------------------------------------------------
(* the chat_transcript route *)

LookUp(s) ==
  /\ reader = None /\ sessions[s] = None /\ stored[s] # None
  /\ reader' = [session |-> s, state |-> stored[s].state]
  /\ UNCHANGED <<turn, memoryVars, now, request, started>>

\* The loaded state becomes the session, whatever is there by now.
Show ==
  /\ reader # None
  /\ LET s    == reader.session
         seen == UNION {IF x = None THEN {} ELSE Ids(x) :
                          x \in {sessions[s], IF stored[s] = None THEN None ELSE stored[s].state}}
     IN /\ sessions' = [sessions EXCEPT ![s] = reader.state]
        /\ lost' = lost \cup (seen \ Ids(reader.state))
  /\ reader' = None
  /\ UNCHANGED <<turn, stored, now, request, started>>
-----------------------------------------------------------------------------
\* The service restarts: only the table stays.
ChatRestart ==
  /\ turn' = [c \in Client |-> NoTurn]
  /\ request' = [c \in Client |-> NoRequest]
  /\ sessions' = [s \in Session |-> None]
  /\ reader' = None
  /\ UNCHANGED <<stored, now, lost, started>>

Tick == now < MaxTime /\ now' = now + 1
        /\ UNCHANGED <<turn, memoryVars, request, reader, started>>

Proceed(c) == Work(c) \/ Finish(c)

ChatNext ==
  \/ \E c \in Client : Start(c) \/ Proceed(c) \/ Fail(c)
  \/ \E s \in Session : LookUp(s)
  \/ Show \/ ChatRestart \/ Tick

ChatSpec == ChatInit /\ [][ChatNext]_chatVars

\* Every await of a request ends, with an answer or a timeout.
ChatFairSpec == ChatSpec /\ \A c \in Client : WF_chatVars(Proceed(c))
-----------------------------------------------------------------------------
(* properties *)

\* The locals of the requests, the sessions and the rows hold what they may.
ChatTyped ==
  /\ turn \in [Client -> TurnState]
  /\ sessions \in [Session -> SessionState \cup {None}]
  /\ stored \in [Session -> Row \cup {None}]
  /\ now \in 0 .. MaxTime
  /\ lost \subseteq 1 .. MaxId
  /\ request \in [Client -> [session : Session \cup {None}, id : 0 .. MaxId]]
  /\ reader = None \/ reader \in [session : Session, state : SessionState]
  /\ started \in 0 .. MaxId

\* However the model batches its calls over the rounds of a turn, no more than
\* _MAX_TOOL_CALLS are dispatched.
CallsInBudget == \A c \in Client : turn[c].run <= MaxCalls

\* The session in memory is never behind its row, so that the next persisted
\* turn overwrites no other: short of a failed load or a transcript thread that
\* stores what it read before a turn, every turn of the row is in memory or
\* was pushed out by MaxTurns newer ones.
MemoryKeepsRow ==
  \A s \in Session : sessions[s] # None /\ stored[s] # None =>
    \/ Ids(stored[s].state) \subseteq Ids(sessions[s]) \cup lost
    \/ Len(sessions[s].turns) = MaxTurns

\* No question whose latest turn settled it is pending. A question counts as the
\* latest turn that is kept under the same text; if that text was cut before a
\* blank, the code settles another text than it keeps, and nothing is said.
Settled(turns, pending) ==
  \A i \in DOMAIN turns :
    (/\ turns[i].resolved /\ Kept(turns[i].asks) = turns[i].asks
     /\ \A j \in 1 .. i - 1 : Kept(turns[j].asks) # turns[i].asks)
      => \A k \in DOMAIN pending : pending[k] # turns[i].asks

\* A question that its latest turn settled is pending in no session, in memory
\* or restored from its row, whatever turns overlapped: unless it was longer than
\* _MAX_GOAL_CHARS and cut before a blank, which the code leaves pending
\* (chat_memory.py:169, :401, :413).
SettledNotPending ==
  \A s \in Session : sessions[s] # None => Settled(sessions[s].turns, sessions[s].pending)

\* Every request ends: rounds, calls, audits and forced answers are bounded.
TurnsEnd == \A c \in Client : turn[c].pc # "idle" ~> turn[c].pc = "idle"
=============================================================================
