---------------------------- MODULE ObserverEvents ----------------------------
(***************************************************************************)
(* The outage windows of pipeline/observer_events.py: each poll asks the   *)
(* Supervisor for the state of every tracked add-on and compares it with   *)
(* the state the previous poll cached in memory; the windows themselves    *)
(* are rows of the observer_events table.                                  *)
(*                                                                         *)
(* A poll is a stage of a pipeline tick, and a tick is started by the      *)
(* background loop or by a request, so polls overlap.  The only awaits of  *)
(* a poll are its requests: handling an answer is one action.              *)
(***************************************************************************)
EXTENDS Naturals, Sequences, Absent

CONSTANTS
  Poll,         \* polls that can be in flight
  Loop,         \* the one the background loop starts
  Slugs,        \* TRACKED_SLUGS, in order
  Self,         \* the add-on itself
  State,        \* the states the Supervisor reports
  Error,        \* the request failed
  MaxChanges,   \* bound: how often an add-on changes state
  MaxRestarts,  \* bound: how often the service restarts
  MaxFailures   \* bound: how many writes to the database fail

Started == "started"
Slug    == {Slugs[i] : i \in DOMAIN Slugs}

ASSUME SlugAssumption ==
  /\ Slugs \in Seq(Slug) /\ Slugs # << >> /\ Self \in Slug
  /\ Loop \in Poll /\ Started \in State
  /\ None \notin State \cup {Error} \cup Nat /\ Error \notin State
  /\ {MaxChanges, MaxRestarts, MaxFailures} \subseteq Nat

VARIABLES
  addon,      \* the state of each add-on
  rows,       \* observer_events, by id: whose window, and whether ended_at is NULL
  seen,       \* _last_state
  open,       \* _open_event_ids
  poll,       \* where each poll stands
  count,      \* how often each bounded event has happened
  healthy,    \* history: add-ons this process has seen started
  born        \* history: how many rows there were when it started

vars == <<addon, rows, seen, open, poll, count, healthy, born>>

IdlePoll == [at |-> 0, answer |-> None]

\* record_self_start: a window that is closed already.
Marker == [slug |-> Self, open |-> FALSE]

Init ==
  /\ addon \in [Slug -> State]
  /\ rows = <<Marker>>
  /\ seen = [s \in Slug |-> None] /\ open = [s \in Slug |-> None]
  /\ poll = [p \in Poll |-> IdlePoll]
  /\ count = [changes |-> 0, restarts |-> 0, failures |-> 0]
  /\ healthy = {} /\ born = 0

Begin(p) ==
  /\ poll[p].at = 0
  /\ poll' = [poll EXCEPT ![p].at = 1]
  /\ UNCHANGED <<addon, rows, seen, open, count, healthy, born>>

\* The Supervisor answers, or the request fails; the answer may reach the
\* poll after the answers to later requests of other polls.
Ask(p) ==
  /\ poll[p].at > 0 /\ poll[p].answer = None
  /\ \E answer \in {addon[Slugs[poll[p].at]], Error} :
       poll' = [poll EXCEPT ![p].answer = answer]
  /\ UNCHANGED <<addon, rows, seen, open, count, healthy, born>>

Advance(p) ==
  poll' = [poll EXCEPT ![p] = [at |-> IF @.at = Len(Slugs) THEN 0 ELSE @.at + 1,
                               answer |-> None]]

\* Broken: a first observation of an add-on that is down opens a window; only
\* one of the states it can be down in closes it.
OpensUnseen(s, answer) == seen[s] \in {None, Started} /\ answer # Started

ClosesStopped(s, answer) == seen[s] = "stopped" /\ answer = Started /\ open[s] # None

Opens(s, answer)  == seen[s] = Started /\ answer # Started
Closes(s, answer) == seen[s] \notin {None, Started} /\ answer = Started /\ open[s] # None

\* Broken: the id is read but not removed.
ForgetNothing(s) == open

\* _open_event_ids.pop
Forget(s) == [open EXCEPT ![s] = None]

\* An answer is cached, and a window opened or closed if it is a transition.
Handle(p) ==
  LET s == Slugs[poll[p].at]
      answer == poll[p].answer
  IN /\ poll[p].at > 0 /\ answer \in State
     /\ seen' = [seen EXCEPT ![s] = answer]
     /\ healthy' = IF answer = Started THEN healthy \cup {s} ELSE healthy
     /\ \/ /\ Opens(s, answer)
           /\ rows' = Append(rows, [slug |-> s, open |-> TRUE])
           /\ open' = [open EXCEPT ![s] = Len(rows')]
        \/ /\ Closes(s, answer)
           /\ rows' = [rows EXCEPT ![open[s]].open = FALSE]
           /\ open' = Forget(s)
        \/ /\ ~Opens(s, answer) /\ ~Closes(s, answer)
           /\ UNCHANGED <<rows, open>>
     /\ Advance(p)
     /\ UNCHANGED <<addon, count, born>>

\* A request that failed is skipped.
Skip(p) ==
  /\ poll[p].answer = Error
  /\ Advance(p)
  /\ UNCHANGED <<addon, rows, seen, open, count, healthy, born>>

\* The write fails: the exception ends the poll, after the state was cached and
\* the window's id forgotten.
WriteFails(p) ==
  LET s == Slugs[poll[p].at]
      answer == poll[p].answer
  IN /\ poll[p].at > 0 /\ answer \in State
     /\ count.failures < MaxFailures
     /\ count' = [count EXCEPT !.failures = @ + 1]
     /\ Opens(s, answer) \/ Closes(s, answer)
     /\ seen' = [seen EXCEPT ![s] = answer]
     /\ healthy' = IF answer = Started THEN healthy \cup {s} ELSE healthy
     /\ open' = IF Closes(s, answer) THEN Forget(s) ELSE open
     /\ poll' = [poll EXCEPT ![p] = IdlePoll]
     /\ UNCHANGED <<addon, rows, born>>

\* The service restarts: the caches are lost, the rows stay.
Restart ==
  /\ count.restarts < MaxRestarts
  /\ count' = [count EXCEPT !.restarts = @ + 1]
  /\ rows' = Append(rows, Marker)
  /\ seen' = [s \in Slug |-> None] /\ open' = [s \in Slug |-> None]
  /\ poll' = [p \in Poll |-> IdlePoll]
  /\ healthy' = {} /\ born' = Len(rows)
  /\ UNCHANGED addon

AddonChanges ==
  /\ count.changes < MaxChanges
  /\ count' = [count EXCEPT !.changes = @ + 1]
  /\ \E s \in Slug, state \in State :
       addon[s] # state /\ addon' = [addon EXCEPT ![s] = state]
  /\ UNCHANGED <<rows, seen, open, poll, healthy, born>>

Next ==
  \/ \E p \in Poll : Begin(p) \/ Ask(p) \/ Handle(p) \/ Skip(p) \/ WriteFails(p)
  \/ Restart
  \/ AddonChanges

Spec == Init /\ [][Next]_vars

\* The loop polls again and again; requests to the Supervisor have a timeout, and
\* they do not fail for ever (SF: an answer keeps being possible).  Other polls
\* need not go on.
Fairness ==
  /\ WF_vars(Begin(Loop)) /\ WF_vars(Ask(Loop))
  /\ WF_vars(Handle(Loop)) /\ WF_vars(Skip(Loop))
  /\ \A s \in Slug :
       SF_vars(Ask(Loop) /\ Slugs[poll[Loop].at] = s /\ poll'[Loop].answer # Error)

FairSpec == Spec /\ Fairness
-----------------------------------------------------------------------------
(* properties *)

\* The caches and the rows have the types the module's dictionaries have.
TypeOK ==
  /\ addon \in [Slug -> State]
  /\ rows \in Seq([slug : Slug, open : BOOLEAN])
  /\ seen \in [Slug -> State \cup {None}]
  /\ open \in [Slug -> DOMAIN rows \cup {None}]
  /\ poll \in [Poll -> [at : 0 .. Len(Slugs), answer : State \cup {None, Error}]]
  /\ count \in [changes : 0 .. MaxChanges, restarts : 0 .. MaxRestarts,
                failures : 0 .. MaxFailures]
  /\ healthy \subseteq Slug
  /\ born \in 0 .. Len(rows)

\* The window an id in memory points at is that add-on's, is still open, and
\* belongs to an add-on last seen down: no order of late answers, failed writes
\* and restarts makes a poll close another outage, or the same one twice.
IdsPointAtOpenWindows ==
  \A s \in Slug : open[s] # None =>
    /\ rows[open[s]] = [slug |-> s, open |-> TRUE]
    /\ seen[s] \notin {None, Started}

\* An add-on that went down while this process watched it has one open window,
\* and one that has not has none, unless a write failed: overlapping polls never
\* record an outage twice.
OneWindowPerOutage ==
  count.failures = 0 =>
    \A s \in Slug :
      LET windows == {i \in born + 1 .. Len(rows) : rows[i] = [slug |-> s, open |-> TRUE]}
      IN IF s \in healthy /\ seen[s] # Started
         THEN \E i \in windows : windows = {i} /\ open[s] = i
         ELSE windows = {}

\* An add-on that is up for good has no open window of this process's in the
\* end, in whatever order the answers of overlapping polls arrive.
WatchedOutagesEnd ==
  \A s \in Slug :
    <>[](addon[s] = Started /\ count.failures = 0)
      => <>[](\A i \in born + 1 .. Len(rows) : rows[i].slug = s => ~rows[i].open)
=============================================================================
