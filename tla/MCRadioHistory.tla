---------------------------- MODULE MCRadioHistory ----------------------------
(* Instances of RadioHistory: one counter, one link of two signals. *)
EXTENDS RadioHistory, TLC

MCSignal == {[rssi |-> 0, rest |-> 0], [rssi |-> 2, rest |-> 1]}

\* A behavior follows one of the two tables: they share no state, and each
\* property is about one of them.
NoCounters == run = [r \in Run |-> NoRun] /\ recorded = {}
NoLinks    == /\ report = [r \in LinkRun |-> NoReport] /\ cache = None /\ last = [l \in Link |-> None]
              /\ air = [l \in Link |-> [session |-> 0, frames |-> 0]]

\* Three ticks are enough for the links.
MCNext ==
  \/ NoLinks /\ Counters
  \/ NoCounters /\ now < Start + 3 /\ Links
  \/ Restart
  \/ Tick

MCSpec == Init /\ [][MCNext]_vars

Runs == Permutations(LinkRun)
=============================================================================
