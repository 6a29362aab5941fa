----------------------------- MODULE RadioHistory -----------------------------
(***************************************************************************)
(* What discovery keeps of the radio: the counters of a node and the links *)
(* of a reporter.  They share the clock and the restarts.                  *)
(***************************************************************************)
EXTENDS CounterSamples, LinkSignals

CONSTANT Start   \* the first tick; where in a bucket it is

ASSUME StartAssumption == Start \in Nat /\ Start <= MaxTime

vars == <<counterVars, linkVars, now>>

Init == CounterInit /\ LinkInit /\ now = Start

Counters == CounterNext /\ UNCHANGED <<linkVars, now>>

Links == LinkNext(now) /\ UNCHANGED <<counterVars, now>>

\* The start of the service wipes the links, and keeps both histories.
Restart ==
  /\ run' = [r \in Run |-> NoRun] /\ rich' = << >>
  /\ RestartLinks
  /\ UNCHANGED <<count, samples, newest, broken, recorded, now>>

Tick == now < MaxTime /\ now' = now + 1 /\ UNCHANGED <<counterVars, linkVars>>

Next == Counters \/ Links \/ Restart \/ Tick

Spec == Init /\ [][Next]_vars

\* Both tables hold what they may.
TypeOK == now \in Start .. MaxTime /\ CountersTyped /\ LinksTyped
=============================================================================
