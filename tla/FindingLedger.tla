----------------------------- MODULE FindingLedger -----------------------------
(***************************************************************************)
(* What the assessment findings promise their readers: a board with at     *)
(* most one card for each finding key. A concern puts up a card or counts  *)
(* one more report on the card that hangs there, whose id and verdict      *)
(* stay; the card is taken down as a whole; and an id is never used twice. *)
(* Who reports, clears, dismisses or answers, and in which order, does not *)
(* show.                                                                   *)
(***************************************************************************)
EXTENDS Naturals

CONSTANTS Key, Id, Verdict

VARIABLES
  board,   \* the card of each key, if one hangs there: a set of at most one
  used     \* the ids of all cards so far

Card(i, v, n) == [id |-> i, verdict |-> v, seen |-> n]

Init ==
  /\ board = [k \in Key |-> {}]
  /\ used = {}

PutUp(k) ==
  /\ board[k] = {}
  /\ \E i \in Id \ used, v \in Verdict :
       /\ board' = [board EXCEPT ![k] = {Card(i, v, 1)}]
       /\ used' = used \cup {i}

Count(k) ==
  /\ \E card \in board[k] :
       board' = [board EXCEPT ![k] = {Card(card.id, card.verdict, card.seen + 1)}]
  /\ UNCHANGED used

TakeDown(k) ==
  /\ board[k] # {}
  /\ board' = [board EXCEPT ![k] = {}]
  /\ UNCHANGED used

Next == \E k \in Key : PutUp(k) \/ Count(k) \/ TakeDown(k)

Spec == Init /\ [][Next]_<<board, used>>
=============================================================================
