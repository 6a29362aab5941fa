------------------------------ MODULE DirectChat ------------------------------
(***************************************************************************)
(* One turn of the direct chat: services/direct_chat.py, direct_chat_turn. *)
(*                                                                         *)
(* The handler gathers evidence, then asks the model up to Rounds times.   *)
(* A completion either calls tools, which are run within the budget and    *)
(* answered, or is a candidate answer, which a second model audits.  The   *)
(* audit may send the candidate back once to be rewritten and once for     *)
(* more evidence; each of these uses up a round.                           *)
(*                                                                         *)
(* A text is abstracted to where it comes from, a question to the classes  *)
(* the keyword tests put it in, the trace to the tools that answered with  *)
(* data.  Prompts, policies, compaction and the transcript are left out.   *)
(***************************************************************************)
EXTENDS Naturals

CONSTANTS
  Client,       \* chat requests that can be under way at a time
  Question,     \* bound: questions, by the classes of phrases they contain
  Called,       \* bound: tools the model calls
  Rounds,       \* completions a turn may ask for: _MAX_TOOL_ROUNDS + 1
  MaxCalls,     \* _MAX_TOOL_CALLS
  MaxBatch      \* bound: tool calls in one completion

\* What the keyword tests look for in a question: see Evidence and ExactCount.
Phrase == {"node", "eui64", "risk", "health", "split", "current", "exact"}

\* Tools the chat offers, read tools it keeps for itself; all others are refused.
Offered  == {"analyze_node", "query_history", "list_topology_history",
             "get_storage_stats", "web_search"}
Excluded == {"get_health_snapshot", "get_mesh_state"}

ASSUME DirectChatAssumption ==
  /\ Question \subseteq SUBSET Phrase
  /\ Rounds \in Nat \ {0}
  /\ MaxCalls \in Nat
  /\ MaxBatch \in Nat \ {0}

\* Tools whose calls are refused unless they name nodes by EUI64.
NodeTools == {"analyze_node", "get_counter_series", "compare_node_counters",
              "get_signal_series", "get_node_link_signal_history"}

\* "": none yet; candidate: of a completion; the others are made by the loop.
Text == {"", "candidate", "exact", "forced", "apology"}

VARIABLE turn   \* the locals of the turn of each client

\* calls: calls of the last completion that are still to run; used and run: calls
\* counted and calls dispatched; traced: the trace has a row, with data or not;
\* asked: the attempt after the loop was made.
NoTurn == [pc |-> "idle", question |-> {}, round |-> 0, calls |-> 0, used |-> 0,
           run |-> 0, asked |-> FALSE, trace |-> {}, traced |-> FALSE,
           rewrites |-> 0, gathers |-> 0, text |-> ""]

TurnState ==
  [pc : {"idle", "proxy", "gather", "complete", "tools", "audit", "force", "after", "done"},
   question : Question \cup {{}}, round : 0 .. Rounds, calls : 0 .. MaxBatch,
   used : Nat, run : Nat, asked : BOOLEAN,
   trace : SUBSET (Offered \cup Excluded), traced : BOOLEAN,
   rewrites : 0 .. 1, gathers : 0 .. 1, text : Text]
-----------------------------------------------------------------------------
(* helpers *)

To(c, pc)      == turn' = [turn EXCEPT ![c].pc = pc]
Answer(c, txt) == turn' = [turn EXCEPT ![c] = [NoTurn EXCEPT !.pc = "done", !.text = txt]]

\* _dispatch_chat_tool: the tools that are run at all.
Allowed(tool, allow_excluded) == tool \in Offered \/ (allow_excluded /\ tool \in Excluded)

Ran(tools, allow_excluded) == {t \in tools : Allowed(t, allow_excluded)}

\* _gather_backend_node_evidence runs its tools as the model would, without
\* the excluded ones; _prefetch_turn_evidence may run those.
NodeEvidence    == Ran({"analyze_node", "query_history", "get_mesh_state"}, FALSE)
CurrentEvidence == Ran({"get_health_snapshot", "get_mesh_state"}, TRUE)

\* _looks_like_current_state_question
AsksNow(question) == question \cap {"risk", "health", "split", "current"} # {}

Evidence(question) ==
  (IF {"node", "eui64"} \subseteq question THEN NodeEvidence ELSE {})
    \cup (IF AsksNow(question) THEN CurrentEvidence ELSE {})

\* _build_exact_count_response
ExactCount(t) == /\ "exact" \in t.question
                 /\ {"list_topology_history", "get_storage_stats"} \subseteq t.trace

\* Broken: one completion too many.
NextRoundLate(t) ==
  IF t.round <= Rounds THEN [t EXCEPT !.pc = "complete", !.round = @ + 1]
                       ELSE [t EXCEPT !.pc = "after"]

\* The loop goes on to its next completion, or is over.
NextRound(t) ==
  IF t.round < Rounds THEN [t EXCEPT !.pc = "complete", !.round = @ + 1]
                      ELSE [t EXCEPT !.pc = "after"]
-----------------------------------------------------------------------------
(* steps; each ends at an await of the handler *)

Gather(c) ==
  LET found == Evidence(turn[c].question)
  IN /\ turn[c].pc = "gather"
     /\ turn' = [turn EXCEPT ![c] = NextRound([turn[c] EXCEPT !.trace = found,
                                                             !.traced = found # {}])]

\* The model answers: with tool calls, or with a text that may be empty.
Complete(c) ==
  /\ turn[c].pc = "complete"
  /\ \/ \E n \in 1 .. MaxBatch :
          turn' = [turn EXCEPT ![c].pc = "tools", ![c].calls = n]
     \/ \E text \in {"", "candidate"} :
          turn' = [turn EXCEPT ![c].pc = "audit", ![c].text = text]

\* Broken: the budget is looked at before the call is counted.
WithinBudgetLate(used) == used <= MaxCalls

\* used counts the calls before this one.
WithinBudget(used) == used < MaxCalls

\* One call: counted, then run, invalid or refused; it is in the trace anyway.
RunTool(c) ==
  LET t == turn[c]
  IN /\ t.pc = "tools" /\ t.calls > 0
     /\ \E tool \in Called : \E valid \in IF tool \in NodeTools THEN BOOLEAN ELSE {TRUE} :
          LET runs == WithinBudget(t.used) /\ valid /\ Allowed(tool, FALSE)
          IN turn' = [turn EXCEPT ![c].calls = @ - 1, ![c].used = @ + 1, ![c].traced = TRUE,
                                  ![c].run = IF runs THEN @ + 1 ELSE @,
                                  ![c].trace = IF runs THEN @ \cup {tool} ELSE @]

ToolsDone(c) ==
  LET t == turn[c]
  IN /\ t.pc = "tools" /\ t.calls = 0
     /\ \/ ExactCount(t) /\ Answer(c, "exact")
        \/ ~ExactCount(t) /\ t.used > MaxCalls /\ To(c, "force")
        \/ /\ ~ExactCount(t) /\ t.used <= MaxCalls
           /\ turn' = [turn EXCEPT ![c] = NextRound(t)]

\* What the auditing model says, as far as it decides: the repair it wants,
\* whether it names missing tools and calls for a rewrite.
Review == [action : {"accept", "rewrite_once", "gather_missing_evidence_once"},
           missing : BOOLEAN, rewrite_needed : BOOLEAN]

\* _parse_audit_verdict: an audit that fails, cannot be parsed or names an
\* unknown action reads as one that accepts; a complaint beside it repairs.
RepairAction(review) ==
  IF review.action # "accept" THEN review.action
  ELSE IF review.missing THEN "gather_missing_evidence_once"
  ELSE IF review.rewrite_needed THEN "rewrite_once"
  ELSE "accept"

\* Each repair is done once; a candidate that would need it again is taken.
Audit(c) ==
  LET t == turn[c]
  IN /\ t.pc = "audit"
     /\ \E review \in Review :
          LET repair   == RepairAction(review)
              gathers  == repair = "gather_missing_evidence_once" /\ t.gathers < 1
              rewrites == repair = "rewrite_once" /\ t.rewrites < 1
          IN \/ /\ gathers
                /\ turn' = [turn EXCEPT ![c] = NextRound([t EXCEPT !.gathers = 1, !.text = ""])]
             \/ /\ rewrites
                /\ turn' = [turn EXCEPT ![c] = NextRound([t EXCEPT !.rewrites = 1, !.text = ""])]
             \/ ~gathers /\ ~rewrites /\ To(c, "after")

\* _force_answer_from_existing_evidence
ForceAnswer(c) ==
  /\ turn[c].pc = "force"
  /\ \E text \in {"", "forced"} :
       turn' = [turn EXCEPT ![c].pc = "after", ![c].text = text]

\* Broken: the model is asked until it says something.
MayAskAgain(t) == t.traced

\* Without a text there is one more attempt, if anything was gathered.
MayAsk(t) == t.traced /\ ~t.asked

LastResort == "apology"

After(c) ==
  LET t == turn[c]
  IN /\ t.pc = "after"
     /\ \/ t.text # "" /\ Answer(c, t.text)
        \/ /\ t.text = "" /\ MayAsk(t)
           /\ turn' = [turn EXCEPT ![c].pc = "force", ![c].asked = TRUE]
        \/ t.text = "" /\ ~MayAsk(t) /\ Answer(c, LastResort)

LoopStep(c) ==
  \/ Gather(c) \/ Complete(c) \/ RunTool(c) \/ ToolsDone(c)
  \/ Audit(c) \/ ForceAnswer(c) \/ After(c)

\* Awaits that can raise: the model (also malformed calls) and the web search.
MayFail(c) == \/ turn[c].pc \in {"complete", "force", "proxy"}
              \/ turn[c].pc = "tools" /\ WithinBudget(turn[c].used) /\ "web_search" \in Called
=============================================================================
