------------------------ MODULE MCAssessmentScheduler ------------------------
(* Instances of AssessmentScheduler: two callers. *)
EXTENDS AssessmentScheduler

CONSTANTS t1, t2

\* Between them the threads call every operation, and each runs assessments.
MCCalls == [c \in Caller |-> IF c = t1 THEN {"snapshot", "decide", "engage"}
                                       ELSE {"force", "enable", "disable"}]

\* Two requests to run now.
MCRunNow == [c \in Caller |-> {"force"}]
=============================================================================
