------------------------- MODULE MCAssessmentFindings -------------------------
(* Instances of AssessmentFindings. *)
EXTENDS AssessmentFindings
=============================================================================
