--------------------------- MODULE MCPipelineRunner ---------------------------
(* Instances of PipelineRunner: the loop's tick and one that was requested. *)
EXTENDS PipelineRunner
=============================================================================
