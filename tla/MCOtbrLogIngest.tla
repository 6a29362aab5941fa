---------------------------- MODULE MCOtbrLogIngest ----------------------------
(* Instances of OtbrLogIngest: the loop of the core service and a tool call   *)
(* of the MCP service, two add-ons with logs of up to three lines and one.    *)
EXTENDS OtbrLogIngest, TLC

CONSTANTS core, mcp, loop, tool, a, b, x, y, z

LoopOnly    == loop :> core
LoopAndTool == loop :> core @@ tool :> mcp

ThreeAndOne == a :> 3 @@ b :> 1
OneAndOne   == a :> 1 @@ b :> 1

AllAndOne   == a :> {x, y, z} @@ b :> {x}
OneEach     == a :> {x} @@ b :> {x}
=============================================================================
