----------------------------- MODULE MCChatService -----------------------------
(* Instances of ChatService: one client of the direct model, one of Home
   Assistant, one conversation that both continue; a question, and a long one
   that is the same up to the blank it is cut after. *)
EXTENDS ChatService

CONSTANTS q, long
MCTrimmed == [x \in {q, long} |-> q]

MCQuestion == {{"exact"}, {"node", "eui64", "health"}}
MCCalled   == {"list_topology_history", "get_storage_stats", "analyze_node", "get_mesh_state"}
=============================================================================
