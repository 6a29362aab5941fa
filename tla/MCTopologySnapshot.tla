-------------------------- MODULE MCTopologySnapshot --------------------------
(* Instances of TopologySnapshot: two routers that may name each other as child
   or have attached to each other. *)
EXTENDS TopologySnapshot

\* To begin with the first router is shown. The second one may be a phantom that
\* is reported as a router, if at all; or shown, reported, and attached to the
\* first; or shown, and the two may report each other as routers do.
MCInit ==
  /\ Init
  /\ nodes[1] # None /\ attached[1] = None
  /\ nodes[2] = None => attached[2] = None /\ links[<<1, 2>>] # "child"
  /\ attached[2] # None => attached[2] = 1 /\ links[<<1, 2>>] # NoLink /\ links[<<2, 1>>] = NoLink
  /\ links[<<2, 1>>] # NoLink => nodes[2] # None /\ links[<<1, 2>>] = "plain" /\ links[<<2, 1>>] = "plain"

MCSpec == MCInit /\ [][Next]_vars /\ Fairness
=============================================================================
