------------------------- MODULE MCDeviceDiscovery -------------------------
(***************************************************************************)
(* A border router, a sleepy Matter device and a router device that Home   *)
(* Assistant knows by its Thread connection.                               *)
(***************************************************************************)
EXTENDS DeviceDiscovery

CONSTANTS br, sed, rtr

\* Both devices registered, one removed, or the other.
MCRegistries == {{sed, rtr}, {sed}}

Saw(neighbors, routes, partition) ==
  [neighbor_table |-> neighbors, route_table |-> routes, partition |-> partition]

Mesh(fromBr, fromSed, fromRtr) ==
  [n \in Eui |-> CASE n = br -> fromBr [] n = sed -> fromSed [] n = rtr -> fromRtr]

Whole == Mesh(Saw({rtr}, {br, rtr}, 1), Saw({rtr}, {}, 1), Saw({sed, br}, {br, rtr}, 1))

\* The router left the Matter fabric; only the border router still hears it.
\* The sleepy device is on its own.
Apart == Mesh(Saw({rtr}, {br}, 1), Saw({}, {}, 2), None)

\* Two partitions with a reporter each.
Parted == Mesh(Saw({rtr}, {br, rtr}, 1), Saw({}, {}, 2), Saw({br}, {br, rtr}, 1))

MCMeshes == {Whole, Parted, Apart}

\* For two runs at once: the meshes that differ most.
MCMeshesOfTwo == {Parted, Apart}

Reach(ofSed, ofRtr) ==
  [n \in Eui |-> IF n = sed THEN ofSed ELSE IF n = rtr THEN ofRtr ELSE "unknown"]

MCReaches == {Reach("no", "yes")}
=============================================================================
