--------------------------- MODULE MCObserverEvents ---------------------------
(* Instances of ObserverEvents: one or two add-ons, the loop and a request. *)
EXTENDS ObserverEvents

CONSTANTS self, otbr

One == <<otbr>>
Two == <<self, otbr>>
=============================================================================
