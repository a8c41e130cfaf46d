-------------------------- MODULE MCStarsystemSlots --------------------------
(* An instance of StarsystemSlots for TLC: one connection more than there are *)
(* entries, so that an entry and a descriptor are used again.                 *)
EXTENDS StarsystemSlots

CONSTANTS c1, c2, c3

ThreeConnections == {c1, c2, c3}
TwoSlots == 1 .. 2
ThreeDescriptors == 1 .. 3
===============================================================================
