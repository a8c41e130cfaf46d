------------------------------ MODULE MCClients ------------------------------
(* An instance of Clients for TLC: three clients for two ships, so that one   *)
(* crew can have two members and one ship can leave under the other.          *)
EXTENDS Clients, TLC

CONSTANTS c1, c2, c3, eagle, heron, reader, writer

ThreeConnections == {c1, c2, c3}
TwoShips == {eagle, heron}
TwoRoles == {reader, writer}
ClientSymmetry ==
    Permutations(ThreeConnections) \cup Permutations(TwoShips) \cup Permutations(TwoRoles)
==============================================================================
