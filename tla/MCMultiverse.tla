----------------------------- MODULE MCMultiverse -----------------------------
(* Instances of Multiverse for TLC.                                           *)
EXTENDS Multiverse, TLC

CONSTANTS h1, h2, s1, s2, nosys, nobody

OneShip == {h1}
TwoShips == {h1, h2}
OneSystem == {s1}
TwoSystems == {s1, s2}
SystemSymmetry == Permutations(TwoSystems)
===============================================================================
