------------------------------- MODULE MCMvLink -------------------------------
(* An instance of MvLink for TLC: two addresses for the multiverse, and       *)
(* enough connections for an old one to meet a new one.                       *)
EXTENDS MvLink

CONSTANTS here, there, k1, k2

Addresses == {here, there}
TwoConns == {k1, k2}

(* The addresses are interchangeable: the multiverse starts at the first.     *)
FirstAddress == {here}
==============================================================================
