----------------------------- MODULE MCShipStore -----------------------------
(* An instance of ShipStore for TLC: two ships in two entries, so that a ship *)
(* found twice after a restart fills the table, and three files overfill it.  *)
EXTENDS ShipStore

CONSTANTS h1, h2, s1

TwoShips == {h1, h2}
OneSystem == {s1}
===============================================================================
