---------------------------- MODULE MCLuaCallbacks ---------------------------
(* An instance of LuaCallbacks for TLC: a check that stands before another    *)
(* one in the list.                                                           *)
EXTENDS LuaCallbacks

CONSTANTS i1, i2, i3

ThreeItems == {i1, i2, i3}
===============================================================================
