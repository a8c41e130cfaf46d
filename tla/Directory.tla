------------------------------ MODULE Directory ------------------------------
(* What the lobby promises: a directory of servers.  A server that has been   *)
(* entered and keeps renewing its entry stays listed; what is forgotten are   *)
(* entries nobody renews; a lobby that starts again has forgotten everything. *)
EXTENDS FiniteSets

CONSTANT Servers        \* game servers, by address, port and name

VARIABLES
    listed,     \* the directory: game_server[]
    renewing    \* servers whose last registration was accepted and that go on

directoryVars == <<listed, renewing>>

DirectoryInit ==
    /\ listed = {}
    /\ renewing = {}

(* A server registers and there is room for it, or it is there already.       *)
Enter(s) ==
    /\ listed' = listed \cup {s}
    /\ renewing' = renewing \cup {s}

(* A server dies, or gives registering up: its entry stays for a while.       *)
Lapse(s) ==
    /\ renewing' = renewing \ {s}
    /\ UNCHANGED listed

(* Entries expire.                                                            *)
Forget(S) ==
    /\ S \subseteq listed \ renewing
    /\ listed' = listed \ S
    /\ UNCHANGED renewing

(* The lobby is started again.                                                *)
Reset ==
    /\ listed' = {}
    /\ renewing' = {}

DirectoryNext ==
    \/ \E s \in Servers : Enter(s) \/ Lapse(s)
    \/ \E S \in SUBSET Servers : Forget(S)
    \/ Reset

DirectorySpec == DirectoryInit /\ [][DirectoryNext]_directoryVars
==============================================================================
