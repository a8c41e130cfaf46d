-------------------------------- MODULE Crews --------------------------------
(* What a snis_server promises about its crews, and Multiverse takes from it: *)
(* which ships are aboard, and who flies them.  A ship comes aboard with the  *)
(* first of its crew and goes with the last; who has joined a crew stays in   *)
(* it until he leaves.  Clients shows what of the code keeps this promise and *)
(* when: once a server has gone astray, nothing is promised any more.         *)
CONSTANTS
    Ships,      \* ship names with their passwords
    Members     \* those who can be in a crew

VARIABLES
    aboard,     \* the ships in the bridgelist[] of this server
    crew,       \* crew[s]: who flies ship s
    astray      \* bridges and clients have lost each other

crewsVars == <<aboard, crew, astray>>

-----------------------------------------------------------------------------
CrewsInit ==
    /\ aboard = {}
    /\ crew = [s \in Ships |-> {}]
    /\ astray = FALSE

IsAshore(m) == \A s \in Ships : m \notin crew[s]

(* Multiverse!Board                                                           *)
Board(m, s) ==
    /\ s \notin aboard
    /\ IsAshore(m)
    /\ aboard' = aboard \cup {s}
    /\ crew' = [crew EXCEPT ![s] = {m}]
    /\ UNCHANGED astray

(* "Later members of the crew find the bridge."                               *)
JoinCrew(m, s) ==
    /\ s \in aboard
    /\ IsAshore(m)
    /\ crew' = [crew EXCEPT ![s] = @ \cup {m}]
    /\ UNCHANGED <<aboard, astray>>

(* Multiverse!Leave, when the last of the crew goes.                          *)
LeaveCrew(m, s) ==
    /\ m \in crew[s]
    /\ crew' = [crew EXCEPT ![s] = @ \ {m}]
    /\ aboard' = IF crew[s] = {m} THEN aboard \ {s} ELSE aboard
    /\ UNCHANGED astray

GoAstray == astray'

CrewsNext ==
    \/ \E m \in Members, s \in Ships : Board(m, s) \/ JoinCrew(m, s) \/ LeaveCrew(m, s)
    \/ GoAstray

CrewsSpec == CrewsInit /\ [][CrewsNext]_crewsVars
==============================================================================
