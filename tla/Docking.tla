------------------------------- MODULE Docking -------------------------------
(* The docking ports of a starbase (snis_server.c): permissions with a time   *)
(* limit, players who ask for them, scripts that dock players without, ships  *)
(* of the server's own that choose a port, approach it, dock and leave, and   *)
(* ships that die on the way.  Everything happens under universe_mutex, a     *)
(* move of one object, a packet or a call of a script at a time.              *)
(*                                                                            *)
(* Where ships are, and how far clocks have run, is left open: any ship may   *)
(* be near any port, any clock may run out.                                   *)
EXTENDS Integers, FiniteSets

CONSTANTS
    Players,    \* OBJTYPE_BRIDGE
    Npcs,       \* OBJTYPE_NPCSHIP
    NPorts,     \* nports of the starbase's model
    NoShip      \* the id -1

Ships == Players \cup Npcs
Ports == 0 .. NPorts - 1

ASSUME DockingAssumption ==
    /\ NPorts \in Nat \ {0}
    /\ IsFiniteSet(Ships)
    /\ NoShip \notin Ships
    /\ Players \cap Npcs = {}

VARIABLES
    base,       \* the starbase exists
    life,       \* life[s]: "alive", "dead" (a player about to respawn), "deleted"
    magnets,    \* magnets[s]: docking_magnets
    guy,        \* guy[p]: docked_guy
    expected,   \* expected[p]: expected_docker
    timed,      \* timed[p]: expected_docker_timer > 0
    mode,       \* mode[n]: state of the AI entry AI_MODE_DOCK_AT_STARBASE
    port,       \* port[n]: its docking port
    top         \* top[n]: it is on top of the AI stack

dockingVars == <<base, life, magnets, guy, expected, timed, mode, port, top>>

DockStates == {"stage", "approach", "docked", "undock"}

DockingTypeOK ==
    /\ base \in BOOLEAN
    /\ life \in [Ships -> {"alive", "dead", "deleted"}]
    /\ magnets \in [Ships -> BOOLEAN]
    /\ guy \in [Ports -> Ships \cup {NoShip}]
    /\ expected \in [Ports -> Ships \cup {NoShip}]
    /\ timed \in [Ports -> BOOLEAN]
    /\ mode \in [Npcs -> DockStates \cup {"none"}]
    /\ port \in [Npcs -> Ports]
    /\ top \in [Npcs -> BOOLEAN]

DockingInit ==
    /\ base = TRUE
    /\ life = [s \in Ships |-> "alive"]
    /\ magnets = [s \in Ships |-> FALSE]
    /\ guy = [p \in Ports |-> NoShip]
    /\ expected = [p \in Ports |-> NoShip]
    /\ timed = [p \in Ports |-> FALSE]
    /\ mode = [n \in Npcs |-> "none"]
    /\ port = [n \in Npcs |-> 0]
    /\ top = [n \in Npcs |-> FALSE]

-----------------------------------------------------------------------------
Alive(s) == life[s] = "alive"
Docked(s) == \E p \in Ports : guy[p] = s

(* revoke_docking_permission                                                  *)
Revoke(s) ==
    /\ expected' = [p \in Ports |-> IF expected[p] = s THEN NoShip ELSE expected[p]]
    /\ timed' = [p \in Ports |-> timed[p] /\ expected[p] # s]

(* Mutant: the ship keeps the port it is docked at.                           *)
OnlyRevoke(s) == Revoke(s) /\ UNCHANGED guy

(* remove_ship_from_docking_ports                                             *)
RemoveFromPorts(s) ==
    /\ Revoke(s)
    /\ guy' = [p \in Ports |-> IF guy[p] = s THEN NoShip ELSE guy[p]]

Expect(p, s) ==
    /\ expected' = [expected EXCEPT ![p] = s]
    /\ timed' = [timed EXCEPT ![p] = TRUE]

-----------------------------------------------------------------------------
(* Players.                                                                   *)

NpcKept == UNCHANGED <<mode, port, top>>

ToggleMagnets(s) ==
    /\ life[s] # "deleted"
    /\ magnets' = [magnets EXCEPT ![s] = ~@]
    /\ UNCHANGED <<base, life, guy, expected, timed>>
    /\ NpcKept

First(P) == CHOOSE p \in P : \A q \in P : p <= q

Granted(s) == {p \in Ports : expected[p] = s /\ timed[p]}
Open == {p \in Ports : ~timed[p]}
Preemptable == {p \in Ports : expected[p] \in Npcs /\ ~Docked(expected[p])}

(* starbase_grant_docker_permission: a permission is renewed, or one is given *)
(* whose time is over or that is nobody's, or one is taken from a ship of the *)
(* server that is still on its way.                                           *)
AskPermission(s) ==
    /\ base
    /\ Alive(s)
    /\ \/ Granted(s) # {} /\ Expect(First(Granted(s)), s)
       \/ Granted(s) = {} /\ Open # {} /\ Expect(First(Open), s)
       \/ Granted(s) \cup Open = {} /\ Preemptable # {} /\ Expect(First(Preemptable), s)
    /\ UNCHANGED <<base, life, magnets, guy>>
    /\ NpcKept

(* player_attempt_dock_with_starbase                                          *)
Bump(s, p) ==
    /\ base
    /\ Alive(s)
    /\ magnets[s]
    /\ Granted(s) # {}
    /\ guy[p] = NoShip
    /\ guy' = [guy EXCEPT ![p] = s]
    /\ UNCHANGED <<base, life, magnets, expected, timed>>
    /\ NpcKept

(* l_dock_player_to_starbase: a free port is taken that comes before the one  *)
(* the player is docked at, if it is docked; ports come in the order of go[]. *)
ScriptDocks(s, p) ==
    /\ base
    /\ life[s] # "deleted"
    /\ guy[p] = NoShip
    /\ guy' = [guy EXCEPT ![p] = s]
    /\ magnets' = [magnets EXCEPT ![s] = TRUE]
    /\ UNCHANGED <<base, life, expected, timed>>
    /\ NpcKept

(* A player's ship is destroyed, and respawns later.                          *)
PlayerDies(s) ==
    /\ Alive(s)
    /\ life' = [life EXCEPT ![s] = "dead"]
    /\ UNCHANGED <<base, magnets, guy, expected, timed>>
    /\ NpcKept

Respawn(s) ==
    /\ life[s] = "dead"
    /\ life' = [life EXCEPT ![s] = "alive"]
    /\ UNCHANGED <<base, magnets, guy, expected, timed>>
    /\ NpcKept

(* delete_from_clients_and_server, of a ship: a player leaves, or a ship of   *)
(* the server is destroyed.                                                   *)
Delete(s) ==
    /\ life[s] # "deleted"
    /\ life' = [life EXCEPT ![s] = "deleted"]
    /\ RemoveFromPorts(s)
    /\ mode' = [n \in Npcs |-> IF n = s THEN "none" ELSE mode[n]]
    /\ top' = [n \in Npcs |-> n # s /\ top[n]]
    /\ UNCHANGED <<base, magnets, port>>

-----------------------------------------------------------------------------
(* The starbase and its ports.                                                *)

(* starbase_move: a clock runs out, or had run out while a ship was docked.   *)
PermissionExpires(p) ==
    /\ base
    /\ expected[p] # NoShip
    /\ timed' = [timed EXCEPT ![p] = FALSE]
    /\ expected' = [expected EXCEPT ![p] = IF Docked(expected[p]) THEN @ ELSE NoShip]
    /\ UNCHANGED <<base, life, magnets, guy>>
    /\ NpcKept

(* docking_port_move: whoever is gone or has the magnets off undocks.         *)
PortMoves(p) ==
    /\ base
    /\ guy[p] # NoShip
    /\ ~Alive(guy[p]) \/ ~magnets[guy[p]]
    /\ Revoke(guy[p])
    /\ guy' = [guy EXCEPT ![p] = NoShip]
    /\ UNCHANGED <<base, life, magnets>>
    /\ NpcKept

(* delete_from_clients_and_server, of the starbase with its ports.            *)
BaseDestroyed ==
    /\ base
    /\ base' = FALSE
    /\ guy' = [p \in Ports |-> NoShip]
    /\ expected' = [p \in Ports |-> NoShip]
    /\ timed' = [p \in Ports |-> FALSE]
    /\ UNCHANGED <<life, magnets>>
    /\ NpcKept

-----------------------------------------------------------------------------
(* Ships of the server: npc_choose_docking_port, ai_dock_at_starbase_brain    *)
(* and what ship_move does after it.                                          *)

(* Mutant: only the ships that are docking now are asked.                     *)
TargetedByTop(p, n) ==
    \E m \in Npcs \ {n} : Alive(m) /\ mode[m] # "none" /\ port[m] = p /\ top[m]

(* npc_targeting_docking_port looks through all of every ship's AI stack.     *)
Targeted(p, n) == \E m \in Npcs \ {n} : Alive(m) /\ mode[m] # "none" /\ port[m] = p

FreeFor(n) ==
    {p \in Ports : /\ guy[p] = NoShip
                   /\ timed[p] => expected[p] \in {NoShip, n}
                   /\ ~Targeted(p, n)}

(* One port is left to the players, and port 0 always.  Ports near a player,  *)
(* and ports that move too fast, do not count: a choice may fail.             *)
Choosable(n) == IF Cardinality(FreeFor(n)) < 2 THEN {} ELSE FreeFor(n) \ {0}

Aim(n, p, m) ==
    /\ mode' = [mode EXCEPT ![n] = m]
    /\ port' = [port EXCEPT ![n] = p]
    /\ top' = [top EXCEPT ![n] = TRUE]

Forget(n) ==
    /\ mode' = [mode EXCEPT ![n] = "none"]
    /\ top' = [top EXCEPT ![n] = FALSE]
    /\ UNCHANGED port

(* Mutant: the magnets are left as they are.                                  *)
MagnetsKept(n) == UNCHANGED magnets

MagnetsOff(n) == magnets' = [magnets EXCEPT ![n] = FALSE]

(* maybe_push_dock_at_starbase; before the ship's move is over, ship_move has *)
(* turned off the magnets of a ship that is on its way.                       *)
Push(n, p) ==
    /\ base
    /\ Alive(n)
    /\ mode[n] = "none"
    /\ p \in Choosable(n)
    /\ Expect(p, n)
    /\ Aim(n, p, "stage")
    /\ MagnetsOff(n)
    /\ UNCHANGED <<base, life, guy>>

Docking(n) == Alive(n) /\ top[n]
Coming(n) == base /\ Docking(n) /\ mode[n] \in {"stage", "approach"}

(* Mutant: only the permission counts.                                        *)
LostPermission(n) == expected[port[n]] # n

(* The port is another's now, or the permission is.                           *)
Lost(n) == guy[port[n]] \notin {NoShip, n} \/ expected[port[n]] # n

(* ... or a player is near: another port is chosen.                           *)
Switch(n, p) ==
    /\ Coming(n)
    /\ LET kept == [q \in Ports |-> expected[q] # n] IN
       /\ expected' = [q \in Ports |-> IF q = p THEN n ELSE IF kept[q] THEN expected[q] ELSE NoShip]
       /\ timed' = [q \in Ports |-> q = p \/ (timed[q] /\ kept[q])]
    /\ p \in Choosable(n)
    /\ Aim(n, p, "stage")
    /\ UNCHANGED <<base, life, magnets, guy>>

(* abort_npc_dock_at_starbase: no other port, a clock has run out, the ship   *)
(* is not wanted here, the starbase is gone.                                  *)
Abort(n) ==
    /\ Docking(n)
    /\ mode[n] # "none"
    /\ MagnetsOff(n)
    /\ RemoveFromPorts(n)
    /\ Forget(n)
    /\ UNCHANGED <<base, life>>

(* The permission is renewed with every move; staging and the approach follow *)
(* each other as often as the ship misses the port.                           *)
Steer(n, m) ==
    /\ Coming(n)
    /\ ~Lost(n)
    /\ m \in {"stage", "approach"}
    /\ Expect(port[n], n)
    /\ Aim(n, port[n], m)
    /\ UNCHANGED <<base, life, magnets, guy>>

(* Staging and the approach take many moves, in which the ports move too and  *)
(* an earlier docking is over.                                                *)
Settled(n) == \A p \in Ports : guy[p] # n \/ magnets[n]

Dock(n) ==
    /\ Coming(n)
    /\ mode[n] = "approach"
    /\ ~Lost(n)
    /\ Settled(n)
    /\ Expect(port[n], n)
    /\ guy' = [guy EXCEPT ![port[n]] = n]
    /\ magnets' = [magnets EXCEPT ![n] = TRUE]
    /\ Aim(n, port[n], "docked")
    /\ UNCHANGED <<base, life>>

(* The time at the port is over.                                              *)
Undock(n) ==
    /\ base
    /\ Docking(n)
    /\ mode[n] = "docked"
    /\ MagnetsOff(n)
    /\ IF guy[port[n]] = n /\ magnets[n]
       THEN Revoke(n) /\ guy' = [guy EXCEPT ![port[n]] = NoShip]
       ELSE UNCHANGED <<guy, expected, timed>>
    /\ Aim(n, port[n], "undock")
    /\ UNCHANGED <<base, life>>

(* Clear of the port, or fifty moves later.                                   *)
Depart(n) ==
    /\ base
    /\ Docking(n)
    /\ mode[n] = "undock"
    /\ Settled(n)
    /\ Forget(n)
    /\ UNCHANGED <<base, life, magnets, guy, expected, timed>>

(* Something is pushed on top of the entry, or is popped again.               *)
Distract(n) ==
    /\ Alive(n)
    /\ mode[n] # "none"
    /\ top' = [top EXCEPT ![n] = ~@]
    /\ UNCHANGED <<base, life, magnets, guy, expected, timed, mode, port>>

(* The entry is overwritten: the ship is told to attack.                      *)
Overwrite(n) ==
    /\ Docking(n)
    /\ mode[n] # "none"
    /\ Forget(n)
    /\ UNCHANGED <<base, life, magnets, guy, expected, timed>>

(* ship_move, when the ship is not docking at the moment.                     *)
Tidy(n) ==
    /\ Alive(n)
    /\ ~top[n]
    /\ magnets[n]
    /\ MagnetsOff(n)
    /\ RemoveFromPorts(n)
    /\ UNCHANGED <<base, life>>
    /\ NpcKept

-----------------------------------------------------------------------------
DockingNext ==
    \/ \E s \in Players :
          \/ ToggleMagnets(s) \/ AskPermission(s) \/ PlayerDies(s) \/ Respawn(s)
          \/ \E p \in Ports : Bump(s, p) \/ ScriptDocks(s, p)
    \/ \E s \in Ships : Delete(s)
    \/ \E p \in Ports : PermissionExpires(p) \/ PortMoves(p)
    \/ BaseDestroyed
    \/ \E n \in Npcs :
          \/ \E p \in Ports : Push(n, p) \/ Switch(n, p)
          \/ \E m \in {"stage", "approach"} : Steer(n, m)
          \/ Abort(n) \/ Dock(n) \/ Undock(n) \/ Depart(n)
          \/ Distract(n) \/ Overwrite(n) \/ Tidy(n)

DockingSpec == DockingInit /\ [][DockingNext]_dockingVars

-----------------------------------------------------------------------------
(* Properties.                                                                *)

(* Two ships of the server never go for the same port, whatever lies on top   *)
(* of their AI stacks, and none for port 0.                                   *)
NpcsKeepApart ==
    \A n, m \in Npcs :
        mode[n] # "none" /\ mode[m] # "none" => port[n] # 0 /\ (port[n] = port[m] => n = m)

(* No port names a ship that is deleted, as resident or as expected: ids are  *)
(* looked up, and the port would be taken for ever.                           *)
ResidentsExist ==
    \A p \in Ports, s \in Ships : guy[p] = s \/ expected[p] = s => life[s] # "deleted"

(* A ship of the server that is at a port has it for its own, and has not     *)
(* gone on to another, whoever interrupts it.                                 *)
NpcsHaveOneBerth ==
    \A n \in Npcs : \A p, q \in Ports : guy[p] = n /\ guy[q] = n => p = q

(* Whoever is docked is never pushed out by another: the port is empty        *)
(* between the two.                                                           *)
NobodyIsPushedOut ==
    [][\A p \in Ports : guy[p] # NoShip => guy'[p] \in {guy[p], NoShip}]_dockingVars
==============================================================================
