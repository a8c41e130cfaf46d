------------------------------ MODULE GameProofs ------------------------------
(* Proofs about three parts of snis_server: docking, for any number of ships  *)
(* and ports (Docking), the fleets its ships fly in (Fleets) and the talking  *)
(* sticks its clients hold (TalkingStick).                                    *)
EXTENDS Docking, Fleets, TalkingStick, Numbers, SequenceTheorems

(* Inductive.  A ship of the server that has docking in mind is alive, and    *)
(* until it docks its magnets are off: so a ship that approaches is at no     *)
(* port yet.                                                                  *)
ComersLive == \A n \in Npcs : mode[n] # "none" => life[n] = "alive"
ComersAreOff == \A n \in Npcs : mode[n] \in {"stage", "approach"} => ~magnets[n]

DockingInv ==
    /\ DockingTypeOK
    /\ ComersLive
    /\ ComersAreOff
    /\ NpcsKeepApart
    /\ ResidentsExist
    /\ NpcsHaveOneBerth

LEMMA DockingConstants ==
    /\ NoShip \notin Ships
    /\ 0 \in Ports
    /\ Players \subseteq Ships /\ Npcs \subseteq Ships
    /\ \A s \in Players : s \notin Npcs
  BY DockingAssumption DEF Ports, Ships

LEMMA DockingInvInit == DockingInit => DockingInv
  BY DockingConstants
  DEF DockingInit, DockingInv, DockingTypeOK, ComersLive, ComersAreOff,
      NpcsKeepApart, ResidentsExist, NpcsHaveOneBerth, DockStates

-----------------------------------------------------------------------------
(* What several actions have in common.                                       *)

(* Nothing of the ships of the server, and no resident, changes.              *)
LEMMA OnlyExpected ==
    ASSUME DockingInv, DockingTypeOK', NpcKept, guy' = guy, life' = life,
           \A n \in Npcs : magnets'[n] = magnets[n],
           \A p \in Ports : \/ expected'[p] \in {expected[p], NoShip}
                            \/ expected'[p] \in Ships /\ life[expected'[p]] = "alive"
    PROVE  DockingInv'
  BY DockingConstants
  DEF DockingInv, NpcKept, ComersLive, ComersAreOff, NpcsKeepApart,
      ResidentsExist, NpcsHaveOneBerth

(* A ship or the starbase goes: ports are only emptied.                       *)
LEMMA OnlyEmptied ==
    ASSUME DockingInv, DockingTypeOK',
           \A p \in Ports : guy'[p] \in {guy[p], NoShip},
           \A p \in Ports : expected'[p] \in {expected[p], NoShip},
           \A n \in Npcs : \/ mode'[n] = "none"
                           \/ /\ mode'[n] = mode[n] \/ (mode[n] # "none" /\ mode'[n] = "undock")
                              /\ port'[n] = port[n]
                              /\ life'[n] = life[n]
                              /\ magnets'[n] => magnets[n],
           \A s \in Ships : life'[s] = "deleted" =>
               life[s] = "deleted" \/ \A p \in Ports : guy'[p] # s /\ expected'[p] # s
    PROVE  DockingInv'
<1> USE DockingConstants DEF DockingInv
<1>1. ComersLive'
  BY DEF ComersLive
<1>2. ComersAreOff'
  BY DEF ComersAreOff
<1>3. NpcsKeepApart'
  <2>1. \A n \in Npcs : mode'[n] # "none" => mode[n] # "none" /\ port'[n] = port[n]
    OBVIOUS
  <2> QED BY <2>1 DEF NpcsKeepApart
<1>4. ResidentsExist'
  BY DEF ResidentsExist
<1>5. NpcsHaveOneBerth'
  BY DEF NpcsHaveOneBerth
<1> QED BY <1>1, <1>2, <1>3, <1>4, <1>5

(* A ship of the server goes for a port it may choose.                        *)
LEMMA OnlyAimed ==
    ASSUME DockingInv, DockingTypeOK', NEW n \in Npcs, NEW p \in Ports,
           p \in Choosable(n), Alive(n), Aim(n, p, "stage"),
           guy' = guy, life' = life,
           ~magnets'[n], \A m \in Npcs \ {n} : magnets'[m] = magnets[m],
           \A q \in Ports : expected'[q] \in {expected[q], NoShip, n}
    PROVE  DockingInv'
<1> USE DockingConstants DEF DockingInv, Aim
<1>1. p # 0 /\ ~Targeted(p, n)
  BY DEF Choosable, FreeFor
<1>2. \A m \in Npcs \ {n} : mode'[m] = mode[m] /\ port'[m] = port[m]
  BY DEF DockingTypeOK
<1>3. mode'[n] = "stage" /\ port'[n] = p
  BY DEF DockingTypeOK
<1>4. \A m \in Npcs \ {n} : mode[m] # "none" => port[m] # p
  BY <1>1 DEF Targeted, ComersLive, Alive
<1>5. ComersLive'
  BY <1>2 DEF ComersLive, Alive
<1>6. ComersAreOff'
  BY <1>2 DEF ComersAreOff
<1>7. NpcsKeepApart'
  <2> SUFFICES ASSUME NEW k \in Npcs, NEW m \in Npcs,
                      mode'[k] # "none", mode'[m] # "none"
               PROVE  port'[k] # 0 /\ (port'[k] = port'[m] => k = m)
    BY DEF NpcsKeepApart
  <2>1. CASE k = n /\ m = n
    BY <1>1, <1>3, <2>1
  <2>2. CASE k = n /\ m # n
    BY <1>1, <1>2, <1>3, <1>4, <2>2
  <2>3. CASE k # n /\ m = n
    BY <1>2, <1>3, <1>4, <2>3 DEF NpcsKeepApart
  <2>4. CASE k # n /\ m # n
    BY <1>2, <2>4 DEF NpcsKeepApart
  <2> QED BY <2>1, <2>2, <2>3, <2>4
<1>8. ResidentsExist'
  BY DEF ResidentsExist, Alive
<1>9. NpcsHaveOneBerth'
  BY DEF NpcsHaveOneBerth
<1> QED BY <1>5, <1>6, <1>7, <1>8, <1>9

-----------------------------------------------------------------------------
LEMMA DockingInvNext == DockingInv /\ [DockingNext]_dockingVars => DockingInv'
<1> SUFFICES ASSUME DockingInv, [DockingNext]_dockingVars PROVE DockingInv'
  OBVIOUS
<1> USE DockingConstants
<1>1. ASSUME NEW s \in Players, ToggleMagnets(s) PROVE DockingInv'
  <2>1. DockingTypeOK' /\ \A n \in Npcs : magnets'[n] = magnets[n]
    BY <1>1 DEF ToggleMagnets, NpcKept, DockingInv, DockingTypeOK
  <2> QED BY <1>1, <2>1, OnlyExpected DEF ToggleMagnets
<1>2. ASSUME NEW s \in Players, AskPermission(s) PROVE DockingInv'
  <2>1. \E p : Expect(p, s)
    BY <1>2 DEF AskPermission
  <2>2. \A p \in Ports : expected'[p] \in {expected[p], s}
    BY <2>1 DEF Expect, DockingInv, DockingTypeOK
  <2>3. DockingTypeOK'
    <3>1. UNCHANGED <<base, life, magnets, guy, mode, port, top>>
      BY <1>2 DEF AskPermission, NpcKept
    <3>2. expected' \in [Ports -> Ships \cup {NoShip}] /\ timed' \in [Ports -> BOOLEAN]
      BY <2>1 DEF Expect, Ships, DockingInv, DockingTypeOK
    <3> QED BY <3>1, <3>2 DEF DockingInv, DockingTypeOK
  <2> QED BY <1>2, <2>2, <2>3, OnlyExpected DEF AskPermission, Alive
<1>3. ASSUME NEW s \in Players, NEW p \in Ports, Bump(s, p) \/ ScriptDocks(s, p)
      PROVE  DockingInv'
  <2>1. /\ guy' = [guy EXCEPT ![p] = s] /\ life[s] # "deleted" /\ NpcKept
        /\ UNCHANGED <<life, expected>>
    BY <1>3 DEF Bump, ScriptDocks, Alive
  <2>2. DockingTypeOK' /\ \A n \in Npcs : magnets'[n] = magnets[n]
    BY <1>3 DEF Bump, ScriptDocks, NpcKept, DockingInv, DockingTypeOK
  <2>3. \A q \in Ports : guy'[q] = s \/ guy'[q] = guy[q]
    BY <2>1 DEF DockingInv, DockingTypeOK
  <2>4. ResidentsExist'
    BY <2>1, <2>3 DEF DockingInv, ResidentsExist
  <2>5. NpcsHaveOneBerth'
    BY <2>3 DEF DockingInv, NpcsHaveOneBerth
  <2>6. ComersLive' /\ ComersAreOff' /\ NpcsKeepApart'
    BY <2>1, <2>2 DEF DockingInv, NpcKept, ComersLive, ComersAreOff, NpcsKeepApart
  <2> QED BY <2>2, <2>4, <2>5, <2>6 DEF DockingInv
<1>4. ASSUME NEW s \in Players, PlayerDies(s) \/ Respawn(s) PROVE DockingInv'
  <2>1. DockingTypeOK'
    BY <1>4 DEF PlayerDies, Respawn, NpcKept, DockingInv, DockingTypeOK
  <2>2. \A t \in Ships : life'[t] = "deleted" => life[t] = "deleted"
    BY <1>4 DEF PlayerDies, Respawn, DockingInv, DockingTypeOK
  <2>3. \A n \in Npcs : life'[n] = life[n]
    BY <1>4 DEF PlayerDies, Respawn, DockingInv, DockingTypeOK
  <2> QED BY <1>4, <2>1, <2>2, <2>3, OnlyEmptied DEF PlayerDies, Respawn, NpcKept
<1>5. ASSUME NEW s \in Ships, Delete(s) PROVE DockingInv'
  <2>1. DockingTypeOK'
    BY <1>5 DEF Delete, RemoveFromPorts, Revoke, DockingInv, DockingTypeOK
  <2>2. \A p \in Ports : /\ guy'[p] \in {guy[p], NoShip} /\ guy'[p] # s
                         /\ expected'[p] \in {expected[p], NoShip} /\ expected'[p] # s
    BY <1>5 DEF Delete, RemoveFromPorts, Revoke, DockingInv, DockingTypeOK
  <2>3. \A t \in Ships : t # s => life'[t] = life[t]
    BY <1>5 DEF Delete, DockingInv, DockingTypeOK
  <2>4. \A n \in Npcs : \/ mode'[n] = "none"
                      \/ (n # s /\ UNCHANGED <<mode[n], port[n], magnets[n]>>)
    BY <1>5 DEF Delete, DockingInv, DockingTypeOK
  <2> QED BY <2>1, <2>2, <2>3, <2>4, OnlyEmptied
<1>6. ASSUME NEW p \in Ports, PermissionExpires(p) PROVE DockingInv'
  <2>1. DockingTypeOK' /\ \A q \in Ports : expected'[q] \in {expected[q], NoShip}
    BY <1>6 DEF PermissionExpires, NpcKept, DockingInv, DockingTypeOK
  <2> QED BY <1>6, <2>1, OnlyExpected DEF PermissionExpires
<1>7. ASSUME NEW p \in Ports, PortMoves(p) PROVE DockingInv'
  <2>1. /\ DockingTypeOK'
        /\ \A q \in Ports : guy'[q] \in {guy[q], NoShip} /\ expected'[q] \in {expected[q], NoShip}
    BY <1>7 DEF PortMoves, Revoke, NpcKept, DockingInv, DockingTypeOK
  <2> QED BY <1>7, <2>1, OnlyEmptied DEF PortMoves, NpcKept
<1>8. CASE BaseDestroyed
  <2>1. /\ DockingTypeOK'
        /\ \A q \in Ports : guy'[q] = NoShip /\ expected'[q] = NoShip
    BY <1>8 DEF BaseDestroyed, NpcKept, DockingInv, DockingTypeOK
  <2> QED BY <1>8, <2>1, OnlyEmptied DEF BaseDestroyed, NpcKept
<1>9. ASSUME NEW n \in Npcs, NEW p \in Ports, Push(n, p) PROVE DockingInv'
  <2>1. DockingTypeOK'
    BY <1>9 DEF Push, Expect, Aim, MagnetsOff, DockStates, DockingInv, DockingTypeOK
  <2>2. ~magnets'[n] /\ \A m \in Npcs \ {n} : magnets'[m] = magnets[m]
    BY <1>9 DEF Push, MagnetsOff, DockingInv, DockingTypeOK
  <2>3. \A q \in Ports : expected'[q] \in {expected[q], n}
    BY <1>9 DEF Push, Expect, DockingInv, DockingTypeOK
  <2> QED BY <1>9, <2>1, <2>2, <2>3, OnlyAimed DEF Push
<1>10. ASSUME NEW n \in Npcs, NEW p \in Ports, Switch(n, p) PROVE DockingInv'
  <2>1. /\ UNCHANGED <<base, life, magnets, guy>> /\ Aim(n, p, "stage") /\ p \in Choosable(n)
        /\ Coming(n)
        /\ expected' = [q \in Ports |-> IF q = p THEN n
                                        ELSE IF expected[q] # n THEN expected[q] ELSE NoShip]
        /\ timed' = [q \in Ports |-> q = p \/ (timed[q] /\ expected[q] # n)]
    BY <1>10 DEF Switch
  <2>2. DockingTypeOK'
    BY <2>1 DEF Aim, DockStates, DockingInv, DockingTypeOK
  <2>3. ~magnets'[n] /\ Alive(n)
    BY <2>1 DEF Coming, Docking, ComersAreOff, DockingInv
  <2>4. \A q \in Ports : expected'[q] \in {expected[q], NoShip, n}
    BY <2>1
  <2> QED BY <2>1, <2>2, <2>3, <2>4, OnlyAimed
<1>11. ASSUME NEW n \in Npcs, Abort(n) PROVE DockingInv'
  <2>1. DockingTypeOK'
    BY <1>11 DEF Abort, RemoveFromPorts, Revoke, Forget, MagnetsOff, DockingInv, DockingTypeOK
  <2>2. \A q \in Ports : guy'[q] \in {guy[q], NoShip} /\ expected'[q] \in {expected[q], NoShip}
    BY <1>11 DEF Abort, RemoveFromPorts, Revoke, DockingInv, DockingTypeOK
  <2>3. \A m \in Npcs : \/ mode'[m] = "none"
                      \/ UNCHANGED <<mode[m], port[m], magnets[m]>>
    BY <1>11 DEF Abort, Forget, MagnetsOff, DockingInv, DockingTypeOK
  <2> QED BY <1>11, <2>1, <2>2, <2>3, OnlyEmptied DEF Abort
<1>12. ASSUME NEW n \in Npcs, NEW m \in {"stage", "approach"}, Steer(n, m)
       PROVE  DockingInv'
  <2>1. /\ Coming(n) /\ Expect(port[n], n) /\ Aim(n, port[n], m)
        /\ UNCHANGED <<base, life, magnets, guy>>
    BY <1>12 DEF Steer
  <2>2. DockingTypeOK'
    BY <2>1 DEF Expect, Aim, DockStates, DockingInv, DockingTypeOK
  <2>3. /\ mode'[n] = m /\ port' = port
        /\ \A k \in Npcs \ {n} : mode'[k] = mode[k]
        /\ \A q \in Ports : expected'[q] \in {expected[q], n}
    BY <2>1 DEF Expect, Aim, DockingInv, DockingTypeOK
  <2>4. mode[n] \in {"stage", "approach"} /\ life[n] = "alive"
    BY <2>1 DEF Coming, Docking, Alive
  <2>5. ComersLive' /\ ComersAreOff'
    BY <2>1, <2>3, <2>4 DEF DockingInv, ComersLive, ComersAreOff
  <2>6. NpcsKeepApart'
    BY <2>3, <2>4 DEF DockingInv, NpcsKeepApart
  <2>7. ResidentsExist' /\ NpcsHaveOneBerth'
    BY <2>1, <2>3, <2>4 DEF DockingInv, ResidentsExist, NpcsHaveOneBerth
  <2> QED BY <2>2, <2>5, <2>6, <2>7 DEF DockingInv
<1>13. ASSUME NEW n \in Npcs, Dock(n) PROVE DockingInv'
  <2>1. /\ Coming(n) /\ Settled(n) /\ Expect(port[n], n) /\ Aim(n, port[n], "docked")
        /\ guy' = [guy EXCEPT ![port[n]] = n]
        /\ magnets' = [magnets EXCEPT ![n] = TRUE]
        /\ UNCHANGED <<base, life>>
    BY <1>13 DEF Dock
  <2>2. DockingTypeOK'
    BY <2>1 DEF Expect, Aim, DockStates, DockingInv, DockingTypeOK
  <2>3. /\ mode'[n] = "docked" /\ port' = port
        /\ \A k \in Npcs \ {n} : mode'[k] = mode[k] /\ magnets'[k] = magnets[k]
        /\ \A q \in Ports : expected'[q] \in {expected[q], n}
    BY <2>1 DEF Expect, Aim, DockingInv, DockingTypeOK
  <2>4. mode[n] \in {"stage", "approach"} /\ life[n] = "alive"
    BY <2>1 DEF Coming, Docking, Alive
  <2>5. \A q \in Ports : guy[q] # n
    BY <2>1, <2>4 DEF Settled, DockingInv, ComersAreOff
  <2>6. \A q \in Ports : guy'[q] = IF q = port[n] THEN n ELSE guy[q]
    BY <2>1 DEF DockingInv, DockingTypeOK
  <2>7. ComersLive' /\ ComersAreOff'
    BY <2>1, <2>3, <2>4 DEF DockingInv, ComersLive, ComersAreOff
  <2>8. NpcsKeepApart'
    BY <2>3, <2>4 DEF DockingInv, NpcsKeepApart
  <2>9. ResidentsExist'
    BY <2>1, <2>3, <2>4, <2>6 DEF DockingInv, ResidentsExist
  <2>10. NpcsHaveOneBerth'
    BY <2>5, <2>6 DEF DockingInv, NpcsHaveOneBerth
  <2> QED BY <2>2, <2>7, <2>8, <2>9, <2>10 DEF DockingInv
<1>14. ASSUME NEW n \in Npcs, Undock(n) PROVE DockingInv'
  <2>1. DockingTypeOK'
    <3>1. /\ guy' \in [Ports -> Ships \cup {NoShip}]
          /\ expected' \in [Ports -> Ships \cup {NoShip}]
          /\ timed' \in [Ports -> BOOLEAN]
      <4>1. CASE UNCHANGED <<guy, expected, timed>>
        BY <4>1 DEF DockingInv, DockingTypeOK
      <4>2. CASE Revoke(n) /\ guy' = [guy EXCEPT ![port[n]] = NoShip]
        BY <4>2 DEF Revoke, DockingInv, DockingTypeOK
      <4> QED BY <1>14, <4>1, <4>2 DEF Undock
    <3> QED
      BY <1>14, <3>1 DEF Undock, Aim, MagnetsOff, DockStates, DockingInv, DockingTypeOK
  <2>2. \A q \in Ports : guy'[q] \in {guy[q], NoShip} /\ expected'[q] \in {expected[q], NoShip}
    BY <1>14 DEF Undock, Revoke, DockingInv, DockingTypeOK
  <2>3. /\ mode[n] = "docked" /\ mode'[n] = "undock" /\ port' = port /\ ~magnets'[n]
        /\ \A m \in Npcs \ {n} : mode'[m] = mode[m] /\ magnets'[m] = magnets[m]
    BY <1>14 DEF Undock, Aim, MagnetsOff, DockingInv, DockingTypeOK
  <2> QED BY <1>14, <2>1, <2>2, <2>3, OnlyEmptied DEF Undock
<1>15. ASSUME NEW n \in Npcs, Depart(n) \/ Overwrite(n) PROVE DockingInv'
  <2>1. Forget(n) /\ UNCHANGED <<base, life, magnets, guy, expected, timed>>
    BY <1>15 DEF Depart, Overwrite
  <2>2. DockingTypeOK'
    BY <2>1 DEF Forget, DockingInv, DockingTypeOK
  <2>3. \A m \in Npcs : mode'[m] = "none" \/ UNCHANGED <<mode[m], port[m]>>
    BY <2>1 DEF Forget, DockingInv, DockingTypeOK
  <2> QED BY <2>1, <2>2, <2>3, OnlyEmptied
<1>16. ASSUME NEW n \in Npcs, Distract(n) PROVE DockingInv'
  <2>1. DockingTypeOK'
    BY <1>16 DEF Distract, DockingInv, DockingTypeOK
  <2> QED BY <1>16, <2>1, OnlyEmptied DEF Distract
<1>17. ASSUME NEW n \in Npcs, Tidy(n) PROVE DockingInv'
  <2>1. DockingTypeOK'
    BY <1>17 DEF Tidy, RemoveFromPorts, Revoke, MagnetsOff, NpcKept, DockingInv, DockingTypeOK
  <2>2. \A q \in Ports : guy'[q] \in {guy[q], NoShip} /\ expected'[q] \in {expected[q], NoShip}
    BY <1>17 DEF Tidy, RemoveFromPorts, Revoke, DockingInv, DockingTypeOK
  <2>3. \A m \in Npcs : magnets'[m] => magnets[m]
    BY <1>17 DEF Tidy, MagnetsOff, DockingInv, DockingTypeOK
  <2> QED BY <1>17, <2>1, <2>2, <2>3, OnlyEmptied DEF Tidy, NpcKept
<1>18. CASE UNCHANGED dockingVars
  <2>1. DockingTypeOK'
    BY <1>18 DEF dockingVars, DockingInv, DockingTypeOK
  <2> QED BY <1>18, <2>1, OnlyEmptied DEF dockingVars
<1> QED
  BY <1>1, <1>2, <1>3, <1>4, <1>5, <1>6, <1>7, <1>8, <1>9, <1>10, <1>11, <1>12,
     <1>13, <1>14, <1>15, <1>16, <1>17, <1>18 DEF DockingNext

LEMMA DockingInvariant == DockingSpec => []DockingInv
  BY DockingInvInit, DockingInvNext, PTL DEF DockingSpec

(* The variables of Docking keep their types.                                 *)
THEOREM DockingTypes == DockingSpec => []DockingTypeOK
  BY DockingInvariant, PTL DEF DockingInv

(* Two ships of the server never go for the same port.                        *)
THEOREM KeepApart == DockingSpec => []NpcsKeepApart
  BY DockingInvariant, PTL DEF DockingInv

(* No port names a ship that is deleted.                                      *)
THEOREM OnlyLivingResidents == DockingSpec => []ResidentsExist
  BY DockingInvariant, PTL DEF DockingInv

(* A ship of the server is at one port at most.                               *)
THEOREM OneBerth == DockingSpec => []NpcsHaveOneBerth
  BY DockingInvariant, PTL DEF DockingInv

-----------------------------------------------------------------------------
(* A step changes the resident of a port from nobody, or to nobody.           *)
LEMMA StepPushesNobodyOut ==
    DockingTypeOK /\ [DockingNext]_dockingVars =>
        [\A p \in Ports : guy[p] # NoShip => guy'[p] \in {guy[p], NoShip}]_dockingVars
<1> SUFFICES ASSUME DockingTypeOK, DockingNext, NEW p \in Ports, guy[p] # NoShip
             PROVE  guy'[p] \in {guy[p], NoShip}
  OBVIOUS
<1> USE DEF DockingTypeOK
<1>1. ASSUME NEW s \in Players, NEW q \in Ports, Bump(s, q) \/ ScriptDocks(s, q)
      PROVE  guy'[p] = guy[p]
  BY <1>1 DEF Bump, ScriptDocks
<1>2. ASSUME NEW s \in Ships, RemoveFromPorts(s) PROVE guy'[p] \in {guy[p], NoShip}
  BY <1>2 DEF RemoveFromPorts
<1>3. ASSUME NEW n \in Npcs, Dock(n) PROVE guy'[p] = guy[p]
  BY <1>3 DEF Dock, Lost
<1>4. ASSUME NEW n \in Npcs, Undock(n) PROVE guy'[p] \in {guy[p], NoShip}
  BY <1>4 DEF Undock
<1>5. ASSUME NEW q \in Ports, PortMoves(q) PROVE guy'[p] \in {guy[p], NoShip}
  BY <1>5 DEF PortMoves
<1>6. ASSUME BaseDestroyed PROVE guy'[p] = NoShip
  BY <1>6 DEF BaseDestroyed
<1>7. CASE \E s \in Players : ToggleMagnets(s) \/ AskPermission(s) \/ PlayerDies(s) \/ Respawn(s)
  BY <1>7 DEF ToggleMagnets, AskPermission, PlayerDies, Respawn
<1>8. CASE \E q \in Ports : PermissionExpires(q)
  BY <1>8 DEF PermissionExpires
<1>9. CASE \E n \in Npcs, q \in Ports : Push(n, q) \/ Switch(n, q)
  BY <1>9 DEF Push, Switch
<1>10. CASE \E n \in Npcs, m \in {"stage", "approach"} : Steer(n, m)
  BY <1>10 DEF Steer
<1>11. CASE \E n \in Npcs : Depart(n) \/ Distract(n) \/ Overwrite(n)
  BY <1>11 DEF Depart, Distract, Overwrite
<1>12. CASE \E s \in Ships : Delete(s)
  BY <1>2, <1>12 DEF Delete
<1>13. CASE \E n \in Npcs : Abort(n) \/ Tidy(n)
  BY <1>2, <1>13, DockingConstants DEF Abort, Tidy
<1> QED
  BY <1>1, <1>3, <1>4, <1>5, <1>6, <1>7, <1>8, <1>9, <1>10, <1>11, <1>12, <1>13
  DEF DockingNext

(* Whoever is docked is never pushed out by another ship.                     *)
THEOREM NoPushingOut == DockingSpec => NobodyIsPushedOut
<1>1. DockingInv => DockingTypeOK
  BY DEF DockingInv
<1> QED
  BY <1>1, DockingInvariant, StepPushesNobodyOut, PTL DEF DockingSpec, NobodyIsPushedOut

-----------------------------------------------------------------------------
(* Fleets.                                                                    *)
LEMMA FleetConstants ==
    /\ MaxFleets \in Nat \ {0} /\ MaxShipsPerFleet \in Nat \ {0} /\ 0 \notin FleetShips
    /\ FleetNumbers = 1 .. MaxFleets
  BY FleetsAssumption DEF FleetNumbers

LEMMA FirstOfSet ==
    ASSUME NEW S, S \subseteq Nat, S # {}
    PROVE  FirstOf(S) \in S
  BY LeastOf DEF FirstOf

-----------------------------------------------------------------------------
(* fleet.c: taking a ship out of one fleet.                                   *)

(* No entry is there twice.                                                   *)
Distinct(q) == \A i, j \in DOMAIN q : q[i] = q[j] => i = j

(* A fleet without s.                                                         *)
LEMMA ShipRemoved ==
    ASSUME NEW S, NEW q \in Seq(S), Distinct(q), NEW s, NEW r, r = RemoveFirst(q, s)
    PROVE  /\ r \in Seq(S) /\ Distinct(r)
           /\ Len(r) \in Nat /\ Len(r) <= Len(q)
           /\ ToSet(r) = ToSet(q) \ {s}
           /\ s \notin ToSet(q) => r = q
<1>0. Len(q) \in Nat /\ DOMAIN q = 1 .. Len(q) /\ \A i \in 1 .. Len(q) : q[i] \in S
  BY LenProperties, ElementOfSeq
<1>1. CASE s \notin ToSet(q)
  <2>1. r = q
    BY <1>0, <1>1 DEF RemoveFirst, ToSet
  <2> QED BY <1>0, <1>1, <2>1
<1>2. CASE s \in ToSet(q)
  <2>1. PICK k \in 1 .. Len(q) : q[k] = s
    BY <1>0, <1>2 DEF ToSet
  <2>2. {i \in 1 .. Len(q) : q[i] = s} = {k}
    BY <1>0, <2>1 DEF Distinct
  <2>3. Min({k}) = k
    BY DEF Min
  <2>4. r = RemoveAt(q, k)
    BY <2>1, <2>2, <2>3 DEF RemoveFirst, SelectInSeq
  <2> DEFINE front == SubSeq(q, 1, k - 1)
             back == SubSeq(q, k + 1, Len(q))
  <2>5. front \in Seq(S) /\ Len(front) = k - 1 /\ \A i \in 1 .. k - 1 : front[i] = q[i]
    <3>1. k \in Nat /\ \A i \in 1 .. k - 1 : q[i] \in S
      BY <1>0, <2>1
    <3> QED BY <1>0, <3>1, SubSeqProperties
  <2>6. back \in Seq(S) /\ Len(back) = Len(q) - k /\ \A i \in 1 .. Len(q) - k : back[i] = q[k + i]
    <3>1. k \in Nat /\ \A i \in k + 1 .. Len(q) : q[i] \in S
      BY <1>0, <2>1
    <3> DEFINE m == k + 1
               n == Len(q)
    <3>2. k \in 1 .. n /\ n \in Nat /\ m \in Nat /\ m = k + 1
      BY <1>0, <2>1
    <3>3. back = SubSeq(q, m, n) /\ \A i \in m .. n : q[i] \in S
      BY <3>1
    <3> HIDE DEF m, n, back
    <3>4. /\ back \in Seq(S)
          /\ Len(back) = IF m <= n THEN n - m + 1 ELSE 0
          /\ \A i \in 1 .. n - m + 1 : back[i] = q[m + i - 1]
      BY <3>2, <3>3, SubSeqProperties
    <3>5. n - m + 1 = n - k /\ (m <= n \/ n - k = 0) /\ \A i \in 1 .. n - k : m + i - 1 = k + i
      BY <3>2
    <3>6. Len(back) = n - k /\ \A i \in 1 .. n - k : back[i] = q[k + i]
      BY <3>4, <3>5
    <3> QED BY <3>4, <3>6 DEF n
  <2>12. r = front \o back
    BY <2>4 DEF RemoveAt
  <2> HIDE DEF front, back
  <2>7. /\ r \in Seq(S) /\ Len(r) = Len(q) - 1
        /\ \A i \in 1 .. Len(q) - 1 : r[i] = IF i < k THEN q[i] ELSE q[i + 1]
    <3>1. /\ r \in Seq(S) /\ Len(r) = Len(front) + Len(back)
          /\ \A i \in 1 .. Len(front) + Len(back) :
                r[i] = IF i <= Len(front) THEN front[i] ELSE back[i - Len(front)]
      <4>1. front \in Seq(S) /\ back \in Seq(S)
        BY <2>5, <2>6
      <4> QED BY <4>1, <2>12, ConcatProperties, Zenon
    <3>2. Len(front) + Len(back) = Len(q) - 1
      BY <1>0, <2>1, <2>5, <2>6
    <3>3. ASSUME NEW i \in 1 .. Len(q) - 1 PROVE r[i] = IF i < k THEN q[i] ELSE q[i + 1]
      <4>1. CASE i < k
        <5>1. i \in 1 .. k - 1
          BY <1>0, <2>1, <4>1
        <5> QED BY <2>5, <3>1, <3>2, <4>1, <5>1
      <4>2. CASE ~(i < k)
        <5>1. i - (k - 1) \in 1 .. Len(q) - k /\ k + (i - (k - 1)) = i + 1
          BY <1>0, <2>1, <4>2
        <5>2. i - Len(front) = i - (k - 1) /\ ~(i <= Len(front)) /\ i \in 1 .. Len(front) + Len(back)
          BY <1>0, <2>1, <2>5, <3>2, <4>2
        <5>3. r[i] = back[i - (k - 1)]
          BY <3>1, <5>2
        <5>4. back[i - (k - 1)] = q[k + (i - (k - 1))]
          BY <2>6, <5>1
        <5> QED BY <4>2, <5>1, <5>3, <5>4
      <4> QED BY <4>1, <4>2
    <3> QED BY <3>1, <3>2, <3>3
  <2>9. DOMAIN r = 1 .. Len(q) - 1
    BY <2>7, LenProperties
  <2>10. Distinct(r)
    <3> SUFFICES ASSUME NEW i \in 1 .. Len(q) - 1, NEW j \in 1 .. Len(q) - 1, r[i] = r[j]
                 PROVE  i = j
      BY <2>9 DEF Distinct
    <3> DEFINE at(x) == IF x < k THEN x ELSE x + 1
    <3>0. \A x \in 1 .. Len(q) - 1 : at(x) \in 1 .. Len(q) /\ r[x] = q[at(x)]
      <4>1. Len(q) \in Nat /\ k \in Nat
        BY <1>0, <2>1
      <4> QED BY <2>7, <4>1
    <3>1. q[at(i)] = q[at(j)] /\ at(i) \in 1 .. Len(q) /\ at(j) \in 1 .. Len(q)
      <4> HIDE DEF at
      <4> QED BY <3>0
    <3>2. at(i) = at(j)
      <4> HIDE DEF at
      <4> QED BY <1>0, <3>1 DEF Distinct
    <3> QED BY <1>0, <2>1, <3>2
  <2>11. ToSet(r) = ToSet(q) \ {s}
    <3>1. ASSUME NEW x \in ToSet(r) PROVE x \in ToSet(q) /\ x # s
      <4>1. PICK i \in 1 .. Len(q) - 1 : x = r[i]
        BY <2>9 DEF ToSet
      <4>2. \E j \in 1 .. Len(q) : j # k /\ x = q[j]
        BY <1>0, <2>1, <2>7, <4>1
      <4> QED BY <1>0, <2>1, <4>2 DEF ToSet, Distinct
    <3>2. ASSUME NEW x \in ToSet(q), x # s PROVE x \in ToSet(r)
      <4>1. PICK j \in 1 .. Len(q) : x = q[j]
        BY <1>0 DEF ToSet
      <4>2. CASE j < k
        BY <1>0, <2>1, <2>7, <2>9, <4>1, <4>2 DEF ToSet
      <4>3. CASE k < j
        <5>1. j - 1 \in 1 .. Len(q) - 1 /\ ~(j - 1 < k) /\ j - 1 + 1 = j
          BY <1>0, <2>1, <4>3
        <5>2. r[j - 1] = x
          BY <2>7, <4>1, <5>1
        <5> QED BY <2>9, <5>1, <5>2 DEF ToSet
      <4> QED BY <2>1, <3>2, <4>1, <4>2, <4>3
    <3> QED BY <3>1, <3>2
  <2> QED BY <1>0, <1>2, <2>7, <2>10, <2>11
<1> QED BY <1>1, <1>2

-----------------------------------------------------------------------------
(* The operations of fleet.c on a table.                                      *)

TableOK(t) ==
    /\ t.ids \in [FleetNumbers -> Seq(FleetShips)]
    /\ t.lead \in [FleetNumbers -> FleetShips \cup {0}]
    /\ \A f \in FleetNumbers : Len(t.ids[f]) <= MaxShipsPerFleet /\ Distinct(t.ids[f])

(* s is in one fleet at most.                                                 *)
Single(t, s) == \A f, g \in IsIn(t, s) : f = g

(* Nobody but s has come or gone.                                             *)
OthersStay(t, u, s) == \A x \in FleetShips \ {s} : IsIn(u, x) = IsIn(t, x)

LEMMA EmptyFleet ==
    ASSUME NEW q \in Seq(FleetShips)
    PROVE  q = << >> <=> ToSet(q) = {}
<1>1. Len(q) \in Nat /\ DOMAIN q = 1 .. Len(q) /\ (q = << >> <=> Len(q) = 0)
  BY LenProperties, EmptySeq
<1>2. CASE Len(q) = 0
  BY <1>1, <1>2 DEF ToSet
<1>3. CASE Len(q) # 0
  <2>1. 1 \in DOMAIN q
    BY <1>1, <1>3
  <2> QED BY <1>1, <1>3, <2>1 DEF ToSet
<1> QED BY <1>2, <1>3

(* Fleets that s is not in are what they were.                                *)
KeepsOthers(t, u, s) ==
    \A f \in FleetNumbers :
        /\ s \notin ToSet(t.ids[f]) => u.ids[f] = t.ids[f]
        /\ t.ids[f] = << >> => u.ids[f] = << >>

LEMMA WithoutShip ==
    ASSUME NEW t, TableOK(t), NEW S \in SUBSET FleetNumbers, NEW s \in FleetShips,
           NEW u, u = Without(t, S, s)
    PROVE  /\ TableOK(u) /\ OthersStay(t, u, s)
           /\ IsIn(u, s) = IsIn(t, s) \ S
           /\ KeepsOthers(t, u, s)
<1>1. u.ids = [f \in FleetNumbers |-> IF f \in S THEN RemoveFirst(t.ids[f], s) ELSE t.ids[f]]
  BY DEF Without
<1>2. u.lead = [f \in FleetNumbers |-> IF u.ids[f] = << >> THEN t.lead[f] ELSE Head(u.ids[f])]
  BY <1>1 DEF Without
<1>3. ASSUME NEW f \in FleetNumbers
      PROVE  /\ u.ids[f] \in Seq(FleetShips) /\ Distinct(u.ids[f])
             /\ Len(u.ids[f]) <= MaxShipsPerFleet
             /\ ToSet(u.ids[f]) = IF f \in S THEN ToSet(t.ids[f]) \ {s} ELSE ToSet(t.ids[f])
             /\ s \notin ToSet(t.ids[f]) => u.ids[f] = t.ids[f]
  <2>1. t.ids[f] \in Seq(FleetShips) /\ Distinct(t.ids[f]) /\ Len(t.ids[f]) <= MaxShipsPerFleet
    BY DEF TableOK
  <2>2. Len(t.ids[f]) \in Nat
    BY <2>1, LenProperties
  <2>3. CASE f \in S
    <3>1. u.ids[f] = RemoveFirst(t.ids[f], s)
      BY <1>1, <2>3
    <3>2. Len(RemoveFirst(t.ids[f], s)) \in Nat /\ Len(RemoveFirst(t.ids[f], s)) <= Len(t.ids[f])
      BY <2>1, ShipRemoved
    <3>3. Len(u.ids[f]) <= MaxShipsPerFleet
      BY <2>1, <2>2, <3>1, <3>2, FleetConstants
    <3> QED BY <2>1, <2>3, <3>1, <3>3, ShipRemoved
  <2>4. CASE f \notin S
    BY <1>1, <2>1, <2>4
  <2> QED BY <2>3, <2>4
<1>4. ASSUME NEW f \in FleetNumbers PROVE u.lead[f] \in FleetShips \cup {0}
  <2>1. u.ids[f] # << >> => Head(u.ids[f]) \in FleetShips
    BY <1>3, HeadTailProperties
  <2> QED BY <1>2, <2>1 DEF TableOK
<1>5. TableOK(u)
  BY <1>1, <1>2, <1>3, <1>4 DEF TableOK
<1>6. OthersStay(t, u, s) /\ IsIn(u, s) = IsIn(t, s) \ S
  BY <1>3 DEF OthersStay, IsIn
<1>7. ASSUME NEW f \in FleetNumbers, t.ids[f] = << >> PROVE u.ids[f] = << >>
  <2>1. s \notin ToSet(t.ids[f])
    <3>1. t.ids[f] \in Seq(FleetShips)
      BY DEF TableOK
    <3> QED BY <1>7, <3>1, EmptyFleet
  <2> QED BY <1>3, <1>7, <2>1
<1> QED BY <1>3, <1>5, <1>6, <1>7 DEF KeepsOthers

LEMMA LeaveShip ==
    ASSUME NEW t, TableOK(t), NEW s \in FleetShips, NEW u, u = FleetLeave(t, s)
    PROVE  /\ TableOK(u) /\ OthersStay(t, u, s)
           /\ IsIn(u, s) \subseteq IsIn(t, s)
           /\ Single(t, s) => IsIn(u, s) = {}
           /\ \A f \in FleetNumbers : t.ids[f] = << >> => u.ids[f] = << >>
<1>1. CASE IsIn(t, s) = {}
  BY <1>1 DEF FleetLeave, OthersStay
<1>2. CASE IsIn(t, s) # {}
  <2> DEFINE S == {FirstOf(IsIn(t, s))}
  <2>1. FirstOf(IsIn(t, s)) \in IsIn(t, s)
    <3>1. IsIn(t, s) \subseteq Nat
      BY FleetConstants DEF IsIn
    <3> QED BY <1>2, <3>1, FirstOfSet
  <2>2. S \in SUBSET FleetNumbers /\ S \subseteq IsIn(t, s) /\ (Single(t, s) => IsIn(t, s) \subseteq S)
    BY <2>1 DEF IsIn, Single
  <2>3. FleetLeave(t, s) = Without(t, S, s)
    BY <1>2 DEF FleetLeave
  <2> HIDE DEF S
  <2>4. /\ TableOK(u) /\ OthersStay(t, u, s)
        /\ IsIn(u, s) = IsIn(t, s) \ S
        /\ \A f \in FleetNumbers : t.ids[f] = << >> => u.ids[f] = << >>
    <3>1. S \in SUBSET FleetNumbers /\ u = Without(t, S, s)
      BY <2>2, <2>3
    <3>2. TableOK(u) /\ OthersStay(t, u, s) /\ IsIn(u, s) = IsIn(t, s) \ S /\ KeepsOthers(t, u, s)
      BY <3>1, WithoutShip
    <3> QED BY <3>2 DEF KeepsOthers
  <2>5. IsIn(u, s) \subseteq IsIn(t, s) /\ (Single(t, s) => IsIn(u, s) = {})
    BY <2>2, <2>4
  <2> QED BY <2>4, <2>5
<1> QED BY <1>1, <1>2

LEMMA NewShip ==
    ASSUME NEW t, TableOK(t), NEW f \in FleetNumbers, t.ids[f] = << >>, NEW s \in FleetShips,
           NEW u, u = FleetNew(t, f, s)
    PROVE  /\ TableOK(u) /\ OthersStay(t, u, s)
           /\ IsIn(u, s) = IsIn(t, s) \cup {f}
           /\ \A g \in FleetNumbers \ {f} : u.ids[g] = t.ids[g]
<1>1. /\ u.ids = [t.ids EXCEPT ![f] = <<s>>] /\ u.lead = [t.lead EXCEPT ![f] = s]
      /\ t.ids \in [FleetNumbers -> Seq(FleetShips)]
      /\ t.lead \in [FleetNumbers -> FleetShips \cup {0}]
  BY DEF FleetNew, TableOK
<1>2. <<s>> \in Seq(FleetShips) /\ Len(<<s>>) = 1 /\ ToSet(<<s>>) = {s} /\ Distinct(<<s>>)
  BY DEF ToSet, Distinct
<1>3. ToSet(t.ids[f]) = {}
  BY <1>1, EmptyFleet
<1>4. u.ids[f] = <<s>> /\ \A g \in FleetNumbers \ {f} : u.ids[g] = t.ids[g]
  BY <1>1
<1>5. TableOK(u)
  <2>1. u.ids \in [FleetNumbers -> Seq(FleetShips)] /\ u.lead \in [FleetNumbers -> FleetShips \cup {0}]
    BY <1>1, <1>2
  <2>2. Len(u.ids[f]) <= MaxShipsPerFleet /\ Distinct(u.ids[f])
    BY <1>2, <1>4, FleetConstants
  <2> QED BY <1>4, <2>1, <2>2 DEF TableOK
<1>6. OthersStay(t, u, s) /\ IsIn(u, s) = IsIn(t, s) \cup {f}
  BY <1>2, <1>3, <1>4 DEF OthersStay, IsIn
<1> QED BY <1>4, <1>5, <1>6

LEMMA JoinShip ==
    ASSUME NEW t, TableOK(t), NEW f \in FleetNumbers, NEW s \in FleetShips,
           Len(t.ids[f]) < MaxShipsPerFleet, NEW u, u = FleetJoin(t, f, s)
    PROVE  /\ TableOK(u) /\ OthersStay(t, u, s)
           /\ f \in IsIn(u, s)
           /\ Single(t, s) => Single(u, s)
<1>1. CASE f \in IsIn(t, s)
  <2> DEFINE S == {g \in IsIn(t, s) : g < f}
  <2>1. S \in SUBSET FleetNumbers /\ f \notin S
    BY FleetConstants DEF IsIn
  <2>2. u = Without(t, S, s)
    BY <1>1 DEF FleetJoin
  <2> HIDE DEF S
  <2>3. TableOK(u) /\ OthersStay(t, u, s) /\ IsIn(u, s) = IsIn(t, s) \ S
    BY <2>1, <2>2, WithoutShip
  <2>4. f \in IsIn(u, s) /\ (Single(t, s) => Single(u, s))
    BY <1>1, <2>1, <2>3 DEF Single
  <2> QED BY <2>3, <2>4
<1>2. CASE f \notin IsIn(t, s)
  <2> DEFINE v == Without(t, IsIn(t, s), s)
  <2>1. /\ u.ids = [v.ids EXCEPT ![f] = Append(v.ids[f], s)]
        /\ u.lead = [v.lead EXCEPT ![f] = IF v.ids[f] = << >> THEN s ELSE v.lead[f]]
    BY <1>2 DEF FleetJoin
  <2>2. IsIn(t, s) \in SUBSET FleetNumbers
    BY DEF IsIn
  <2>3. TableOK(v) /\ OthersStay(t, v, s) /\ IsIn(v, s) = {} /\ v.ids[f] = t.ids[f]
    <3>1. s \notin ToSet(t.ids[f])
      BY <1>2 DEF IsIn
    <3>2. /\ TableOK(v) /\ OthersStay(t, v, s)
          /\ IsIn(v, s) = {}
          /\ s \notin ToSet(t.ids[f]) => v.ids[f] = t.ids[f]
      <4> DEFINE S == IsIn(t, s)
      <4>1. S \in SUBSET FleetNumbers /\ v = Without(t, S, s)
        BY <2>2
      <4> HIDE DEF v, S
      <4>2. TableOK(v) /\ OthersStay(t, v, s) /\ IsIn(v, s) = IsIn(t, s) \ S /\ KeepsOthers(t, v, s)
        BY <4>1, WithoutShip
      <4> QED BY <4>2 DEF S, KeepsOthers
    <3> HIDE DEF v
    <3> QED BY <3>1, <3>2
  <2> HIDE DEF v
  <2> DEFINE q == Append(v.ids[f], s)
  <2>4. v.ids[f] \in Seq(FleetShips) /\ Distinct(v.ids[f]) /\ s \notin ToSet(v.ids[f])
    BY <2>3 DEF TableOK, IsIn
  <2>5. /\ q \in Seq(FleetShips) /\ Len(q) = Len(v.ids[f]) + 1 /\ Len(v.ids[f]) \in Nat
        /\ \A i \in 1 .. Len(v.ids[f]) : q[i] = v.ids[f][i]
        /\ q[Len(v.ids[f]) + 1] = s
        /\ DOMAIN q = 1 .. Len(v.ids[f]) + 1 /\ DOMAIN v.ids[f] = 1 .. Len(v.ids[f])
    BY <2>4, AppendProperties, LenProperties
  <2> HIDE DEF q
  <2>6. ToSet(q) = ToSet(v.ids[f]) \cup {s}
    <3>1. ASSUME NEW x \in ToSet(q) PROVE x \in ToSet(v.ids[f]) \cup {s}
      <4>1. PICK i \in 1 .. Len(v.ids[f]) + 1 : x = q[i]
        BY <2>5 DEF ToSet
      <4>2. i = Len(v.ids[f]) + 1 \/ i \in 1 .. Len(v.ids[f])
        BY <2>5, <4>1
      <4> QED BY <2>5, <4>1, <4>2 DEF ToSet
    <3>2. ASSUME NEW x \in ToSet(v.ids[f]) PROVE x \in ToSet(q)
      BY <2>5 DEF ToSet
    <3>3. s \in ToSet(q)
      BY <2>5 DEF ToSet
    <3> QED BY <3>1, <3>2, <3>3
  <2>7. Distinct(q)
    <3> DEFINE n == Len(v.ids[f])
    <3>1. \A i \in 1 .. n : v.ids[f][i] # s
      BY <2>4, <2>5 DEF ToSet
    <3>2. ASSUME NEW i \in 1 .. n + 1, NEW j \in 1 .. n + 1, q[i] = q[j] PROVE i = j
      <4>1. CASE i = n + 1 \/ j = n + 1
        BY <2>5, <3>1, <3>2, <4>1
      <4>2. CASE i # n + 1 /\ j # n + 1
        <5>1. \A m \in Nat : i \in 1 .. m + 1 /\ i # m + 1 => i \in 1 .. m
          OBVIOUS
        <5>2. \A m \in Nat : j \in 1 .. m + 1 /\ j # m + 1 => j \in 1 .. m
          OBVIOUS
        <5>3. i \in 1 .. n /\ j \in 1 .. n
          BY <2>5, <4>2, <5>1, <5>2
        <5> QED BY <2>4, <2>5, <3>2, <5>3 DEF Distinct
      <4> QED BY <4>1, <4>2
    <3> QED BY <2>5, <3>2 DEF Distinct
  <2>8. u.ids[f] = q /\ \A g \in FleetNumbers \ {f} : u.ids[g] = v.ids[g]
    BY <2>1, <2>3 DEF TableOK, q
  <2>9. TableOK(u)
    <3>1. u.ids \in [FleetNumbers -> Seq(FleetShips)]
      BY <2>1, <2>3, <2>5 DEF TableOK, q
    <3>2. u.lead \in [FleetNumbers -> FleetShips \cup {0}]
      BY <2>1, <2>3 DEF TableOK
    <3>3. Len(q) <= MaxShipsPerFleet
      BY <2>3, <2>5, FleetConstants
    <3> QED BY <2>3, <2>7, <2>8, <3>1, <3>2, <3>3 DEF TableOK
  <2>10. IsIn(u, s) = {f} /\ OthersStay(v, u, s)
    BY <2>3, <2>6, <2>8 DEF IsIn, OthersStay
  <2>11. OthersStay(t, u, s)
    BY <2>3, <2>10 DEF OthersStay
  <2> QED BY <2>9, <2>10, <2>11 DEF Single
<1> QED BY <1>1, <1>2

-----------------------------------------------------------------------------
(* A ship that joins one fleet after the other.                               *)

UptoBy(g, n, t, s, own) ==
    g = [f \in 0 .. n |-> IF f = 0 THEN [table |-> t, last |-> 0] ELSE JoinOne(g[f - 1], f, s, own)]

(* The function JoinAll speaks of exists.                                     *)
LEMMA UptoExists ==
    ASSUME NEW t, NEW s, NEW own
    PROVE  \A n \in Nat : \E g : UptoBy(g, n, t, s, own)
<1> DEFINE Bad == {n \in Nat : ~\E g : UptoBy(g, n, t, s, own)}
<1> SUFFICES ASSUME Bad # {} PROVE FALSE
  OBVIOUS
<1>1. PICK m \in Bad : \A n \in Bad : m <= n
  BY LeastOf
<1>2. m \in Nat
  BY <1>1
<1>3. CASE m = 0
  <2> DEFINE g == [f \in 0 .. 0 |-> [table |-> t, last |-> 0]]
  <2>1. UptoBy(g, 0, t, s, own)
    BY DEF UptoBy
  <2> QED BY <1>1, <1>3, <2>1
<1>4. CASE m # 0
  <2>1. m - 1 \in Nat /\ m - 1 \notin Bad
    BY <1>1, <1>2, <1>4
  <2>2. PICK g : UptoBy(g, m - 1, t, s, own)
    BY <2>1
  <2> DEFINE h == [f \in 0 .. m |-> IF f = 0 THEN [table |-> t, last |-> 0]
                                             ELSE JoinOne(g[f - 1], f, s, own)]
  <2>3. ASSUME NEW f \in 0 .. m - 1 PROVE h[f] = g[f]
    BY <1>2, <2>2 DEF UptoBy
  <2>4. ASSUME NEW f \in 0 .. m, f # 0 PROVE h[f - 1] = g[f - 1]
    <3>1. f - 1 \in 0 .. m - 1
      BY <1>2, <2>4
    <3> QED BY <2>3, <3>1
  <2>5. UptoBy(h, m, t, s, own)
    <3> DEFINE k == [f \in 0 .. m |-> IF f = 0 THEN [table |-> t, last |-> 0]
                                               ELSE JoinOne(h[f - 1], f, s, own)]
    <3>1. ASSUME NEW f \in 0 .. m PROVE h[f] = k[f]
      BY <2>4
    <3>2. h = k
      <4> HIDE DEF UptoBy
      <4> QED BY <3>1
    <3> QED BY <3>2 DEF UptoBy
  <2> QED BY <1>1, <2>5
<1> QED BY <1>3, <1>4

(* What is true of the fleets before is true of them after each of them.      *)
JoinedOK(u, t, s, f) ==
    /\ TableOK(u.table) /\ OthersStay(t, u.table, s)
    /\ Single(t, s) => Single(u.table, s)
    /\ u.last \in 0 .. f
    /\ u.last = 0 => u.table = t
    /\ u.last # 0 => u.last \in IsIn(u.table, s)

LEMMA JoinOneOK ==
    ASSUME NEW t, NEW s \in FleetShips, NEW own, NEW f \in FleetNumbers,
           NEW u, JoinedOK(u, t, s, f - 1)
    PROVE  JoinedOK(JoinOne(u, f, s, own), t, s, f)
<1>1. f \in Nat /\ f # 0 /\ f - 1 \in Nat
  BY FleetConstants
<1>2. CASE Joinable(u.table, f, own)
  <2> DEFINE v == FleetJoin(u.table, f, s)
  <2>1. JoinOne(u, f, s, own) = [table |-> v, last |-> f]
    BY <1>2 DEF JoinOne
  <2>2. TableOK(u.table) /\ Len(u.table.ids[f]) < MaxShipsPerFleet
    BY <1>2 DEF JoinedOK, Joinable
  <2>3. /\ TableOK(v) /\ OthersStay(u.table, v, s) /\ f \in IsIn(v, s)
        /\ Single(u.table, s) => Single(v, s)
    BY <2>2, JoinShip
  <2> HIDE DEF v
  <2>4. OthersStay(t, v, s)
    BY <2>3 DEF JoinedOK, OthersStay
  <2>5. Single(t, s) => Single(v, s)
    BY <2>3 DEF JoinedOK
  <2> QED BY <1>1, <2>1, <2>3, <2>4, <2>5 DEF JoinedOK
<1>3. CASE ~Joinable(u.table, f, own)
  <2>1. JoinOne(u, f, s, own) = u
    BY <1>3 DEF JoinOne
  <2>2. u.last \in 0 .. f
    BY <1>1 DEF JoinedOK
  <2> QED BY <2>1, <2>2 DEF JoinedOK
<1> QED BY <1>2, <1>3

LEMMA JoinAllOK ==
    ASSUME NEW t, TableOK(t), NEW s \in FleetShips, NEW own
    PROVE  JoinedOK(JoinAll(t, s, own), t, s, MaxFleets)
<1> DEFINE g == CHOOSE g : UptoBy(g, MaxFleets, t, s, own)
<1>1. UptoBy(g, MaxFleets, t, s, own)
  BY UptoExists, FleetConstants
<1>2. JoinAll(t, s, own) = g[MaxFleets]
  BY DEF JoinAll, UptoBy
<1> HIDE DEF g
<1> DEFINE Bad == {f \in 0 .. MaxFleets : ~JoinedOK(g[f], t, s, f)}
<1>3. Bad = {}
  <2> SUFFICES ASSUME Bad # {} PROVE FALSE
    OBVIOUS
  <2>1. PICK m \in Bad : \A f \in Bad : m <= f
    <3>1. Bad \subseteq Nat
      BY FleetConstants
    <3> HIDE DEF Bad
    <3> QED BY <3>1, LeastOf
  <2>2. m \in Nat /\ m \in 0 .. MaxFleets /\ ~JoinedOK(g[m], t, s, m)
    BY <2>1
  <2>3. CASE m = 0
    <3>1. g[0] = [table |-> t, last |-> 0]
      BY <1>1, FleetConstants DEF UptoBy
    <3>2. JoinedOK(g[0], t, s, 0)
      BY <3>1 DEF JoinedOK, OthersStay
    <3> QED BY <2>2, <2>3, <3>2
  <2>4. CASE m # 0
    <3>1. m \in FleetNumbers /\ m - 1 \in 0 .. MaxFleets /\ ~(m <= m - 1)
      BY <2>2, <2>4, FleetConstants
    <3>2. JoinedOK(g[m - 1], t, s, m - 1)
      BY <2>1, <3>1
    <3>3. g[m] = JoinOne(g[m - 1], m, s, own)
      BY <1>1, <2>2, <2>4 DEF UptoBy
    <3> QED BY <2>2, <3>1, <3>2, <3>3, JoinOneOK
  <2> QED BY <2>3, <2>4
<1> QED BY <1>2, <1>3, FleetConstants

-----------------------------------------------------------------------------
(* The invariant.  No fleet has a ship twice, fleets that were never founded  *)
(* are empty, and who has never founded a second is in one at most.           *)

NoneTwice == \A f \in FleetNumbers : Distinct(ids[f])
UnfoundedAreEmpty == \A f \in FleetNumbers : f > nfleets => ids[f] = << >>
OnceInOne == \A s \in FleetShips \ twice : Single(FleetTable, s)
GoneFromFleets ==
    \A s \in deleted : mine[s] = 0 /\ (s \notin twice => IsIn(FleetTable, s) = {})

FleetsInv ==
    /\ FleetsTypeOK
    /\ NoneTwice
    /\ UnfoundedAreEmpty
    /\ OnceInOne
    /\ GoneFromFleets
    /\ FollowersAreMembers

LEMMA FleetTableOK == FleetsInv => TableOK(FleetTable)
  BY DEF FleetsInv, FleetsTypeOK, NoneTwice, TableOK, FleetTable

LEMMA FleetsInvInit == FleetsInit => FleetsInv
<1> SUFFICES ASSUME FleetsInit PROVE FleetsInv
  OBVIOUS
<1> USE FleetConstants
<1>1. FleetsTypeOK
  <2>1. << >> \in Seq(FleetShips) /\ Len(<< >>) = 0
    OBVIOUS
  <2> QED BY <2>1 DEF FleetsInit, FleetsTypeOK
<1>2. NoneTwice /\ UnfoundedAreEmpty
  BY DEF FleetsInit, NoneTwice, UnfoundedAreEmpty, Distinct
<1>3. \A s \in FleetShips : IsIn(FleetTable, s) = {}
  BY DEF FleetsInit, IsIn, FleetTable, ToSet
<1>4. OnceInOne /\ GoneFromFleets /\ FollowersAreMembers
  BY <1>3 DEF FleetsInit, OnceInOne, Single, GoneFromFleets, FollowersAreMembers
<1> QED BY <1>1, <1>2, <1>4 DEF FleetsInv

(* What an action of ship s leaves, seen from the table it ends with.         *)
LEMMA ShipActs ==
    ASSUME FleetsInv, NEW s \in FleetShips, NEW u, TableOK(u), OthersStay(FleetTable, u, s),
           Becomes(u), mine' \in [FleetShips -> 0 .. MaxFleets],
           orders' \in [FleetShips -> {"none", "leads", "follows", "other"}],
           nfleets' \in 0 .. MaxFleets,
           \A x \in FleetShips \ {s} : mine'[x] = mine[x],
           mine'[s] # 0 => mine'[s] \in IsIn(u, s),
           \A f \in FleetNumbers : f > nfleets' => u.ids[f] = << >>,
           twice' \in {twice, twice \cup {s}}, s \notin twice' => Single(u, s),
           deleted' \in {deleted, deleted \cup {s}},
           s \in deleted' => mine'[s] = 0 /\ (s \notin twice' => IsIn(u, s) = {})
    PROVE  FleetsInv'
<1>1. ids' = u.ids /\ lead' = u.lead
  BY DEF Becomes
<1>2. \A x \in FleetShips : IsIn(FleetTable, x)' = IsIn(u, x)
  BY <1>1 DEF IsIn, FleetTable
<1>3. FleetsTypeOK'
  BY <1>1 DEF FleetsInv, FleetsTypeOK, TableOK
<1>4. NoneTwice' /\ UnfoundedAreEmpty'
  BY <1>1 DEF NoneTwice, UnfoundedAreEmpty, TableOK
<1>5. ASSUME NEW x \in FleetShips, x # s
      PROVE  IsIn(FleetTable, x)' = IsIn(FleetTable, x)
  BY <1>2, <1>5 DEF OthersStay
<1>6. OnceInOne'
  BY <1>2, <1>5 DEF FleetsInv, OnceInOne, Single
<1>7. GoneFromFleets'
  <2> SUFFICES ASSUME NEW x \in deleted'
               PROVE  mine'[x] = 0 /\ (x \notin twice' => IsIn(FleetTable, x)' = {})
    BY DEF GoneFromFleets
  <2>1. x \in FleetShips
    BY DEF FleetsInv, FleetsTypeOK
  <2>2. CASE x = s
    BY <1>2, <2>1, <2>2
  <2>3. CASE x # s
    BY <1>5, <2>1, <2>3 DEF FleetsInv, GoneFromFleets
  <2> QED BY <2>2, <2>3
<1>8. FollowersAreMembers'
  <2> SUFFICES ASSUME NEW x \in FleetShips, mine'[x] # 0
               PROVE  mine'[x] \in IsIn(FleetTable, x)'
    BY <1>1 DEF FollowersAreMembers, IsIn, FleetTable
  <2>1. CASE x = s
    BY <1>2, <2>1
  <2>2. CASE x # s
    <3>1. mine[x] \in FleetNumbers
      BY <2>2, FleetConstants DEF FleetsInv, FleetsTypeOK
    <3> QED BY <1>5, <2>2, <3>1 DEF FleetsInv, FollowersAreMembers, IsIn, FleetTable
  <2> QED BY <2>1, <2>2
<1> QED BY <1>3, <1>4, <1>6, <1>7, <1>8 DEF FleetsInv

(* ship_figure_out_what_to_do, of a ship that is where it was or has left one *)
(* fleet.                                                                     *)
LEMMA FigureOutKeeps ==
    ASSUME FleetsInv, NEW s \in FleetShips, s \notin deleted, deleted' = deleted,
           NEW t, TableOK(t), OthersStay(FleetTable, t, s), FigureOut(t, s),
           \A f \in FleetNumbers : ids[f] = << >> => t.ids[f] = << >>,
           s \notin twice => Single(t, s)
    PROVE  FleetsInv'
<1>1. /\ mine \in [FleetShips -> 0 .. MaxFleets] /\ nfleets \in 0 .. MaxFleets
      /\ orders \in [FleetShips -> {"none", "leads", "follows", "other"}]
      /\ \A f \in FleetNumbers : f > nfleets => t.ids[f] = << >>
  BY DEF FleetsInv, FleetsTypeOK, UnfoundedAreEmpty
<1>2. ASSUME NEW f \in 0 .. MaxFleets, NEW o \in {"none", "leads", "follows", "other"}, Gets(s, f, o)
      PROVE  /\ mine' \in [FleetShips -> 0 .. MaxFleets]
             /\ orders' \in [FleetShips -> {"none", "leads", "follows", "other"}]
             /\ \A x \in FleetShips \ {s} : mine'[x] = mine[x]
             /\ mine'[s] = f
  BY <1>1, <1>2 DEF Gets
<1>3. CASE Found(t, s)
  <2> DEFINE f == NewFleet(t)
             u == FleetNew(t, f, s)
  <2>1. /\ f \in FleetNumbers /\ t.ids[f] = << >>
        /\ nfleets' \in 0 .. MaxFleets /\ f <= nfleets' /\ nfleets <= nfleets'
    <3>1. CASE EmptyFleets(t) = {}
      <4>1. f = nfleets + 1 /\ nfleets' = nfleets + 1
        BY <1>3, <3>1 DEF NewFleet, Found
      <4> QED BY <1>1, <1>3, <4>1, FleetConstants DEF Found
    <3>2. CASE EmptyFleets(t) # {}
      <4>1. EmptyFleets(t) \subseteq Nat
        BY <1>1 DEF EmptyFleets
      <4>2. f \in EmptyFleets(t) /\ nfleets' = nfleets
        BY <1>3, <3>2, <4>1, FirstOfSet DEF NewFleet, Found
      <4> QED BY <1>1, <4>2, FleetConstants DEF EmptyFleets
    <3> QED BY <3>1, <3>2
  <2>2. Becomes(u) /\ Gets(s, f, "leads")
        /\ twice' = IF IsIn(t, s) = {} THEN twice ELSE twice \cup {s}
    BY <1>3 DEF Found
  <2> HIDE DEF f
  <2>3. /\ TableOK(u) /\ OthersStay(t, u, s) /\ IsIn(u, s) = IsIn(t, s) \cup {f}
        /\ \A g \in FleetNumbers \ {f} : u.ids[g] = t.ids[g]
    BY <2>1, NewShip
  <2> HIDE DEF u
  <2>4. OthersStay(FleetTable, u, s)
    BY <2>3 DEF OthersStay
  <2>5. \A g \in FleetNumbers : g > nfleets' => u.ids[g] = << >>
    <3> SUFFICES ASSUME NEW g \in FleetNumbers, g > nfleets' PROVE u.ids[g] = << >>
      OBVIOUS
    <3>1. g # f /\ g > nfleets
      BY <1>1, <2>1, FleetConstants
    <3> QED BY <1>1, <2>3, <3>1
  <2>6. twice' \in {twice, twice \cup {s}} /\ (s \notin twice' => Single(u, s))
    BY <2>2, <2>3 DEF Single
  <2>7. f \in 0 .. MaxFleets
    BY <2>1, FleetConstants
  <2>8. /\ mine' \in [FleetShips -> 0 .. MaxFleets]
        /\ orders' \in [FleetShips -> {"none", "leads", "follows", "other"}]
        /\ \A x \in FleetShips \ {s} : mine'[x] = mine[x]
        /\ mine'[s] \in IsIn(u, s)
    BY <1>2, <2>2, <2>3, <2>7
  <2> QED BY <2>1, <2>2, <2>3, <2>4, <2>5, <2>6, <2>8, ShipActs
<1>4. ASSUME NEW own \in SUBSET FleetNumbers, Enlist(t, s, own) PROVE FleetsInv'
  <2> DEFINE v == JoinAll(t, s, own)
             u == v.table
  <2>1. JoinedOK(v, t, s, MaxFleets)
    BY JoinAllOK
  <2>2. /\ Becomes(u) /\ nfleets = MaxFleets /\ nfleets' = nfleets /\ twice' = twice
        /\ Gets(s, v.last, IF v.last = 0 THEN "other" ELSE "follows")
    BY <1>4 DEF Enlist
  <2> HIDE DEF v
  <2>3. OthersStay(FleetTable, u, s)
    BY <2>1 DEF JoinedOK, OthersStay
  <2>4. /\ mine' \in [FleetShips -> 0 .. MaxFleets]
        /\ orders' \in [FleetShips -> {"none", "leads", "follows", "other"}]
        /\ \A x \in FleetShips \ {s} : mine'[x] = mine[x]
        /\ mine'[s] = v.last
    BY <1>2, <2>1, <2>2 DEF JoinedOK
  <2>5. \A g \in FleetNumbers : g > nfleets' => u.ids[g] = << >>
    BY <2>2, FleetConstants
  <2>6. TableOK(u) /\ (s \notin twice => Single(u, s)) /\ (v.last # 0 => v.last \in IsIn(u, s))
    BY <2>1 DEF JoinedOK
  <2> HIDE DEF u
  <2> QED BY <1>1, <2>2, <2>3, <2>4, <2>5, <2>6, ShipActs
<1>5. CASE Becomes(t) /\ Gets(s, 0, "other") /\ UNCHANGED <<nfleets, twice>>
  <2>1. 0 \in 0 .. MaxFleets
    BY FleetConstants
  <2>2. /\ mine' \in [FleetShips -> 0 .. MaxFleets]
        /\ orders' \in [FleetShips -> {"none", "leads", "follows", "other"}]
        /\ \A x \in FleetShips \ {s} : mine'[x] = mine[x]
        /\ mine'[s] = 0
    BY <1>2, <1>5, <2>1
  <2> QED BY <1>1, <1>5, <2>2, ShipActs
<1> QED BY <1>3, <1>4, <1>5 DEF FigureOut

LEMMA FleetsInvNext == FleetsInv /\ [FleetsNext]_fleetVars => FleetsInv'
<1> SUFFICES ASSUME FleetsInv, [FleetsNext]_fleetVars PROVE FleetsInv'
  OBVIOUS
<1>0. TableOK(FleetTable)
  BY FleetTableOK
<1>1. /\ mine \in [FleetShips -> 0 .. MaxFleets] /\ nfleets \in 0 .. MaxFleets
      /\ orders \in [FleetShips -> {"none", "leads", "follows", "other"}]
      /\ \A f \in FleetNumbers : f > nfleets => ids[f] = << >>
      /\ \A s \in FleetShips \ twice : Single(FleetTable, s)
      /\ FleetTable.ids = ids
  BY DEF FleetsInv, FleetsTypeOK, UnfoundedAreEmpty, OnceInOne, FleetTable
<1>2. ASSUME NEW s \in FleetShips, Decides(s) PROVE FleetsInv'
  <2>1. OthersStay(FleetTable, FleetTable, s)
    BY DEF OthersStay
  <2> QED BY <1>0, <1>1, <1>2, <2>1, FigureOutKeeps DEF Decides
<1>3. ASSUME NEW s \in FleetShips, LeavesFleet(s) PROVE FleetsInv'
  <2> DEFINE t == FleetLeave(FleetTable, s)
  <2>1. s \notin deleted /\ deleted' = deleted /\ FigureOut(t, s)
    BY <1>3 DEF LeavesFleet
  <2>2. /\ TableOK(t) /\ OthersStay(FleetTable, t, s)
        /\ Single(FleetTable, s) => IsIn(t, s) = {}
        /\ \A f \in FleetNumbers : ids[f] = << >> => t.ids[f] = << >>
    BY <1>0, <1>1, LeaveShip
  <2> HIDE DEF t
  <2>3. s \notin twice => Single(t, s)
    BY <1>1, <2>2 DEF Single
  <2> QED BY <2>1, <2>2, <2>3, FigureOutKeeps
<1>4. ASSUME NEW s \in FleetShips, Deleted(s) PROVE FleetsInv'
  <2> DEFINE t == FleetLeave(FleetTable, s)
  <2>1. /\ s \notin deleted /\ deleted' = deleted \cup {s} /\ Becomes(t)
        /\ mine' = [mine EXCEPT ![s] = 0] /\ orders' = [orders EXCEPT ![s] = "none"]
        /\ nfleets' = nfleets /\ twice' = twice
    BY <1>4 DEF Deleted, Gets
  <2>2. /\ TableOK(t) /\ OthersStay(FleetTable, t, s)
        /\ Single(FleetTable, s) => IsIn(t, s) = {}
        /\ \A f \in FleetNumbers : ids[f] = << >> => t.ids[f] = << >>
    BY <1>0, <1>1, LeaveShip
  <2> HIDE DEF t
  <2>3. s \notin twice => IsIn(t, s) = {} /\ Single(t, s)
    BY <1>1, <2>2 DEF Single
  <2>4. /\ mine' \in [FleetShips -> 0 .. MaxFleets]
        /\ orders' \in [FleetShips -> {"none", "leads", "follows", "other"}]
        /\ \A x \in FleetShips \ {s} : mine'[x] = mine[x]
        /\ mine'[s] = 0
    BY <1>1, <2>1, FleetConstants
  <2>5. \A f \in FleetNumbers : f > nfleets' => t.ids[f] = << >>
    BY <1>1, <2>1, <2>2
  <2> QED BY <1>1, <2>1, <2>2, <2>3, <2>4, <2>5, ShipActs
<1>5. ASSUME NEW s \in FleetShips, NEW o \in {"none", "other"}, Cleared(s, o) PROVE FleetsInv'
  <2>1. /\ s \notin deleted /\ mine' = [mine EXCEPT ![s] = 0] /\ orders' = [orders EXCEPT ![s] = o]
        /\ UNCHANGED <<nfleets, ids, lead, deleted, twice>>
    BY <1>5 DEF Cleared, Gets
  <2>2. Becomes(FleetTable) /\ OthersStay(FleetTable, FleetTable, s)
    BY <2>1 DEF Becomes, FleetTable, OthersStay
  <2>3. /\ mine' \in [FleetShips -> 0 .. MaxFleets]
        /\ orders' \in [FleetShips -> {"none", "leads", "follows", "other"}]
        /\ \A x \in FleetShips \ {s} : mine'[x] = mine[x]
        /\ mine'[s] = 0
    BY <1>1, <2>1, FleetConstants
  <2> QED BY <1>0, <1>1, <2>1, <2>2, <2>3, ShipActs
<1>6. ASSUME NEW s \in FleetShips, BecomesLeader(s) PROVE FleetsInv'
  <2>1. /\ s \notin deleted /\ mine' = mine /\ orders' = [orders EXCEPT ![s] = "leads"]
        /\ UNCHANGED <<nfleets, ids, lead, deleted, twice>>
    BY <1>1, <1>6 DEF BecomesLeader, Gets
  <2>2. Becomes(FleetTable) /\ OthersStay(FleetTable, FleetTable, s)
    BY <2>1 DEF Becomes, FleetTable, OthersStay
  <2>3. orders' \in [FleetShips -> {"none", "leads", "follows", "other"}]
    BY <1>1, <2>1
  <2>4. mine'[s] # 0 => mine'[s] \in IsIn(FleetTable, s)
    <3>1. mine[s] # 0 => mine[s] \in FleetNumbers
      BY <1>1, FleetConstants
    <3> QED BY <2>1, <3>1 DEF FleetsInv, FollowersAreMembers, IsIn, FleetTable
  <2> QED BY <1>0, <1>1, <2>1, <2>2, <2>3, <2>4, ShipActs
<1>7. CASE UNCHANGED fleetVars
  BY <1>7 DEF fleetVars, FleetsInv, FleetsTypeOK, NoneTwice, UnfoundedAreEmpty, OnceInOne,
              GoneFromFleets, FollowersAreMembers, Single, IsIn, FleetTable
<1> QED BY <1>2, <1>3, <1>4, <1>5, <1>6, <1>7 DEF FleetsNext

LEMMA FleetsInvHolds == FleetsSpec => []FleetsInv
  BY FleetsInvInit, FleetsInvNext, PTL DEF FleetsSpec

(* A ship is in one fleet at most, once, and in none when it is gone, unless  *)
(* it founded a fleet while it was in one: for any number of fleets and       *)
(* ships.                                                                     *)
THEOREM FleetsForgetTheDead == FleetsSpec => []FleetsAreOfTheLiving
<1>1. FleetsInv => FleetsAreOfTheLiving
  <2> SUFFICES ASSUME FleetsInv, NEW s \in FleetShips \ twice
               PROVE  /\ \A f, g \in FleetNumbers, i, j \in 1 .. MaxShipsPerFleet :
                            i \in DOMAIN ids[f] /\ j \in DOMAIN ids[g]
                            /\ ids[f][i] = s /\ ids[g][j] = s => f = g /\ i = j
                      /\ s \in deleted => IsIn(FleetTable, s) = {}
    BY DEF FleetsAreOfTheLiving
  <2>1. \A f, g \in FleetNumbers :
           s \in ToSet(ids[f]) /\ s \in ToSet(ids[g]) => f = g
    BY DEF FleetsInv, OnceInOne, Single, IsIn, FleetTable
  <2>2. \A f \in FleetNumbers : \A i, j \in DOMAIN ids[f] : ids[f][i] = ids[f][j] => i = j
    BY DEF FleetsInv, NoneTwice, Distinct
  <2>3. \A f \in FleetNumbers : \A i \in DOMAIN ids[f] : ids[f][i] \in ToSet(ids[f])
    BY DEF ToSet
  <2>4. s \in deleted => IsIn(FleetTable, s) = {}
    BY DEF FleetsInv, GoneFromFleets
  <2> QED BY <2>1, <2>2, <2>3, <2>4
<1> QED BY FleetsInvHolds, <1>1, PTL

(* Whoever has a fleet in mind is in it: fleet_position_number finds it.      *)
THEOREM FollowersAreFound == FleetsSpec => []FollowersAreMembers
<1>1. FleetsInv => FollowersAreMembers
  BY DEF FleetsInv
<1> QED BY FleetsInvHolds, <1>1, PTL

(* The variables of Fleets keep their types: no fleet grows beyond its room.  *)
THEOREM FleetsTypes == FleetsSpec => []FleetsTypeOK
<1>1. FleetsInv => FleetsTypeOK
  BY DEF FleetsInv
<1> QED BY FleetsInvHolds, <1>1, PTL

-----------------------------------------------------------------------------
(* The talking sticks: none is lost or shared, and what a client gives up     *)
(* comes back, however many packets are on their way.                         *)
LEMMA NoStickIsNone == NoStick \notin Sticks /\ MaxPackets \in Nat
  BY StickAssumption

LEMMA StickTypeInit == StickInit => StickTypeOK
<1> SUFFICES ASSUME StickInit PROVE StickTypeOK
  OBVIOUS
<1>1. << >> \in Seq({"request", "release"})
  OBVIOUS
<1> QED BY <1>1, NoStickIsNone DEF StickInit, StickTypeOK

LEMMA SendKeepsType ==
    ASSUME StickTypeOK, NEW c \in Talkers, NEW p \in {"request", "release"}, Send(c, p)
    PROVE  requests' \in [Talkers -> Seq({"request", "release"})]
<1>1. Append(requests[c], p) \in Seq({"request", "release"})
  BY DEF StickTypeOK
<1> QED BY <1>1 DEF StickTypeOK, Send

LEMMA PacketKeepsType ==
    ASSUME StickTypeOK, NEW c \in Talkers, NEW p, Packet(c, p)
    PROVE  requests' \in [Talkers -> Seq({"request", "release"})]
<1>1. Tail(requests[c]) \in Seq({"request", "release"})
  BY DEF StickTypeOK, Packet
<1> QED BY <1>1 DEF StickTypeOK, Packet

LEMMA StickTypeNext == StickTypeOK /\ [StickNext]_stickVars => StickTypeOK'
<1> SUFFICES ASSUME StickTypeOK, [StickNext]_stickVars PROVE StickTypeOK'
  OBVIOUS
<1> USE NoStickIsNone
<1>1. ASSUME NEW c \in Talkers, Joins(c) PROVE StickTypeOK'
  <2>1. << >> \in Seq({"request", "release"})
    OBVIOUS
  <2> QED BY <1>1, <2>1 DEF Joins, StickOfNew, StickTypeOK
<1>2. ASSUME NEW c \in Talkers, KeyDown(c) PROVE StickTypeOK'
  <2>1. requests' \in [Talkers -> Seq({"request", "release"})]
    BY <1>2, SendKeepsType DEF KeyDown, StickTypeOK
  <2> QED BY <1>2, <2>1 DEF KeyDown, StickTypeOK
<1>3. ASSUME NEW c \in Talkers, KeyUp(c) PROVE StickTypeOK'
  <2>1. requests' \in [Talkers -> Seq({"request", "release"})]
    BY <1>3, SendKeepsType DEF KeyUp, ReleaseAnyway, StickTypeOK
  <2> QED BY <1>3, <2>1 DEF KeyUp, StickTypeOK
<1>4. ASSUME NEW c \in Talkers, GrantArrives(c) PROVE StickTypeOK'
  BY <1>4 DEF GrantArrives, StickTypeOK
<1>5. ASSUME NEW c \in Talkers, Quits(c) PROVE StickTypeOK'
  BY <1>5 DEF Quits, StickTypeOK
<1>6. ASSUME NEW c \in Talkers, ProcessRequest(c) PROVE StickTypeOK'
  <2>1. requests' \in [Talkers -> Seq({"request", "release"})]
    BY <1>6, PacketKeepsType DEF ProcessRequest
  <2>2. taken' \subseteq Sticks /\ stick' \in [Talkers -> Sticks \cup {NoStick}]
    BY <1>6 DEF ProcessRequest, TakesStick, Free, StickTypeOK
  <2>3. grants' \in [Talkers -> 0 .. MaxPackets]
    BY <1>6 DEF ProcessRequest, StickTypeOK
  <2> QED BY <1>6, <2>1, <2>2, <2>3 DEF ProcessRequest, StickTypeOK
<1>7. ASSUME NEW c \in Talkers, ProcessRelease(c) PROVE StickTypeOK'
  <2>1. requests' \in [Talkers -> Seq({"request", "release"})]
    BY <1>7, PacketKeepsType DEF ProcessRelease
  <2> QED BY <1>7, <2>1 DEF ProcessRelease, GivesBack, StickTypeOK
<1>8. ASSUME NEW c \in Talkers, Drop(c) PROVE StickTypeOK'
  BY <1>8 DEF Drop, GivesBack, StickTypeOK
<1>9. CASE UNCHANGED stickVars
  BY <1>9 DEF stickVars, StickTypeOK
<1> QED
  BY <1>1, <1>2, <1>3, <1>4, <1>5, <1>6, <1>7, <1>8, <1>9 DEF StickNext

(* The variables of TalkingStick keep their types.                            *)
THEOREM StickTypes == StickSpec => []StickTypeOK
  BY StickTypeInit, StickTypeNext, PTL DEF StickSpec

-----------------------------------------------------------------------------
(* Owners.                                                                    *)

(* A step that touches no stick and no entry.                                 *)
LEMMA OwnersUntouched ==
    EveryStickHasOneOwner /\ UNCHANGED <<taken, served, stick>> => EveryStickHasOneOwner'
  BY DEF EveryStickHasOneOwner

(* The owner of a stick gives it back, and has no entry or no stick then.     *)
LEMMA OwnerGivesBack ==
    ASSUME StickTypeOK, EveryStickHasOneOwner, NEW c \in served, GivesBack(c),
           \/ served' = served /\ stick' = [stick EXCEPT ![c] = NoStick]
           \/ served' = served \ {c} /\ stick' = stick
    PROVE  EveryStickHasOneOwner'
<1>1. c \in Talkers /\ served \subseteq Talkers /\ NoStick \notin taken
  BY NoStickIsNone DEF StickTypeOK
<1>2. \A d \in served' : stick'[d] # NoStick => d \in served \ {c} /\ stick'[d] = stick[d]
  BY <1>1 DEF StickTypeOK
<1>3. \A d \in served \ {c} : d \in served' /\ stick'[d] = stick[d]
  BY <1>1 DEF StickTypeOK
<1>4. \A s \in taken' : s \in taken /\ s # stick[c]
  BY DEF GivesBack
<1>5. \A d \in served : d # c /\ stick[d] # NoStick => stick[d] # stick[c]
  BY DEF EveryStickHasOneOwner
<1>6. \A s \in taken' : \E d \in served' : stick'[d] = s
  <2> TAKE s \in taken'
  <2>1. PICK d \in served : stick[d] = s
    BY <1>4 DEF EveryStickHasOneOwner
  <2> QED BY <1>3, <1>4, <2>1
<1>7. \A d \in served' : stick'[d] # NoStick => stick'[d] \in taken'
  BY <1>2, <1>5 DEF GivesBack, EveryStickHasOneOwner
<1>8. \A d, e \in served' : stick'[d] = stick'[e] /\ stick'[d] # NoStick => d = e
  BY <1>2 DEF EveryStickHasOneOwner
<1> QED BY <1>6, <1>7, <1>8 DEF EveryStickHasOneOwner

LEMMA OwnersInit == StickInit => EveryStickHasOneOwner
  BY DEF StickInit, EveryStickHasOneOwner

LEMMA OwnersNext ==
    StickTypeOK /\ EveryStickHasOneOwner /\ [StickNext]_stickVars => EveryStickHasOneOwner'
<1> SUFFICES ASSUME StickTypeOK, EveryStickHasOneOwner, [StickNext]_stickVars
             PROVE  EveryStickHasOneOwner'
  OBVIOUS
<1>1. ASSUME NEW c \in Talkers, Joins(c) PROVE EveryStickHasOneOwner'
  <2>1. stick' = [stick EXCEPT ![c] = NoStick] /\ served' = served \cup {c}
        /\ taken' = taken /\ c \notin served
    BY <1>1 DEF Joins, StickOfNew
  <2>2. \A d \in served : stick'[d] = stick[d]
    BY <2>1 DEF StickTypeOK
  <2>3. stick'[c] = NoStick
    BY <2>1 DEF StickTypeOK
  <2> QED BY <2>1, <2>2, <2>3 DEF EveryStickHasOneOwner
<1>2. ASSUME NEW c \in Talkers, ProcessRequest(c) PROVE EveryStickHasOneOwner'
  <2>1. c \in served /\ served' = served
    BY <1>2 DEF ProcessRequest, Packet
  <2>2. CASE UNCHANGED <<taken, stick>>
    BY <2>1, <2>2, OwnersUntouched
  <2>3. ASSUME NEW s \in Free, stick[c] = NoStick, taken' = taken \cup {s},
               stick' = [stick EXCEPT ![c] = s]
        PROVE  EveryStickHasOneOwner'
    <3>1. s \in Sticks /\ s \notin taken /\ s # NoStick
      BY NoStickIsNone DEF Free
    <3>2. stick'[c] = s /\ \A d \in served \ {c} : stick'[d] = stick[d]
      BY <2>3 DEF StickTypeOK
    <3>3. \A d \in served \ {c} : stick'[d] # s
      BY <3>1, <3>2 DEF EveryStickHasOneOwner
    <3>4. \A t \in taken' : \E d \in served' : stick'[d] = t
      <4> TAKE t \in taken'
      <4>1. CASE t = s
        BY <2>1, <3>2, <4>1
      <4>2. CASE t # s
        <5>1. PICK d \in served : stick[d] = t
          BY <2>3, <4>2 DEF EveryStickHasOneOwner
        <5>2. t # NoStick
          BY <2>3, <4>2, NoStickIsNone DEF StickTypeOK
        <5> QED BY <2>1, <2>3, <3>2, <5>1, <5>2
      <4> QED BY <4>1, <4>2
    <3>5. \A d \in served' : stick'[d] # NoStick => stick'[d] \in taken'
      BY <2>1, <2>3, <3>2 DEF EveryStickHasOneOwner
    <3>6. \A d, e \in served' : stick'[d] = stick'[e] /\ stick'[d] # NoStick => d = e
      BY <2>1, <3>2, <3>3 DEF EveryStickHasOneOwner
    <3> QED BY <3>4, <3>5, <3>6 DEF EveryStickHasOneOwner
  <2> QED BY <1>2, <2>2, <2>3 DEF ProcessRequest, TakesStick
<1>3. ASSUME NEW c \in Talkers, ProcessRelease(c) PROVE EveryStickHasOneOwner'
  BY <1>3, OwnerGivesBack DEF ProcessRelease, Packet
<1>4. ASSUME NEW c \in Talkers, Drop(c) PROVE EveryStickHasOneOwner'
  BY <1>4, OwnerGivesBack DEF Drop
<1>5. ASSUME NEW c \in Talkers, KeyDown(c) \/ KeyUp(c) \/ GrantArrives(c) \/ Quits(c)
      PROVE  EveryStickHasOneOwner'
  BY <1>5, OwnersUntouched DEF KeyDown, KeyUp, GrantArrives, Quits
<1>6. CASE UNCHANGED stickVars
  BY <1>6, OwnersUntouched DEF stickVars
<1> QED BY <1>1, <1>2, <1>3, <1>4, <1>5, <1>6 DEF StickNext

(* Every taken stick has exactly one client that can give it back.            *)
THEOREM OneOwner == StickSpec => []EveryStickHasOneOwner
  BY OwnersInit, OwnersNext, StickTypes, PTL DEF StickSpec

-----------------------------------------------------------------------------
(* Giving back.                                                               *)

(* Inductive: the last packet of a client whose key is up, if any is on its   *)
(* way, is a release.                                                         *)
ReleaseIsLast ==
    \A c \in served :
        key[c] = "up" =>
            IF requests[c] = << >> THEN stick[c] = NoStick
                                   ELSE requests[c][Len(requests[c])] = "release"

LEMMA LastOfTail ==
    ASSUME NEW S, NEW q \in Seq(S), q # << >>, Tail(q) # << >>
    PROVE  Tail(q)[Len(Tail(q))] = q[Len(q)]
  OBVIOUS

LEMMA TailIsEmpty ==
    ASSUME NEW S, NEW q \in Seq(S), q # << >>, Tail(q) = << >>
    PROVE  Head(q) = q[Len(q)]
<1>1. Len(Tail(q)) = Len(q) - 1 /\ Len(q) \in Nat
  OBVIOUS
<1>2. Len(Tail(q)) = 0
  <2>1. Len(<< >>) = 0
    OBVIOUS
  <2> QED BY <2>1
<1>3. Head(q) = q[1]
  OBVIOUS
<1>4. Len(q) = 1
  BY <1>1, <1>2
<1> QED BY <1>3, <1>4

(* What a packet of any kind leaves of the others.                            *)
LEMMA PacketKeepsLast ==
    ASSUME StickTypeOK, ReleaseIsLast, NEW c \in Talkers, NEW p, Packet(c, p),
           served' = served, key' = key,
           \A d \in served \ {c} : stick'[d] = stick[d],
           p = "release" => stick'[c] = NoStick
    PROVE  ReleaseIsLast'
<1> SUFFICES ASSUME NEW d \in served, key[d] = "up"
             PROVE  IF requests'[d] = << >> THEN stick'[d] = NoStick
                    ELSE requests'[d][Len(requests'[d])] = "release"
  BY DEF ReleaseIsLast
<1>1. CASE d # c
  <2>1. requests'[d] = requests[d] /\ stick'[d] = stick[d]
    BY <1>1 DEF Packet, StickTypeOK
  <2> QED BY <2>1 DEF ReleaseIsLast
<1>2. CASE d = c
  <2>1. requests[c] \in Seq({"request", "release"}) /\ requests[c] # << >>
        /\ requests'[c] = Tail(requests[c]) /\ Head(requests[c]) = p
    BY DEF Packet, StickTypeOK
  <2>2. requests[c][Len(requests[c])] = "release"
    BY <1>2, <2>1 DEF ReleaseIsLast
  <2>3. CASE Tail(requests[c]) = << >>
    BY <1>2, <2>1, <2>2, <2>3, TailIsEmpty
  <2>4. CASE Tail(requests[c]) # << >>
    BY <1>2, <2>1, <2>2, <2>4, LastOfTail
  <2> QED BY <2>3, <2>4
<1> QED BY <1>1, <1>2

LEMMA ReleaseIsLastNext ==
    StickTypeOK /\ ReleaseIsLast /\ [StickNext]_stickVars => ReleaseIsLast'
<1> SUFFICES ASSUME StickTypeOK, ReleaseIsLast, [StickNext]_stickVars
             PROVE  ReleaseIsLast'
  OBVIOUS
<1>1. ASSUME NEW c \in Talkers, Joins(c) PROVE ReleaseIsLast'
  BY <1>1 DEF Joins, StickOfNew, ReleaseIsLast, StickTypeOK
<1>2. ASSUME NEW c \in Talkers, KeyDown(c) PROVE ReleaseIsLast'
  <2>1. \A d \in served : d # c => requests'[d] = requests[d] /\ key'[d] = key[d]
    BY <1>2 DEF KeyDown, Send, StickTypeOK
  <2>2. key'[c] = "down"
    BY <1>2 DEF KeyDown, StickTypeOK
  <2>3. served' = served /\ stick' = stick
    BY <1>2 DEF KeyDown
  <2> QED BY <2>1, <2>2, <2>3 DEF ReleaseIsLast
<1>3. ASSUME NEW c \in Talkers, KeyUp(c) PROVE ReleaseIsLast'
  <2>1. \A d \in served : d # c => requests'[d] = requests[d] /\ key'[d] = key[d]
    BY <1>3 DEF KeyUp, ReleaseAnyway, Send, StickTypeOK
  <2>2. requests'[c] = Append(requests[c], "release")
    BY <1>3 DEF KeyUp, ReleaseAnyway, Send, StickTypeOK
  <2>3. requests[c] \in Seq({"request", "release"})
    BY DEF StickTypeOK
  <2>4. requests'[c] # << >> /\ requests'[c][Len(requests'[c])] = "release"
    BY <2>2, <2>3
  <2>5. served' = served /\ stick' = stick
    BY <1>3 DEF KeyUp
  <2> QED BY <2>1, <2>4, <2>5 DEF ReleaseIsLast
<1>4. ASSUME NEW c \in Talkers, GrantArrives(c) PROVE ReleaseIsLast'
  BY <1>4 DEF GrantArrives, ReleaseIsLast
<1>5. ASSUME NEW c \in Talkers, Quits(c) PROVE ReleaseIsLast'
  BY <1>5 DEF Quits, ReleaseIsLast, StickTypeOK
<1>6. ASSUME NEW c \in Talkers, ProcessRequest(c) PROVE ReleaseIsLast'
  <2>1. \A d \in served \ {c} : stick'[d] = stick[d]
    BY <1>6 DEF ProcessRequest, TakesStick, StickTypeOK
  <2> QED BY <1>6, <2>1, PacketKeepsLast DEF ProcessRequest
<1>7. ASSUME NEW c \in Talkers, ProcessRelease(c) PROVE ReleaseIsLast'
  <2>1. stick'[c] = NoStick /\ \A d \in served \ {c} : stick'[d] = stick[d]
    BY <1>7 DEF ProcessRelease, StickTypeOK
  <2> QED BY <1>7, <2>1, PacketKeepsLast DEF ProcessRelease
<1>8. ASSUME NEW c \in Talkers, Drop(c) PROVE ReleaseIsLast'
  BY <1>8 DEF Drop, ReleaseIsLast
<1>9. CASE UNCHANGED stickVars
  BY <1>9 DEF stickVars, ReleaseIsLast
<1> QED
  BY <1>1, <1>2, <1>3, <1>4, <1>5, <1>6, <1>7, <1>8, <1>9 DEF StickNext

(* However presses, releases and late grants cross, a client whose key is up  *)
(* and whose packets have arrived has no stick.                               *)
THEOREM ComesBack == StickSpec => []SticksComeBack
<1>1. StickInit => ReleaseIsLast
  BY DEF StickInit, ReleaseIsLast
<1>2. ReleaseIsLast => SticksComeBack
  BY DEF ReleaseIsLast, SticksComeBack
<1> QED BY <1>1, <1>2, ReleaseIsLastNext, StickTypes, PTL DEF StickSpec
=============================================================================
