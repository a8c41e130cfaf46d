-------------------------------- MODULE Fleets --------------------------------
(* Fleets of the server's own ships: fleet.c, and what a ship's AI does with  *)
(* it in snis_server.c.  A ship knows its fleet by an entry of its AI stack,  *)
(* which others clear without telling the fleet; a fleet knows its ships by   *)
(* their ids, which outlive them.  Everything happens under universe_mutex.   *)
EXTENDS Naturals, Sequences, SequencesExt

CONSTANTS
    FleetShips,         \* OBJTYPE_NPCSHIP
    MaxFleets,          \* MAXFLEETS
    MaxShipsPerFleet    \* MAXSHIPSPERFLEET

FleetNumbers == 1 .. MaxFleets

ASSUME FleetsAssumption ==
    /\ MaxFleets \in Nat \ {0}
    /\ MaxShipsPerFleet \in Nat \ {0}
    /\ 0 \notin FleetShips

VARIABLES
    nfleets,    \* nfleets
    ids,        \* ids[f]: f[f].id[0 .. nships-1]
    lead,       \* lead[f]: f[f].id[0], which stays when the last ship leaves
    mine,       \* mine[s]: the fleet its AI stack names, 0 if none does
    orders,     \* orders[s]: "none" (nai_entries is 0), "leads", "follows", "other"
    deleted,    \* ships that are gone
    twice       \* have founded a fleet while they were in one (history)

fleetVars == <<nfleets, ids, lead, mine, orders, deleted, twice>>

FleetsTypeOK ==
    /\ nfleets \in 0 .. MaxFleets
    /\ ids \in [FleetNumbers -> Seq(FleetShips)]
    /\ \A f \in FleetNumbers : Len(ids[f]) <= MaxShipsPerFleet
    /\ lead \in [FleetNumbers -> FleetShips \cup {0}]
    /\ mine \in [FleetShips -> 0 .. MaxFleets]
    /\ orders \in [FleetShips -> {"none", "leads", "follows", "other"}]
    /\ deleted \subseteq FleetShips /\ twice \subseteq FleetShips

FleetsInit ==
    /\ nfleets = 0
    /\ ids = [f \in FleetNumbers |-> << >>]
    /\ lead = [f \in FleetNumbers |-> 0]
    /\ mine = [s \in FleetShips |-> 0]
    /\ orders = [s \in FleetShips |-> "none"]
    /\ deleted = {} /\ twice = {}

-----------------------------------------------------------------------------
(* fleet.c, on a table [ids, lead].                                           *)

FleetTable == [ids |-> ids, lead |-> lead]
IsIn(t, s) == {f \in FleetNumbers : s \in ToSet(t.ids[f])}

(* Position 0 is what the ships behind it leave there.                        *)
Without(t, S, s) ==
    LET rest == [f \in FleetNumbers |-> IF f \in S THEN RemoveFirst(t.ids[f], s) ELSE t.ids[f]]
    IN  [ids |-> rest,
         lead |-> [f \in FleetNumbers |-> IF rest[f] = << >> THEN t.lead[f] ELSE Head(rest[f])]]

FirstOf(S) == CHOOSE f \in S : \A g \in S : f <= g

(* fleet_leave: the first that has it.                                        *)
FleetLeave(t, s) == IF IsIn(t, s) = {} THEN t ELSE Without(t, {FirstOf(IsIn(t, s))}, s)

FleetNew(t, f, s) ==
    [ids |-> [t.ids EXCEPT ![f] = <<s>>], lead |-> [t.lead EXCEPT ![f] = s]]

(* Mutant: the ship stays in the fleets it was in.                           *)
JoinsToo(t, f, s) ==
    [ids |-> [t.ids EXCEPT ![f] = Append(@, s)],
     lead |-> [t.lead EXCEPT ![f] = IF t.ids[f] = << >> THEN s ELSE @]]

(* Mutant: a ship that is in the fleet already leaves it with the others.     *)
LeavesToo(t, f, s) ==
    IF f \in IsIn(t, s) THEN Without(t, IsIn(t, s), s)
    ELSE JoinsToo(Without(t, IsIn(t, s), s), f, s)

(* fleet_join, of a fleet with room: the fleets before it are left, those     *)
(* after it only if it is not in this one already.                            *)
FleetJoin(t, f, s) ==
    IF f \in IsIn(t, s)
    THEN Without(t, {g \in IsIn(t, s) : g < f}, s)
    ELSE LET u == Without(t, IsIn(t, s), s)
         IN  [ids |-> [u.ids EXCEPT ![f] = Append(@, s)],
              lead |-> [u.lead EXCEPT ![f] = IF u.ids[f] = << >> THEN s ELSE @]]

-----------------------------------------------------------------------------
(* The ships.                                                                 *)

Becomes(t) == ids' = t.ids /\ lead' = t.lead
Gets(s, f, order) ==
    /\ mine' = [mine EXCEPT ![s] = f]
    /\ orders' = [orders EXCEPT ![s] = order]

EmptyFleets(t) == {f \in 1 .. nfleets : t.ids[f] = << >>}
NewFleet(t) == IF EmptyFleets(t) = {} THEN nfleets + 1 ELSE FirstOf(EmptyFleets(t))

(* ship_figure_out_what_to_do: to lead a new fleet, as long as there have not *)
(* been as many as there may be ...                                           *)
Found(t, s) ==
    /\ nfleets < MaxFleets
    /\ Becomes(FleetNew(t, NewFleet(t), s))
    /\ nfleets' = IF EmptyFleets(t) = {} THEN nfleets + 1 ELSE nfleets
    /\ twice' = IF IsIn(t, s) = {} THEN twice ELSE twice \cup {s}
    /\ Gets(s, NewFleet(t), "leads")

(* ... or else to join, one after the other, all fleets whose leader is of    *)
(* the ship's own faction, and to stay in the last.                           *)
Joinable(t, f, own) ==
    f \in own /\ t.lead[f] \notin deleted /\ Len(t.ids[f]) < MaxShipsPerFleet

JoinOne(u, f, s, own) ==
    IF Joinable(u.table, f, own) THEN [table |-> FleetJoin(u.table, f, s), last |-> f] ELSE u

JoinAll(t, s, own) ==
    LET Upto[f \in 0 .. MaxFleets] ==
            IF f = 0 THEN [table |-> t, last |-> 0] ELSE JoinOne(Upto[f - 1], f, s, own)
    IN  Upto[MaxFleets]

Enlist(t, s, own) ==
    /\ nfleets = MaxFleets
    /\ LET u == JoinAll(t, s, own) IN
       /\ Becomes(u.table)
       /\ Gets(s, u.last, IF u.last = 0 THEN "other" ELSE "follows")
    /\ UNCHANGED <<nfleets, twice>>

(* ... or to patrol, or to mine.                                              *)
FigureOut(t, s) ==
    \/ Found(t, s)
    \/ \E own \in SUBSET FleetNumbers : Enlist(t, s, own)
    \/ Becomes(t) /\ Gets(s, 0, "other") /\ UNCHANGED <<nfleets, twice>>

(* ship_move, of a ship with nothing to do.                                   *)
Decides(s) ==
    /\ s \notin deleted
    /\ orders[s] = "none"
    /\ FigureOut(FleetTable, s)
    /\ UNCHANGED deleted

(* The AI stack is cleared: by a script that changes the ship's faction, by   *)
(* orders to tow, to be catatonic, ...: "none" or "other" is left.            *)
Cleared(s, order) ==
    /\ s \notin deleted
    /\ Gets(s, 0, order)
    /\ UNCHANGED <<nfleets, ids, lead, deleted, twice>>

(* maybe_leave_fleet, by chance: and what now?                                *)
LeavesFleet(s) ==
    /\ s \notin deleted
    /\ orders[s] = "follows"
    /\ FigureOut(FleetLeave(FleetTable, s), s)
    /\ UNCHANGED deleted

(* ai_fleet_member_mode_brain: those before it have gone.                     *)
BecomesLeader(s) ==
    /\ s \notin deleted
    /\ orders[s] = "follows"
    /\ lead[mine[s]] = s
    /\ Gets(s, mine[s], "leads")
    /\ UNCHANGED <<nfleets, ids, lead, deleted, twice>>

(* delete_from_clients_and_server: "leave any fleets ship might be a member   *)
(* of".                                                                       *)
Deleted(s) ==
    /\ s \notin deleted
    /\ deleted' = deleted \cup {s}
    /\ Becomes(FleetLeave(FleetTable, s))
    /\ Gets(s, 0, "none")
    /\ UNCHANGED <<nfleets, twice>>

FleetsNext ==
    \E s \in FleetShips :
        \/ Decides(s) \/ LeavesFleet(s) \/ BecomesLeader(s) \/ Deleted(s)
        \/ \E order \in {"none", "other"} : Cleared(s, order)

FleetsSpec == FleetsInit /\ [][FleetsNext]_fleetVars

-----------------------------------------------------------------------------
(* Properties.                                                                *)

(* A ship is in one fleet at most, once, and in none when it is gone, unless  *)
(* it has founded a fleet while it was in one: then only one of them is left  *)
(* when it dies, and the other never gets rid of it.                          *)
FleetsAreOfTheLiving ==
    \A s \in FleetShips \ twice :
        /\ \A f, g \in FleetNumbers, i, j \in 1 .. MaxShipsPerFleet :
              i \in DOMAIN ids[f] /\ j \in DOMAIN ids[g] /\ ids[f][i] = s /\ ids[g][j] = s
                  => f = g /\ i = j
        /\ s \in deleted => IsIn(FleetTable, s) = {}

(* Whoever has a fleet in mind is in that fleet, however often its stack was  *)
(* cleared and through however many fleets it has gone: fleet_position_number *)
(* finds it, and its place in the formation is defined.                       *)
FollowersAreMembers ==
    \A s \in FleetShips : mine[s] # 0 => s \in ToSet(ids[mine[s]])
===============================================================================
