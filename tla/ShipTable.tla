------------------------------ MODULE ShipTable ------------------------------
(* The table of player ships kept by snis_multiverse: ship[], nbridges and    *)
(* the checkpoint database below database_root, with one atomic step per      *)
(* operation.  Multiverse composes these steps with the connections to the    *)
(* snis_servers; ShipStore shows that the files, the clock and the linear     *)
(* search of the code implement them.                                         *)
(*                                                                            *)
(* A ship's state is abstracted to how far its crew has come: Fresh is a ship *)
(* as add_player spawns it, a greater number a ship that has been played      *)
(* further.  The clock is abstracted to what the comparisons of time stamps   *)
(* can answer: "dirty" says last_update_time > last_save_time, "stamped" says *)
(* that last_save_time is not zero.                                           *)
EXTENDS Naturals, FiniteSets

CONSTANTS
    Hashes,     \* password hashes, the identities of ships
    Systems,    \* solar systems, one snis_server each
    NoSystem,   \* the empty starsystem_name, or "UNKNOWN" of an unreadable file
    MaxShips,   \* MAX_BRIDGES, the entries of ship[]
    MaxState    \* bound on how far a ship is played

ASSUME MaxShipsAssumption == MaxShips \in Nat
ASSUME MaxStateAssumption == MaxState \in Nat
ASSUME NoSystemAssumption == NoSystem \notin Systems
ASSUME HashesAssumption   == IsFiniteSet(Hashes)

VARIABLES
    mvUp,       \* snis_multiverse runs
    known,      \* hashes found by lookup_ship_by_hash
    slots,      \* nbridges, the entries of ship[] in use
    ship,       \* the entry lookup_ship_by_hash finds, per hash
    saved,      \* hashes with a .data file
    leftover,   \* hashes with a .update file nobody has renamed
    file,       \* what restore_bridge_info reads for a hash
    forgotten   \* hashes a former run knew and this one does not (history)

tableVars == <<mvUp, known, slots, ship, saved, leftover, file, forgotten>>

-----------------------------------------------------------------------------
Fresh == 0
States == Fresh .. MaxState
Homes == Systems \cup {NoSystem}

Entry == [state : States, home : Homes, dirty : BOOLEAN, stamped : BOOLEAN]
BlankEntry == [state |-> Fresh, home |-> NoSystem, dirty |-> FALSE, stamped |-> FALSE]

Content == [state : States, home : Homes, stamped : BOOLEAN]
BlankContent == [state |-> Fresh, home |-> NoSystem, stamped |-> FALSE]

ContentOf(e) == [state |-> e.state, home |-> e.home, stamped |-> TRUE]
(* Mutant: restore_bridge_info leaves last_update_time unset.                 *)
EntryWithoutTimes(c) == [state |-> c.state, home |-> c.home, stamped |-> c.stamped]

EntryOf(c) == [state |-> c.state, home |-> c.home, dirty |-> FALSE, stamped |-> c.stamped]

(* What a save that is interrupted, or that runs into an error, can leave in  *)
(* the file: nothing, the two header lines and some of the ship's fields, or  *)
(* all of it.                                                                 *)
CutShort(e) == {BlankContent, [ContentOf(e) EXCEPT !.state = Fresh]}
Scraps(e) == CutShort(e) \cup {ContentOf(e)}

TypeOK ==
    /\ mvUp \in BOOLEAN
    /\ known \in SUBSET Hashes
    /\ slots \in Nat
    /\ ship \in [Hashes -> Entry]
    /\ saved \in SUBSET Hashes
    /\ leftover \in SUBSET Hashes
    /\ file \in [Hashes -> Content]
    /\ forgotten \in SUBSET Hashes

TableInit ==
    /\ mvUp = TRUE
    /\ known = {}
    /\ slots = 0
    /\ ship = [h \in Hashes |-> BlankEntry]
    /\ saved = {}
    /\ leftover = {}
    /\ file = [h \in Hashes |-> BlankContent]
    /\ forgotten = {}

-----------------------------------------------------------------------------
TableFull == slots >= MaxShips

(* create_new_ship, called only after lookup_ship_by_hash failed.  The ship   *)
(* exists in memory only: it is not dirty until its first update.             *)
Create(h) ==
    /\ mvUp
    /\ h \notin known
    /\ ~TableFull
    /\ known' = known \cup {h}
    /\ slots' = slots + 1
    /\ ship' = [ship EXCEPT ![h] = BlankEntry]
    /\ forgotten' = forgotten \ {h}
    /\ UNCHANGED <<mvUp, saved, leftover, file>>

(* The same for hashes that are nobody's, read off a connection on which the  *)
(* packet boundaries are lost.  These entries stay until the process ends:    *)
(* they are never updated, and so never saved.                                *)
CreateStrays ==
    /\ mvUp
    /\ slots' \in slots + 1 .. MaxShips
    /\ UNCHANGED <<mvUp, known, ship, saved, leftover, file, forgotten>>

(* update_bridge for a ship it finds: the state and the sender's system are   *)
(* taken as they come, nothing is compared with what was stored.  An update   *)
(* in the same second as the last one saved leaves the entry clean.           *)
Apply(h, state, home) ==
    /\ mvUp
    /\ h \in known
    /\ \E d \in (IF ship[h].stamped THEN {TRUE, ship[h].dirty} ELSE {TRUE}) :
          ship' = [ship EXCEPT ![h] = [@ EXCEPT !.state = state, !.home = home, !.dirty = d]]
    /\ UNCHANGED <<mvUp, known, slots, saved, leftover, file, forgotten>>

(* checkpoint_data for one dirty entry, when save_bridge_info gets through.   *)
Save(h) ==
    /\ mvUp
    /\ h \in known
    /\ ship[h].dirty
    /\ ship' = [ship EXCEPT ![h] = [@ EXCEPT !.dirty = FALSE, !.stamped = TRUE]]
    /\ saved' = saved \cup {h}
    /\ leftover' = leftover \ {h}
    /\ file' = [file EXCEPT ![h] = ContentOf(ship[h])]
    /\ UNCHANGED <<mvUp, known, slots, forgotten>>

(* The same when what is written does not all reach the file, on a full disk  *)
(* say.  Nobody looks at what fprintf, fsync and fclose return, and what      *)
(* there is of the file takes the place of the last save.                     *)
SaveShort(h) ==
    /\ mvUp
    /\ h \in known
    /\ ship[h].dirty
    /\ ship' = [ship EXCEPT ![h] = [@ EXCEPT !.dirty = FALSE, !.stamped = TRUE]]
    /\ saved' = saved \cup {h}
    /\ leftover' = leftover \ {h}
    /\ \E c \in CutShort(ship[h]) : file' = [file EXCEPT ![h] = c]
    /\ UNCHANGED <<mvUp, known, slots, forgotten>>

(* A .update file left by a save that went no further.  It is read back only  *)
(* for a ship without a .data file: alphasort puts .data first.               *)
Abandon(h) ==
    /\ leftover' = leftover \cup {h}
    /\ IF h \in saved
       THEN UNCHANGED file
       ELSE \E c \in Scraps(ship[h]) : file' = [file EXCEPT ![h] = c]

(* checkpoint_data for one dirty entry, when save_bridge_info returns -1: the *)
(* result is ignored and the entry counts as saved.                           *)
SaveFails(h) ==
    /\ mvUp
    /\ h \in known
    /\ ship[h].dirty
    /\ ship' = [ship EXCEPT ![h] = [@ EXCEPT !.dirty = FALSE, !.stamped = TRUE]]
    /\ Abandon(h) \/ UNCHANGED <<leftover, file>>
    /\ UNCHANGED <<mvUp, known, slots, saved, forgotten>>

(* The process dies, perhaps in the middle of saving one dirty ship.          *)
Crash ==
    /\ mvUp
    /\ mvUp' = FALSE
    /\ known' = {}
    /\ slots' = 0
    /\ ship' = [h \in Hashes |-> BlankEntry]
    /\ forgotten' = forgotten \cup known
    /\ \/ UNCHANGED <<leftover, file>>
       \/ \E h \in known : ship[h].dirty /\ Abandon(h)
    /\ UNCHANGED saved

(* Mutant: the restored files are not counted against MAX_BRIDGES.            *)
RestartUncounted ==
    /\ ~mvUp
    /\ slots' = Cardinality(saved) + Cardinality(leftover)
    /\ mvUp' = TRUE
    /\ known' = saved \cup leftover
    /\ ship' = [h \in Hashes |-> IF h \in known' THEN EntryOf(file[h]) ELSE BlankEntry]
    /\ forgotten' = forgotten \ known'
    /\ UNCHANGED <<saved, leftover, file>>

(* main: restore_data reads every file below database_root, a .update file    *)
(* like any other, and the program gives up when ship[] cannot hold them all. *)
Restart ==
    /\ ~mvUp
    /\ slots' = Cardinality(saved) + Cardinality(leftover)
    /\ slots' <= MaxShips
    /\ mvUp' = TRUE
    /\ known' = saved \cup leftover
    /\ ship' = [h \in Hashes |-> IF h \in known' THEN EntryOf(file[h]) ELSE BlankEntry]
    /\ forgotten' = forgotten \ known'
    /\ UNCHANGED <<saved, leftover, file>>

TableNext ==
    \/ \E h \in Hashes :
          \/ Create(h)
          \/ \E state \in States, home \in Systems : Apply(h, state, home)
          \/ Save(h)
          \/ SaveShort(h)
          \/ SaveFails(h)
    \/ CreateStrays
    \/ Crash
    \/ Restart

TableSpec == TableInit /\ [][TableNext]_tableVars
=============================================================================
