------------------------------ MODULE ShipStore ------------------------------
(* How snis_multiverse keeps its ships: the array ship[] searched linearly,   *)
(* the time stamps checkpoint_data compares, and the two files of each ship   *)
(* below database_root, one system call at a time.  The process may die       *)
(* between any two of them; what it wrote before stays.  (A power failure,    *)
(* which would also lose what the kernel has not written, is not modelled.)   *)
(*                                                                            *)
(* data_mutex is held from the start of checkpoint_data to its end, so no     *)
(* ship is created or updated in between.                                     *)
EXTENDS Naturals, Sequences, FiniteSets, SequencesExt

CONSTANTS
    Hashes, Systems, NoSystem, MaxShips, MaxState,     \* as in ShipTable
    NoFile,     \* the file does not exist
    MaxTime,    \* bound on the clock, in seconds
    MaxCrashes  \* bound on crashes

VARIABLES
    running,    \* the process is up
    table,      \* ship[0 .. nbridges-1]
    data,       \* the .data file of each hash
    update,     \* the .update file of each hash
    saver,      \* where checkpoint_data is
    now,        \* gettimeofday, whole seconds
    crashes,
    before,     \* the .update file the save in progress has truncated (history)
    short,      \* the file of the save in progress ends early (history)
    failed,     \* hashes whose last save failed, seen or unseen (history)
    forgotten   \* hashes a former run knew and this one does not (history)

memory == <<table, now>>
disk == <<data, update>>
history == <<before, short, failed, forgotten>>
vars == <<running, table, data, update, saver, now, crashes, before, short, failed, forgotten>>

-----------------------------------------------------------------------------
States == 0 .. MaxState
Homes == Systems \cup {NoSystem}
Times == 0 .. MaxTime

Ship == [hash : Hashes, state : States, home : Homes,
         last_update_time : Times, last_save_time : Times]

(* A file is whole, or ends after the two header lines, or is empty.          *)
Contents == [state : States, home : Homes, time : Times, whole : BOOLEAN]
EmptyFile == [state |-> 0, home |-> NoSystem, time |-> 0, whole |-> FALSE]
WholeFile(e) == [state |-> e.state, home |-> e.home, time |-> e.last_update_time, whole |-> TRUE]
TornFile(e) == [WholeFile(e) EXCEPT !.state = 0, !.whole = FALSE]

ASSUME StoreAssumption ==
    /\ IsFiniteSet(Hashes)
    /\ NoSystem \notin Systems
    /\ NoFile \notin Contents
    /\ MaxShips \in Nat /\ MaxState \in Nat /\ MaxTime \in Nat \ {0} /\ MaxCrashes \in Nat

StoreTypeOK ==
    /\ running \in BOOLEAN
    /\ table \in Seq(Ship) /\ Len(table) <= MaxShips
    /\ data \in [Hashes -> Contents \cup {NoFile}]
    /\ update \in [Hashes -> Contents \cup {NoFile}]
    /\ saver \in [at : {"idle", "scan", "write", "rename"}, i : 1 .. MaxShips + 1]
    /\ now \in Times
    /\ crashes \in 0 .. MaxCrashes
    /\ before \in Contents \cup {NoFile}
    /\ short \in BOOLEAN
    /\ failed \subseteq Hashes
    /\ forgotten \subseteq Hashes

Init ==
    /\ running = TRUE
    /\ table = <<>>
    /\ data = [h \in Hashes |-> NoFile]
    /\ update = [h \in Hashes |-> NoFile]
    /\ saver = [at |-> "idle", i |-> 1]
    /\ now = 1
    /\ crashes = 0
    /\ before = NoFile
    /\ short = FALSE
    /\ failed = {}
    /\ forgotten = {}

-----------------------------------------------------------------------------
Hashed(h) == {i \in DOMAIN table : table[i].hash = h}
Known == {table[i].hash : i \in DOMAIN table}

(* lookup_ship_by_hash: the first match wins.                                 *)
Lookup(h) == CHOOSE i \in Hashed(h) : \A j \in Hashed(h) : i <= j

MutexFree == running /\ saver.at = "idle"

(* create_new_ship                                                            *)
CreateShip(h) ==
    /\ MutexFree
    /\ h \notin Known
    /\ Len(table) < MaxShips
    /\ table' = Append(table, [hash |-> h, state |-> 0, home |-> NoSystem,
                               last_update_time |-> 0, last_save_time |-> 0])
    /\ forgotten' = forgotten \ {h}
    /\ UNCHANGED <<running, disk, saver, now, crashes, before, short, failed>>

(* update_bridge                                                              *)
UpdateBridge(h, state, home) ==
    /\ MutexFree
    /\ h \in Known
    /\ table' = [table EXCEPT ![Lookup(h)] =
                    [@ EXCEPT !.state = state, !.home = home, !.last_update_time = now]]
    /\ UNCHANGED <<running, disk, saver, now, crashes, history>>

Tick ==
    /\ now < MaxTime
    /\ now' = now + 1
    /\ UNCHANGED <<running, table, disk, saver, crashes, history>>

-----------------------------------------------------------------------------
(* checkpoint_data and save_bridge_info.                                      *)

Begin ==
    /\ MutexFree
    /\ saver' = [at |-> "scan", i |-> 1]
    /\ UNCHANGED <<running, memory, disk, crashes, history>>

At(place) == running /\ saver.at = place /\ saver.i \in DOMAIN table
This == table[saver.i]
(* Mutant: any other time stamp than that of the last save counts.            *)
DirtyIfOther(e) == e.last_update_time # e.last_save_time

(* Mutant: an update in the second after the last save does not count.        *)
DirtyTooLate(e) == e.last_update_time > e.last_save_time + 1

Dirty(e) == e.last_update_time > e.last_save_time

(* Mutant: checkpoint_data stops at the first error.                          *)
StopAtError(ok) ==
    /\ saver' = [at |-> "scan", i |-> IF ok THEN saver.i + 1 ELSE MaxShips + 1]
    /\ table' = IF ok THEN [table EXCEPT ![saver.i].last_save_time = This.last_update_time]
                ELSE table
    /\ failed' = IF ok THEN failed \ {This.hash} ELSE failed \cup {This.hash}
    /\ UNCHANGED <<running, now, crashes, forgotten>>

(* The entry counts as saved, whatever save_bridge_info returned.             *)
NextEntry(ok) ==
    /\ saver' = [at |-> "scan", i |-> saver.i + 1]
    /\ table' = [table EXCEPT ![saver.i].last_save_time = This.last_update_time]
    /\ failed' = IF ok THEN failed \ {This.hash} ELSE failed \cup {This.hash}
    /\ UNCHANGED <<running, now, crashes, forgotten>>

Skip ==
    /\ At("scan")
    /\ ~Dirty(This)
    /\ saver' = [saver EXCEPT !.i = @ + 1]
    /\ UNCHANGED <<running, memory, disk, crashes, history>>

(* make_dir or fopen fails.                                                   *)
OpenFails ==
    /\ At("scan")
    /\ Dirty(This)
    /\ NextEntry(FALSE)
    /\ UNCHANGED <<disk, before, short>>

(* fopen(path, "w+") truncates.                                               *)
Open ==
    /\ At("scan")
    /\ Dirty(This)
    /\ before' = update[This.hash]
    /\ update' = [update EXCEPT ![This.hash] = EmptyFile]
    /\ saver' = [saver EXCEPT !.at = "write"]
    /\ UNCHANGED <<running, memory, data, crashes, short, failed, forgotten>>

(* stdio writes out a full buffer, which holds the header and some fields.    *)
WriteSome ==
    /\ At("write")
    /\ update' = [update EXCEPT ![This.hash] = TornFile(This)]
    /\ UNCHANGED <<running, memory, data, saver, crashes, history>>

(* Mutant: the file is closed, and its last buffer written, after the rename. *)
CloseTooLate ==
    /\ At("write")
    /\ saver' = [saver EXCEPT !.at = "rename"]
    /\ UNCHANGED <<running, memory, disk, crashes, history>>

(* The last fields are written by fclose, if not before.  (fsync comes first, *)
(* and has nothing to do then.)                                               *)
Close ==
    /\ At("write")
    /\ update' = [update EXCEPT ![This.hash] = WholeFile(This)]
    /\ saver' = [saver EXCEPT !.at = "rename"]
    /\ UNCHANGED <<running, memory, data, crashes, history>>

(* Something could not be written.  fprintf, fsync and fclose say so to       *)
(* nobody: the only failure write_bridge_info returns is that of a table of   *)
(* fields which is constant and right.                                        *)
CloseShort ==
    /\ At("write")
    /\ short' = TRUE
    /\ saver' = [saver EXCEPT !.at = "rename"]
    /\ UNCHANGED <<running, memory, disk, crashes, before, failed, forgotten>>

Rename ==
    /\ At("rename")
    /\ data' = [data EXCEPT ![This.hash] = update[This.hash]]
    /\ update' = [update EXCEPT ![This.hash] = NoFile]
    /\ before' = NoFile
    /\ short' = FALSE
    /\ NextEntry(~short)

RenameFails ==
    /\ At("rename")
    /\ before' = NoFile
    /\ short' = FALSE
    /\ NextEntry(FALSE)
    /\ UNCHANGED disk

End ==
    /\ running
    /\ saver.at = "scan"
    /\ saver.i \notin DOMAIN table
    /\ saver' = [at |-> "idle", i |-> 1]
    /\ UNCHANGED <<running, memory, disk, crashes, history>>

Checkpoint ==
    \/ Begin \/ Skip \/ OpenFails \/ Open \/ WriteSome
    \/ Close \/ CloseShort \/ Rename \/ RenameFails \/ End

-----------------------------------------------------------------------------
Crash ==
    /\ running
    /\ crashes < MaxCrashes
    /\ crashes' = crashes + 1
    /\ running' = FALSE
    /\ table' = <<>>
    /\ saver' = [at |-> "idle", i |-> 1]
    /\ before' = NoFile
    /\ short' = FALSE
    /\ failed' = {}
    /\ forgotten' = forgotten \cup Known
    /\ UNCHANGED <<disk, now>>

(* The files below database_root.                                             *)
FileOf(f) == IF f.ext = "data" THEN data[f.hash] ELSE update[f.hash]
Files == {f \in [hash : Hashes, ext : {"data", "update"}] : FileOf(f) # NoFile}

(* restore_bridge_info never fails on what it reads: a field it cannot find   *)
(* keeps its zero.  restore_data_from_file cuts either extension off.         *)
Restored(f) ==
    [hash |-> f.hash, state |-> FileOf(f).state, home |-> FileOf(f).home,
     last_update_time |-> 0, last_save_time |-> FileOf(f).time]

(* Mutant: the files of a ship are read in reverse.                           *)
UpdateFirst(order) ==
    \A i, j \in DOMAIN order :
        order[i].hash = order[j].hash /\ order[i].ext = "data" /\ order[j].ext = "update"
            => j < i

(* restore_data_from_directory: the files of a ship lie in one directory, and *)
(* alphasort puts hash.data before hash.update.                               *)
DataFirst(order) ==
    \A i, j \in DOMAIN order :
        order[i].hash = order[j].hash /\ order[i].ext = "data" /\ order[j].ext = "update"
            => i < j

(* Mutant: restore_data goes on past the last entry of ship[].                *)
RestartOverfull ==
    /\ ~running
    /\ \E order \in SetToSeqs(Files) :
          DataFirst(order) /\ table' = [i \in DOMAIN order |-> Restored(order[i])]
    /\ running' = TRUE
    /\ forgotten' = forgotten \ {f.hash : f \in Files}
    /\ UNCHANGED <<disk, saver, now, crashes, before, short, failed>>

(* main gives up when restore_data runs out of entries.                       *)
Restart ==
    /\ ~running
    /\ Cardinality(Files) <= MaxShips
    /\ \E order \in SetToSeqs(Files) :
          DataFirst(order) /\ table' = [i \in DOMAIN order |-> Restored(order[i])]
    /\ running' = TRUE
    /\ forgotten' = forgotten \ {f.hash : f \in Files}
    /\ UNCHANGED <<disk, saver, now, crashes, before, short, failed>>

Next ==
    \/ \E h \in Hashes : CreateShip(h)
    \/ \E h \in Hashes, state \in States, home \in Systems : UpdateBridge(h, state, home)
    \/ Tick
    \/ Checkpoint
    \/ Crash
    \/ Restart

Spec == Init /\ [][Next]_vars

(* The main thread runs checkpoint_data every thirty seconds.                 *)
FairSpec == Spec /\ WF_vars(Checkpoint)

-----------------------------------------------------------------------------
(* ShipTable seen through the files: the abstract .update file of the ship    *)
(* being saved is the one the save found.                                     *)
Saving(h) == running /\ saver.at \in {"write", "rename"} /\ This.hash = h
Leftover(h) == IF Saving(h) THEN before ELSE update[h]

AbstractEntry(e) ==
    [state |-> e.state, home |-> e.home, dirty |-> Dirty(e), stamped |-> e.last_save_time # 0]
AbstractContent(f) == [state |-> f.state, home |-> f.home, stamped |-> f.time # 0]

AbstractShip(h) ==
    IF h \in Known THEN AbstractEntry(table[Lookup(h)])
    ELSE [state |-> 0, home |-> NoSystem, dirty |-> FALSE, stamped |-> FALSE]
AbstractFile(h) ==
    CASE data[h] # NoFile -> AbstractContent(data[h])
      [] data[h] = NoFile /\ Leftover(h) # NoFile -> AbstractContent(Leftover(h))
      [] OTHER -> AbstractContent(EmptyFile)

ShipsSeen == [h \in Hashes |-> AbstractShip(h)]
SavedSeen == {h \in Hashes : data[h] # NoFile}
LeftoverSeen == {h \in Hashes : Leftover(h) # NoFile}
FilesSeen == [h \in Hashes |-> AbstractFile(h)]

Table == INSTANCE ShipTable WITH
    mvUp <- running,
    known <- Known,
    slots <- Len(table),
    ship <- ShipsSeen,
    saved <- SavedSeen,
    leftover <- LeftoverSeen,
    file <- FilesSeen

(* The system calls, the clock and the search implement the atomic table:     *)
(* wherever the process dies, a restart finds for each ship what its last     *)
(* complete save put in place, and a .update file is believed only for a ship *)
(* never saved (save_bridge_info, restore_data_from_directory).               *)
ImplementsTable == Table!TableSpec

(* The last save of a ship only moves on: wherever the process dies, its      *)
(* .data file is never removed, and is replaced by nothing but one of a later *)
(* update, whole if all of it could be written.  An entry read back from an   *)
(* old file, or a ship's second entry, is never written over a later save     *)
(* (checkpoint_data, save_bridge_info, restore_data_from_file).  What a write *)
(* error leaves of an update does replace a whole save, and may have lost its *)
(* time with the rest; a crash leaves nothing of the kind.                    *)
Newer(f, g) == g # NoFile => f.time > g.time

SavesMoveOn ==
    [][\A h \in Hashes : data'[h] # data[h] =>
          /\ data'[h] # NoFile
          /\ data'[h].whole <=> ~short
          /\ data'[h] # EmptyFile => Newer(data'[h], data[h])]_data

(* An entry checkpoint_data sees no reason to save is on disk as it is, but   *)
(* for updates in the same second as the last one saved (or restored), and    *)
(* for saves that failed, whether save_bridge_info saw it or not: its         *)
(* comparison of whole seconds loses no others.                               *)
Stored(h) == IF data[h] # NoFile THEN data[h] ELSE update[h]

CleanIsSaved ==
    \A h \in Known \ failed :
        LET e == table[Lookup(h)] IN
        e.last_update_time # 0 /\ ~Dirty(e)
            => /\ Stored(h) # NoFile
               /\ Stored(h) = WholeFile(e) \/ Stored(h).time = e.last_update_time

(* Every update is saved, if only by a later save of the ship, or given up    *)
(* after an error, or lost with the process: no entry stays dirty because     *)
(* saving another one went wrong.                                             *)
Unsaved(h) == h \in Known /\ Dirty(table[Lookup(h)])

EveryEntryGetsItsTurn == \A h \in Hashes : Unsaved(h) ~> ~Unsaved(h)
=============================================================================
