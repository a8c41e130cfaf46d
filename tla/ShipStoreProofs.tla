--------------------------- MODULE ShipStoreProofs ---------------------------
(* Proofs about ShipStore, for any number of ships, entries, crashes and      *)
(* seconds, and for write errors nobody sees: a .data file is replaced by     *)
(* later saves only, or by what an error leaves of one; what looks clean is   *)
(* on disk, unless its save failed; and files, clock and linear search        *)
(* implement the atomic table, ShipTable.                                     *)
(* All rest on one invariant of the array ship[], the files and the save in   *)
(* progress, StoreInvariant.                                                  *)
EXTENDS ShipStore, FiniteSetTheorems, Numbers

-----------------------------------------------------------------------------
(* The clock is past zero, the time stamp of what was never updated.          *)
ClockHasStarted == now >= 1

(* Time stamps are of the past, and no entry is saved after its last update.  *)
TimesArePast ==
    \A i \in DOMAIN table :
        /\ table[i].last_update_time <= now
        /\ table[i].last_save_time <= now
        /\ table[i].last_update_time # 0
              => table[i].last_save_time <= table[i].last_update_time
IsPast(f) == f # NoFile => f.time <= now
FilesArePast == \A h \in Hashes : IsPast(data[h]) /\ IsPast(update[h])

(* Only the entry lookup_ship_by_hash finds is ever updated.                  *)
LaterEntriesRest ==
    \A i, j \in DOMAIN table :
        table[i].hash = table[j].hash /\ j < i => table[i].last_update_time = 0

(* save_bridge_info runs for a dirty entry, and what it has written so far is *)
(* a part of that entry.                                                      *)
SavesADirtyEntry ==
    saver.at \in {"write", "rename"} => running /\ saver.i \in DOMAIN table /\ Dirty(This)
WritesThisEntry ==
    /\ saver.at = "write" => ~short /\ update[This.hash] \in {EmptyFile, TornFile(This)}
    /\ saver.at = "rename" =>
          update[This.hash] \in (IF short THEN {EmptyFile, TornFile(This)} ELSE {WholeFile(This)})
    /\ saver.at \in {"idle", "scan"} => ~short

(* last_save_time is the time in the file a restart would believe.            *)
StampIsStored(h) ==
    table[Lookup(h)].last_save_time # 0
        => /\ Stored(h) # NoFile
           /\ Stored(h).time = table[Lookup(h)].last_save_time
StampsAreStored == \A h \in Known \ failed : ~Saving(h) => StampIsStored(h)

(* A dead process has no table.                                               *)
DeadIsEmpty == ~running => table = <<>> /\ saver.at = "idle"

StoreInvariant ==
    /\ StoreTypeOK
    /\ ClockHasStarted
    /\ TimesArePast
    /\ FilesArePast
    /\ LaterEntriesRest
    /\ SavesADirtyEntry
    /\ WritesThisEntry
    /\ StampsAreStored
    /\ DeadIsEmpty

-----------------------------------------------------------------------------
LEMMA StoreConstants ==
    /\ MaxShips \in Nat
    /\ Times \subseteq Nat
    /\ Times = 0 .. MaxTime
    /\ MaxTime \in Nat \ {0}
    /\ NoFile \notin Contents
    /\ IsFiniteSet(Hashes)
BY StoreAssumption DEF Times

LEMMA LeastIn ==
    ASSUME NEW S, S \subseteq Nat, S # {}, NEW m, m = CHOOSE i \in S : \A j \in S : i <= j
    PROVE  m \in S /\ \A n \in S : m <= n
BY LeastOf

(* lookup_ship_by_hash finds the first entry of a ship it knows.              *)
IsFirst(i, h) ==
    /\ i \in DOMAIN table
    /\ table[i].hash = h
    /\ \A j \in DOMAIN table : table[j].hash = h => i <= j

LEMMA LookupFinds ==
    ASSUME StoreTypeOK, NEW h \in Known
    PROVE  IsFirst(Lookup(h), h)
<1>1. Hashed(h) \subseteq Nat /\ Hashed(h) # {}
  <2>1. DOMAIN table \subseteq Nat
    BY DEF StoreTypeOK
  <2> QED BY <2>1 DEF Hashed, Known
<1>2. Lookup(h) \in Hashed(h) /\ \A j \in Hashed(h) : Lookup(h) <= j
  BY <1>1, LeastIn DEF Lookup
<1> QED BY <1>2 DEF Hashed, IsFirst

LEMMA FirstIsLookup ==
    ASSUME StoreTypeOK, NEW h, NEW i, IsFirst(i, h)
    PROVE  h \in Known /\ i = Lookup(h)
<1>1. h \in Known
  BY DEF Known, IsFirst
<1>2. IsFirst(Lookup(h), h)
  BY <1>1, LookupFinds
<1>3. i <= Lookup(h) /\ Lookup(h) <= i
  BY <1>2 DEF IsFirst
<1>4. i \in Nat /\ Lookup(h) \in Nat
  <2>1. DOMAIN table \subseteq Nat
    BY DEF StoreTypeOK
  <2> QED BY <2>1, <1>2 DEF IsFirst
<1> QED BY <1>1, <1>3, <1>4

LEMMA EntryTypes ==
    ASSUME StoreTypeOK, NEW i \in DOMAIN table
    PROVE  /\ table[i] \in Ship
           /\ table[i].hash \in Hashes
           /\ table[i].last_update_time \in Nat
           /\ table[i].last_save_time \in Nat
           /\ i \in 1 .. Len(table) /\ Len(table) \in Nat /\ Len(table) <= MaxShips
<1>1. table \in Seq(Ship) /\ Len(table) <= MaxShips
  BY DEF StoreTypeOK
<1>2. table[i] \in Ship
  BY <1>1
<1> QED BY <1>1, <1>2, StoreConstants DEF Ship

(* An entry that is dirty is the one lookup_ship_by_hash finds.               *)
LEMMA DirtyIsFirst ==
    ASSUME StoreTypeOK, LaterEntriesRest, NEW i \in DOMAIN table, Dirty(table[i])
    PROVE  /\ table[i].hash \in Known
           /\ IsFirst(i, table[i].hash)
           /\ i = Lookup(table[i].hash)
           /\ table[i].last_update_time # 0
<1>1. table[i].last_update_time # 0
  BY EntryTypes DEF Dirty
<1>2. ASSUME NEW j \in DOMAIN table, table[j].hash = table[i].hash PROVE i <= j
  <2>1. ~(j < i)
    BY <1>1, <1>2 DEF LaterEntriesRest
  <2> QED BY <2>1, EntryTypes
<1>3. IsFirst(i, table[i].hash)
  BY <1>2 DEF IsFirst
<1> QED BY <1>1, <1>3, FirstIsLookup

(* Steps that leave the ship of every entry alone leave the search alone.     *)
SameShips ==
    /\ DOMAIN table' = DOMAIN table
    /\ \A i \in DOMAIN table : table'[i].hash = table[i].hash

LEMMA SameSearch ==
    ASSUME SameShips
    PROVE  /\ Known' = Known
           /\ \A h : Hashed(h)' = Hashed(h) /\ Lookup(h)' = Lookup(h)
<1>1. Known' = Known
  BY DEF SameShips, Known
<1>2. ASSUME NEW h PROVE Hashed(h)' = Hashed(h)
  BY DEF SameShips, Hashed
<1> QED BY <1>1, <1>2 DEF Lookup

(* What NextEntry does to the table.                                          *)
Stamped(i) ==
    /\ SameShips
    /\ Len(table') = Len(table)
    /\ table' \in Seq(Ship)
    /\ \A j \in DOMAIN table :
          /\ table'[j].state = table[j].state
          /\ table'[j].home = table[j].home
          /\ table'[j].last_update_time = table[j].last_update_time
          /\ j # i => table'[j] = table[j]
    /\ table'[i].last_save_time = table[i].last_update_time

LEMMA NextEntryStamps ==
    ASSUME StoreTypeOK, saver.i \in DOMAIN table, NEW ok, NextEntry(ok)
    PROVE  Stamped(saver.i)
<1>1. table \in Seq(Ship) /\ table[saver.i] \in Ship
  BY EntryTypes DEF StoreTypeOK
<1>2. table' = [table EXCEPT ![saver.i].last_save_time = table[saver.i].last_update_time]
  BY DEF NextEntry, This
<1>3. table'[saver.i] = [table[saver.i] EXCEPT !.last_save_time = table[saver.i].last_update_time]
  BY <1>1, <1>2
<1>4. table'[saver.i] \in Ship
  BY <1>1, <1>3 DEF Ship
<1>5. \A j \in DOMAIN table : j # saver.i => table'[j] = table[j]
  BY <1>1, <1>2
<1>6. /\ table'[saver.i].hash = table[saver.i].hash
      /\ table'[saver.i].state = table[saver.i].state
      /\ table'[saver.i].home = table[saver.i].home
      /\ table'[saver.i].last_update_time = table[saver.i].last_update_time
      /\ table'[saver.i].last_save_time = table[saver.i].last_update_time
  BY <1>1, <1>3 DEF Ship
<1>7. table' = [table EXCEPT ![saver.i] = table'[saver.i]]
  BY <1>1, <1>2
<1>8. table' \in Seq(Ship) /\ Len(table') = Len(table) /\ DOMAIN table' = DOMAIN table
  BY <1>1, <1>4, <1>7
<1> QED BY <1>5, <1>6, <1>8 DEF Stamped, SameShips

(* What create_new_ship does to the table.                                    *)
Grown(h) ==
    /\ table' \in Seq(Ship)
    /\ Len(table') = Len(table) + 1
    /\ DOMAIN table' = DOMAIN table \cup {Len(table) + 1}
    /\ \A i \in DOMAIN table : table'[i] = table[i]
    /\ table'[Len(table) + 1] = [hash |-> h, state |-> 0, home |-> NoSystem,
                                 last_update_time |-> 0, last_save_time |-> 0]
    /\ Known' = Known \cup {h}
    /\ Lookup(h)' = Len(table) + 1
    /\ \A g \in Known : g # h /\ Lookup(g)' = Lookup(g)

LEMMA CreateGrows ==
    ASSUME StoreTypeOK, NEW h \in Hashes, CreateShip(h)
    PROVE  Grown(h)
<1> DEFINE e == [hash |-> h, state |-> 0, home |-> NoSystem,
                 last_update_time |-> 0, last_save_time |-> 0]
<1>1. table \in Seq(Ship) /\ table' = Append(table, e) /\ h \notin Known
  BY DEF CreateShip, StoreTypeOK
<1>2. e \in Ship
  BY StoreAssumption DEF Ship, States, Homes, Times
<1>3. e.hash = h
  OBVIOUS
<1> HIDE DEF e
<1>4. /\ table' \in Seq(Ship)
      /\ Len(table') = Len(table) + 1
      /\ Len(table) \in Nat
      /\ DOMAIN table = 1 .. Len(table)
      /\ DOMAIN table' = 1 .. Len(table) + 1
      /\ \A i \in DOMAIN table : table'[i] = table[i]
      /\ table'[Len(table) + 1] = e
  BY <1>1, <1>2
<1>5. DOMAIN table' = DOMAIN table \cup {Len(table) + 1} /\ Len(table) + 1 \notin DOMAIN table
  BY <1>4
<1>6. Known' = Known \cup {h}
  BY <1>3, <1>4, <1>5 DEF Known
<1>7. Hashed(h)' = {Len(table) + 1}
  BY <1>1, <1>3, <1>4, <1>5 DEF Hashed, Known
<1>8. Lookup(h)' = Len(table) + 1
  <2>1. Hashed(h)' \subseteq Nat /\ Hashed(h)' # {}
    BY <1>4, <1>7
  <2>2. Lookup(h)' \in Hashed(h)'
    BY <2>1, LeastIn DEF Lookup
  <2> QED BY <2>2, <1>7
<1>9. ASSUME NEW g \in Known PROVE g # h /\ Lookup(g)' = Lookup(g)
  <2>1. g # h
    BY <1>1
  <2>2. Hashed(g)' = Hashed(g)
    BY <2>1, <1>3, <1>4, <1>5 DEF Hashed
  <2> QED BY <2>1, <2>2 DEF Lookup
<1> QED BY <1>4, <1>5, <1>6, <1>8, <1>9 DEF Grown, e

(* What update_bridge does to the table.                                      *)
Updated(i, state, home) ==
    /\ SameShips
    /\ table' \in Seq(Ship)
    /\ Len(table') = Len(table)
    /\ i \in DOMAIN table
    /\ \A j \in DOMAIN table : j # i => table'[j] = table[j]
    /\ table'[i].state = state
    /\ table'[i].home = home
    /\ table'[i].last_update_time = now
    /\ table'[i].last_save_time = table[i].last_save_time

LEMMA UpdateUpdates ==
    ASSUME StoreTypeOK, NEW h \in Hashes, NEW state \in States, NEW home \in Systems,
           UpdateBridge(h, state, home)
    PROVE  h \in Known /\ Updated(Lookup(h), state, home)
<1>1. h \in Known
  BY DEF UpdateBridge
<1>2. Lookup(h) \in DOMAIN table
  BY <1>1, LookupFinds DEF IsFirst
<1> DEFINE i == Lookup(h)
           e == [table[i] EXCEPT !.state = state, !.home = home, !.last_update_time = now]
<1>3. table \in Seq(Ship) /\ table[i] \in Ship
  BY <1>2, EntryTypes DEF StoreTypeOK
<1>4. table' = [table EXCEPT ![i] = e]
  BY DEF UpdateBridge
<1>5. now \in Times /\ home \in Homes
  BY DEF StoreTypeOK, Homes
<1>6. /\ e \in Ship
      /\ e.hash = table[i].hash
      /\ e.state = state
      /\ e.home = home
      /\ e.last_update_time = now
      /\ e.last_save_time = table[i].last_save_time
  BY <1>3, <1>5 DEF Ship
<1> HIDE DEF i, e
<1>7. i \in DOMAIN table
  BY <1>2 DEF i
<1>8. /\ table' \in Seq(Ship) /\ Len(table') = Len(table) /\ DOMAIN table' = DOMAIN table
      /\ table'[i] = e
      /\ \A j \in DOMAIN table : j # i => table'[j] = table[j]
  BY <1>3, <1>4, <1>6, <1>7
<1>9. Updated(i, state, home)
  BY <1>6, <1>7, <1>8 DEF Updated, SameShips
<1> QED BY <1>1, <1>9 DEF i

-----------------------------------------------------------------------------
(* The files restore_data finds.                                              *)

Tagged(S, x) == {[hash |-> h, ext |-> x] : h \in S}

LEMMA TaggedCounted ==
    ASSUME NEW S, IsFiniteSet(S), NEW x
    PROVE  IsFiniteSet(Tagged(S, x)) /\ Cardinality(Tagged(S, x)) = Cardinality(S)
<1> DEFINE T == Tagged(S, x)
           f == [h \in S |-> [hash |-> h, ext |-> x]]
<1>1. f \in Bijection(S, T)
  BY DEF Bijection, Injection, Surjection, IsInjective, Tagged
<1>2. ExistsBijection(S, T)
  BY <1>1 DEF ExistsBijection
<1> QED BY <1>2, FS_Bijection

Updates == {h \in Hashes : update[h] # NoFile}

LEMMA FilesCounted ==
    /\ IsFiniteSet(SavedSeen) /\ IsFiniteSet(Updates) /\ IsFiniteSet(Files)
    /\ Cardinality(SavedSeen) \in Nat /\ Cardinality(Updates) \in Nat
    /\ Cardinality(Files) = Cardinality(SavedSeen) + Cardinality(Updates)
<1> DEFINE D == Tagged(SavedSeen, "data")
           U == Tagged(Updates, "update")
<1>1. IsFiniteSet(SavedSeen) /\ IsFiniteSet(Updates)
  BY StoreConstants, FS_Subset DEF SavedSeen, Updates
<1>2. IsFiniteSet(D) /\ Cardinality(D) = Cardinality(SavedSeen)
  BY <1>1, TaggedCounted
<1>3. IsFiniteSet(U) /\ Cardinality(U) = Cardinality(Updates)
  BY <1>1, TaggedCounted
<1>4. Files = D \cup U
  BY DEF Files, FileOf, SavedSeen, Updates, Tagged
<1>5. D \cap U = {}
  BY DEF Tagged
<1> HIDE DEF D, U
<1>6. Cardinality(SavedSeen) \in Nat /\ Cardinality(Updates) \in Nat
  BY <1>1, FS_CardinalityType
<1>7. /\ IsFiniteSet(D \cup U)
      /\ Cardinality(D \cup U) = Cardinality(D) + Cardinality(U) - Cardinality(D \cap U)
  BY <1>2, <1>3, FS_Union
<1>8. Cardinality(D \cap U) = 0
  BY <1>5, FS_EmptySet
<1> QED BY <1>1, <1>2, <1>3, <1>4, <1>6, <1>7, <1>8

LEMMA OrderOfFiles ==
    ASSUME NEW order \in SetToSeqs(Files)
    PROVE  /\ DOMAIN order = 1 .. Cardinality(Files)
           /\ Cardinality(Files) \in Nat
           /\ \A i \in DOMAIN order : order[i] \in Files
           /\ \A f \in Files : \E i \in DOMAIN order : order[i] = f
<1> DEFINE n == Cardinality(Files)
<1>1. IsFiniteSet(Files) /\ n \in Nat
  BY FilesCounted, FS_CardinalityType
<1>2. order \in [1 .. n -> Files] /\ \A i, j \in 1 .. n : i # j => order[i] # order[j]
  BY DEF SetToSeqs
<1> HIDE DEF n
<1>3. order \in Injection(1 .. n, Files)
  BY <1>2 DEF Injection, IsInjective
<1>4. Cardinality(1 .. n) = n
  BY <1>1, FS_Interval
<1>5. order \in Surjection(1 .. n, Files)
  BY <1>1, <1>3, <1>4, FS_Injection DEF n
<1> QED BY <1>1, <1>2, <1>5 DEF Surjection, n

LEMMA FileTypes ==
    ASSUME StoreTypeOK, NEW f \in Files
    PROVE  /\ f.hash \in Hashes /\ f.ext \in {"data", "update"}
           /\ f = [hash |-> f.hash, ext |-> f.ext]
           /\ FileOf(f) \in Contents
           /\ Restored(f) \in Ship
<1>1. /\ f.hash \in Hashes /\ f.ext \in {"data", "update"} /\ FileOf(f) # NoFile
      /\ f = [hash |-> f.hash, ext |-> f.ext]
  BY DEF Files
<1>2. data \in [Hashes -> Contents \cup {NoFile}] /\ update \in [Hashes -> Contents \cup {NoFile}]
  BY DEF StoreTypeOK
<1>3. FileOf(f) \in Contents
  BY <1>1, <1>2 DEF FileOf
<1>4. 0 \in Times
  BY StoreConstants
<1>5. Restored(f) \in Ship
  BY <1>1, <1>3, <1>4 DEF Restored, Ship, Contents
<1> QED BY <1>1, <1>3, <1>5

(* The entry restored from what a restart believes of a ship.                 *)
FromStored(h) ==
    [hash |-> h, state |-> Stored(h).state, home |-> Stored(h).home,
     last_update_time |-> 0, last_save_time |-> Stored(h).time]

AllRestored ==
    /\ table' \in Seq(Ship)
    /\ Len(table') = Cardinality(Files)
    /\ Len(table') <= MaxShips
    /\ \A i \in DOMAIN table' : \E f \in Files : table'[i] = Restored(f)
    /\ Known' = SavedSeen \cup Updates
    /\ \A h \in Known' : /\ Lookup(h)' \in DOMAIN table'
                         /\ Stored(h) \in Contents
                         /\ table'[Lookup(h)'] = FromStored(h)

LEMMA RestartRestores ==
    ASSUME StoreTypeOK, Restart
    PROVE  AllRestored
<1> DEFINE n == Cardinality(Files)
<1>1. PICK order \in SetToSeqs(Files) :
          DataFirst(order) /\ table' = [i \in DOMAIN order |-> Restored(order[i])]
  BY DEF Restart
<1>2. /\ DOMAIN order = 1 .. n /\ n \in Nat
      /\ \A i \in DOMAIN order : order[i] \in Files
      /\ \A f \in Files : \E i \in DOMAIN order : order[i] = f
  BY OrderOfFiles
<1> HIDE DEF n
<1>3. DOMAIN table' = 1 .. n /\ \A i \in 1 .. n : table'[i] = Restored(order[i])
  BY <1>1, <1>2
<1>4. table' \in Seq(Ship) /\ Len(table') = n
  <2>1. \A i \in 1 .. n : Restored(order[i]) \in Ship
    BY <1>2, FileTypes
  <2> QED BY <1>1, <1>2, <2>1
<1>5. n <= MaxShips
  BY DEF Restart, n
<1>6. \A i \in 1 .. n : table'[i].hash = order[i].hash
  BY <1>3 DEF Restored
<1>7. Known' = SavedSeen \cup Updates
  <2>1. ASSUME NEW h \in Known' PROVE h \in SavedSeen \cup Updates
    <3>1. PICK i \in 1 .. n : h = order[i].hash
      BY <1>3, <1>6 DEF Known
    <3>2. order[i] \in Files
      BY <1>2
    <3> QED BY <3>1, <3>2 DEF Files, FileOf, SavedSeen, Updates
  <2>2. ASSUME NEW h \in SavedSeen \cup Updates PROVE h \in Known'
    <3>1. PICK f \in Files : f.hash = h
      <4>1. CASE h \in SavedSeen
        <5>1. [hash |-> h, ext |-> "data"] \in Files
          BY <4>1 DEF SavedSeen, Files, FileOf
        <5> QED BY <5>1
      <4>2. CASE h \in Updates
        <5>1. [hash |-> h, ext |-> "update"] \in Files
          BY <4>2 DEF Updates, Files, FileOf
        <5> QED BY <5>1
      <4> QED BY <4>1, <4>2
    <3>2. PICK i \in 1 .. n : order[i] = f
      BY <1>2
    <3> QED BY <3>1, <3>2, <1>3, <1>6 DEF Known
  <2> QED BY <2>1, <2>2
<1>8. ASSUME NEW h \in Known'
      PROVE  /\ Lookup(h)' \in DOMAIN table'
             /\ Stored(h) \in Contents
             /\ table'[Lookup(h)'] = FromStored(h)
  <2> DEFINE L == Lookup(h)'
  <2>1. Hashed(h)' = {i \in 1 .. n : order[i].hash = h}
    BY <1>3, <1>6 DEF Hashed
  <2>2. Hashed(h)' \subseteq Nat /\ Hashed(h)' # {}
    <3>1. Hashed(h)' # {}
      BY DEF Known, Hashed
    <3> QED BY <3>1, <2>1, <1>2
  <2>3. L \in Hashed(h)' /\ \A j \in Hashed(h)' : L <= j
    BY <2>2, LeastIn DEF Lookup
  <2> HIDE DEF L
  <2>4. L \in 1 .. n /\ order[L].hash = h /\ order[L] \in Files
    BY <2>1, <2>3, <1>2
  <2>5. order[L].ext = "data" <=> data[h] # NoFile
    <3>1. CASE order[L].ext = "data"
      BY <2>4, <3>1 DEF Files, FileOf
    <3>2. CASE order[L].ext # "data" /\ data[h] # NoFile
      <4>1. order[L].ext = "update" /\ h \in Hashes
        BY <2>4, <3>2, FileTypes
      <4>2. [hash |-> h, ext |-> "data"] \in Files
        BY <3>2, <4>1 DEF Files, FileOf
      <4>3. PICK d \in 1 .. n : order[d] = [hash |-> h, ext |-> "data"]
        BY <1>2, <4>2
      <4>4. d < L
        <5>1. order[d].hash = order[L].hash /\ order[d].ext = "data"
          BY <2>4, <4>3
        <5> QED BY <5>1, <4>1, <2>4, <1>1, <1>2 DEF DataFirst
      <4>5. L <= d
        <5>1. d \in Hashed(h)'
          BY <4>3, <2>1
        <5> QED BY <5>1, <2>3
      <4> QED BY <4>4, <4>5, <2>4, <1>2
    <3> QED BY <3>1, <3>2
  <2>6. FileOf(order[L]) = Stored(h)
    BY <2>4, <2>5 DEF FileOf, Stored
  <2>7. table'[L] = FromStored(h)
    BY <2>4, <2>6, <1>3 DEF Restored, FromStored
  <2>8. Stored(h) \in Contents
    BY <2>4, <2>6, FileTypes
  <2> QED BY <2>4, <2>7, <2>8, <1>3 DEF L
<1> QED BY <1>2, <1>3, <1>4, <1>5, <1>7, <1>8 DEF AllRestored, n

-----------------------------------------------------------------------------
(* What a save may leave in the .update file.                                 *)
Scraps(e) == {EmptyFile, TornFile(e), WholeFile(e)}

LEMMA ScrapTypes ==
    ASSUME NEW e \in Ship
    PROVE  \A f \in Scraps(e) : f \in Contents /\ f # NoFile /\ f.time \in {0, e.last_update_time}
<1>1. EmptyFile \in Contents /\ EmptyFile.time = 0
  BY StoreAssumption DEF EmptyFile, Contents, States, Homes, Times
<1>2. WholeFile(e) \in Contents /\ WholeFile(e).time = e.last_update_time
  BY DEF WholeFile, Contents, Ship
<1>3. TornFile(e) \in Contents /\ TornFile(e).time = e.last_update_time
  <2>1. 0 \in States
    BY StoreAssumption DEF States
  <2> QED BY <1>2, <2>1 DEF TornFile, Contents
<1> QED BY <1>1, <1>2, <1>3, StoreConstants DEF Scraps

(* Every step of checkpoint_data leaves the .data files alone but Rename, and *)
(* the .update files but for scraps of the entry being saved.                 *)
WritesScraps ==
    /\ saver.i \in DOMAIN table
    /\ \E f \in Scraps(This) : update' = [update EXCEPT ![This.hash] = f]

LEMMA WritersWriteScraps ==
    ASSUME StoreInvariant, Open \/ WriteSome \/ Close \/ CloseShort
    PROVE  /\ WritesScraps
           /\ UNCHANGED <<running, data, now, crashes, forgotten>>
<1>1. CASE Open \/ WriteSome \/ Close
  BY <1>1 DEF Open, WriteSome, Close, At, WritesScraps, Scraps, memory, history
<1>2. CASE CloseShort
  <2>1. update[This.hash] \in Scraps(This)
    BY <1>2 DEF CloseShort, At, StoreInvariant, WritesThisEntry, Scraps
  <2>2. update' = [update EXCEPT ![This.hash] = update[This.hash]]
    BY <1>2 DEF CloseShort, disk, StoreInvariant, StoreTypeOK
  <2> QED BY <1>2, <2>1, <2>2 DEF CloseShort, At, WritesScraps, memory, disk
<1> QED BY <1>1, <1>2

LEMMA ScrapsKeepTypes ==
    ASSUME StoreTypeOK, WritesScraps
    PROVE  /\ update' \in [Hashes -> Contents \cup {NoFile}]
           /\ update'[This.hash] \in Scraps(This)
           /\ \A h \in Hashes : h # This.hash => update'[h] = update[h]
<1>1. This \in Ship /\ This.hash \in Hashes
  BY EntryTypes DEF WritesScraps, This
<1>2. PICK f \in Scraps(This) : update' = [update EXCEPT ![This.hash] = f]
  BY DEF WritesScraps
<1>3. f \in Contents
  BY <1>1, ScrapTypes
<1>4. update \in [Hashes -> Contents \cup {NoFile}]
  BY DEF StoreTypeOK
<1> QED BY <1>1, <1>2, <1>3, <1>4

SaverType == [at : {"idle", "scan", "write", "rename"}, i : 1 .. MaxShips + 1]

LEMMA SaverTypes ==
    ASSUME StoreTypeOK, [Next]_vars
    PROVE  saver' \in SaverType
<1>1. saver \in SaverType
  BY DEF StoreTypeOK, SaverType
<1>2. ASSUME saver.i \in DOMAIN table PROVE saver.i + 1 \in 1 .. MaxShips + 1
  BY <1>2, EntryTypes, StoreConstants
<1>3. CASE Checkpoint
  <2>1. CASE saver' = [at |-> "idle", i |-> 1] \/ saver' = [at |-> "scan", i |-> 1]
    BY <2>1, StoreConstants DEF SaverType
  <2>2. CASE Open \/ WriteSome \/ Close \/ CloseShort
    BY <2>2, <1>1 DEF Open, WriteSome, Close, CloseShort, SaverType
  <2>3. CASE Skip
    BY <2>3, <1>1, <1>2 DEF Skip, At, SaverType
  <2>4. ASSUME NEW ok, NextEntry(ok), saver.i \in DOMAIN table PROVE saver' \in SaverType
    BY <2>4, <1>1, <1>2 DEF NextEntry, SaverType
  <2>5. CASE OpenFails \/ Rename \/ RenameFails
    BY <2>5, <2>4 DEF OpenFails, Rename, RenameFails, At
  <2> QED BY <1>3, <2>1, <2>2, <2>3, <2>5 DEF Checkpoint, Begin, End
<1>4. CASE Crash
  BY <1>4, StoreConstants DEF Crash, SaverType
<1> QED
  BY <1>1, <1>3, <1>4 DEF Next, CreateShip, UpdateBridge, Tick, Restart, vars

LEMMA TableTypes ==
    ASSUME StoreTypeOK, [Next]_vars
    PROVE  table' \in Seq(Ship) /\ Len(table') <= MaxShips
<1>1. table \in Seq(Ship) /\ Len(table) <= MaxShips
  BY DEF StoreTypeOK
<1>2. ASSUME NEW h \in Hashes, CreateShip(h) PROVE table' \in Seq(Ship) /\ Len(table') <= MaxShips
  <2>1. Len(table) < MaxShips
    BY <1>2 DEF CreateShip
  <2>2. Grown(h)
    BY <1>2, CreateGrows
  <2> QED BY <1>1, <2>1, <2>2, StoreConstants DEF Grown
<1>3. ASSUME NEW h \in Hashes, NEW state \in States, NEW home \in Systems,
             UpdateBridge(h, state, home)
      PROVE  table' \in Seq(Ship) /\ Len(table') <= MaxShips
  <2>1. Updated(Lookup(h), state, home)
    BY <1>3, UpdateUpdates
  <2> QED BY <1>1, <2>1 DEF Updated
<1>4. ASSUME NEW ok, NextEntry(ok), saver.i \in DOMAIN table
      PROVE  table' \in Seq(Ship) /\ Len(table') <= MaxShips
  <2>1. Stamped(saver.i)
    BY <1>4, NextEntryStamps
  <2> QED BY <1>1, <2>1 DEF Stamped
<1>5. CASE Checkpoint
  BY <1>1, <1>4, <1>5 DEF Checkpoint, Begin, Skip, OpenFails, Open, WriteSome, Close, CloseShort,
                          Rename, RenameFails, End, At, memory
<1>6. CASE Crash
  BY <1>6, StoreConstants DEF Crash
<1>7. CASE Restart
  BY <1>7, RestartRestores DEF AllRestored
<1> QED
  BY <1>1, <1>2, <1>3, <1>5, <1>6, <1>7 DEF Next, Tick, vars

LEMMA DiskTypes ==
    ASSUME StoreInvariant, [Next]_vars
    PROVE  /\ data' \in [Hashes -> Contents \cup {NoFile}]
           /\ update' \in [Hashes -> Contents \cup {NoFile}]
           /\ before' \in Contents \cup {NoFile}
<1>1. /\ StoreTypeOK
      /\ data \in [Hashes -> Contents \cup {NoFile}]
      /\ update \in [Hashes -> Contents \cup {NoFile}]
      /\ before \in Contents \cup {NoFile}
  BY DEF StoreInvariant, StoreTypeOK
<1>2. CASE Open \/ WriteSome \/ Close \/ CloseShort
  <2>1. update' \in [Hashes -> Contents \cup {NoFile}] /\ UNCHANGED data
    BY <1>1, <1>2, WritersWriteScraps, ScrapsKeepTypes
  <2>2. before' \in Contents \cup {NoFile}
    <3>1. CASE Open
      <4>1. This.hash \in Hashes
        BY <3>1, <1>1, EntryTypes DEF Open, At, This
      <4> QED BY <3>1, <4>1, <1>1 DEF Open
    <3>2. CASE WriteSome \/ Close \/ CloseShort
      BY <3>2, <1>1 DEF WriteSome, Close, CloseShort, history
    <3> QED BY <1>2, <3>1, <3>2
  <2> QED BY <2>1, <2>2, <1>1
<1>3. CASE Rename
  <2>1. This.hash \in Hashes
    BY <1>3, <1>1, EntryTypes DEF Rename, At, This
  <2> QED BY <1>1, <1>3, <2>1 DEF Rename
<1>4. CASE Begin \/ Skip \/ OpenFails \/ RenameFails \/ End
  BY <1>1, <1>4 DEF Begin, Skip, OpenFails, RenameFails, End, disk, history
<1> QED
  BY <1>1, <1>2, <1>3, <1>4 DEF Next, Checkpoint, CreateShip, UpdateBridge, Tick, Crash, Restart,
                                disk, history, vars

LEMMA StoreTypeNext ==
    ASSUME StoreInvariant, [Next]_vars
    PROVE  StoreTypeOK'
<1> USE DEF StoreInvariant
<1>1. saver' \in [at : {"idle", "scan", "write", "rename"}, i : 1 .. MaxShips + 1]
  BY SaverTypes DEF SaverType
<1>2. running' \in BOOLEAN
  BY DEF StoreTypeOK, Next, Checkpoint, Begin, Skip, OpenFails, Open, WriteSome, Close,
         CloseShort, Rename, RenameFails, End, NextEntry, CreateShip, UpdateBridge, Tick,
         Crash, Restart, vars
<1>3. now' \in Times
  <2>1. now \in Times
    BY DEF StoreTypeOK
  <2>2. CASE Tick
    BY <2>1, <2>2, StoreConstants DEF Tick
  <2>3. CASE ~Tick
    BY <2>1, <2>3 DEF Next, Checkpoint, Begin, Skip, OpenFails, Open, WriteSome, Close,
                      CloseShort, Rename, RenameFails, End, NextEntry, CreateShip,
                      UpdateBridge, Crash, Restart, vars, memory
  <2> QED BY <2>2, <2>3
<1>4. crashes' \in 0 .. MaxCrashes
  <2>1. crashes \in 0 .. MaxCrashes /\ MaxCrashes \in Nat
    BY StoreAssumption DEF StoreTypeOK
  <2>2. CASE Crash
    BY <2>1, <2>2 DEF Crash
  <2>3. CASE ~Crash
    BY <2>1, <2>3 DEF Next, Checkpoint, Begin, Skip, OpenFails, Open, WriteSome, Close,
                      CloseShort, Rename, RenameFails, End, NextEntry, CreateShip,
                      UpdateBridge, Tick, Restart, vars
  <2> QED BY <2>2, <2>3
<1>5. Known \subseteq Hashes
  BY EntryTypes DEF Known
<1>6. failed' \subseteq Hashes
  <2>1. failed \subseteq Hashes
    BY DEF StoreTypeOK
  <2>2. ASSUME NEW ok, NextEntry(ok), saver.i \in DOMAIN table PROVE failed' \subseteq Hashes
    <3>1. This.hash \in Hashes
      BY <2>2, EntryTypes DEF This
    <3> QED BY <2>1, <2>2, <3>1 DEF NextEntry
  <2>3. CASE Checkpoint
    BY <2>1, <2>2, <2>3 DEF Checkpoint, Begin, Skip, OpenFails, Open, WriteSome, Close,
                            CloseShort, Rename, RenameFails, End, At, history
  <2> QED BY <2>1, <2>3 DEF Next, CreateShip, UpdateBridge, Tick, Crash, Restart, history, vars
<1>7. forgotten' \subseteq Hashes
  <2>1. forgotten \subseteq Hashes
    BY DEF StoreTypeOK
  <2>2. CASE Checkpoint
    BY <2>1, <2>2 DEF Checkpoint, Begin, Skip, OpenFails, Open, WriteSome, Close, CloseShort,
                      Rename, RenameFails, End, NextEntry, history
  <2> QED
    BY <2>1, <2>2, <1>5 DEF Next, CreateShip, UpdateBridge, Tick, Crash, Restart, history, vars
<1>8. short' \in BOOLEAN
  <2>1. short \in BOOLEAN
    BY DEF StoreTypeOK
  <2> QED
    BY <2>1 DEF Next, Checkpoint, Begin, Skip, OpenFails, Open, WriteSome, Close, CloseShort,
         Rename, RenameFails, End, CreateShip, UpdateBridge, Tick, Crash, Restart, history, vars
<1> QED BY <1>1, <1>2, <1>3, <1>4, <1>6, <1>7, <1>8, TableTypes, DiskTypes DEF StoreTypeOK

-----------------------------------------------------------------------------
(* Steps that stamp the entry being saved, whatever becomes of its files.     *)
LEMMA NextEntryFacts ==
    ASSUME StoreInvariant, OpenFails \/ Rename \/ RenameFails
    PROVE  /\ saver.i \in DOMAIN table /\ running /\ running'
           /\ Dirty(This)
           /\ Stamped(saver.i)
           /\ saver' = [at |-> "scan", i |-> saver.i + 1]
           /\ UNCHANGED now
           /\ Rename /\ ~short => failed' = failed \ {This.hash}
           /\ ~(Rename /\ ~short) => failed' = failed \cup {This.hash}
<1>1. saver.i \in DOMAIN table /\ running
  BY DEF OpenFails, Rename, RenameFails, At
<1>2. Dirty(This)
  BY DEF OpenFails, Rename, RenameFails, At, StoreInvariant, SavesADirtyEntry
<1>3. PICK ok \in BOOLEAN : NextEntry(ok) /\ (ok <=> Rename /\ ~short)
  <2>1. CASE Rename
    <3>1. NextEntry(~short)
      BY <2>1 DEF Rename
    <3>2. short \in BOOLEAN
      BY DEF StoreInvariant, StoreTypeOK
    <3> QED BY <2>1, <3>1, <3>2
  <2>2. CASE ~Rename
    <3>1. NextEntry(FALSE)
      BY <2>2 DEF OpenFails, RenameFails
    <3> QED BY <2>2, <3>1
  <2> QED BY <2>1, <2>2
<1>4. Stamped(saver.i)
  BY <1>1, <1>3, NextEntryStamps DEF StoreInvariant
<1> QED BY <1>1, <1>2, <1>3, <1>4 DEF NextEntry

LEMMA ClockNext ==
    ASSUME StoreInvariant, [Next]_vars
    PROVE  /\ now \in Nat /\ now' \in Nat /\ now <= now'
           /\ ClockHasStarted'
<1>1. now \in Nat /\ now >= 1
  BY StoreConstants DEF StoreInvariant, StoreTypeOK, ClockHasStarted
<1>2. now' \in {now, now + 1}
  BY DEF Next, Checkpoint, Begin, Skip, OpenFails, Open, WriteSome, Close, CloseShort, Rename,
         RenameFails, End, NextEntry, CreateShip, UpdateBridge, Tick, Crash, Restart, vars,
         memory
<1> QED BY <1>1, <1>2 DEF ClockHasStarted

(* The time stamps of one entry are of the past.                              *)
PastEntry(e, t) ==
    /\ e.last_update_time <= t
    /\ e.last_save_time <= t
    /\ e.last_update_time # 0 => e.last_save_time <= e.last_update_time

LEMMA TimesNext ==
    ASSUME StoreInvariant, [Next]_vars
    PROVE  TimesArePast'
<1>1. /\ StoreTypeOK
      /\ \A i \in DOMAIN table : PastEntry(table[i], now)
      /\ FilesArePast
  BY DEF StoreInvariant, TimesArePast, PastEntry
<1>2. now \in Nat /\ now' \in Nat /\ now <= now'
  BY ClockNext
<1>3. \A i \in DOMAIN table : PastEntry(table[i], now')
  BY <1>1, <1>2, EntryTypes DEF PastEntry
<1>4. SUFFICES \A i \in DOMAIN table' : PastEntry(table'[i], now')
  BY DEF TimesArePast, PastEntry
<1>5. CASE UNCHANGED table
  BY <1>3, <1>5
<1>6. ASSUME NEW h \in Hashes, CreateShip(h), NEW i \in DOMAIN table'
      PROVE  PastEntry(table'[i], now')
  <2>1. Grown(h)
    BY <1>1, <1>6, CreateGrows
  <2>2. CASE i \in DOMAIN table
    BY <2>1, <2>2, <1>3 DEF Grown
  <2>3. CASE i = Len(table) + 1
    BY <2>1, <2>3, <1>2 DEF Grown, PastEntry
  <2> QED BY <2>1, <2>2, <2>3, <1>6 DEF Grown
<1>7. ASSUME NEW h \in Hashes, NEW state \in States, NEW home \in Systems,
             UpdateBridge(h, state, home), NEW i \in DOMAIN table'
      PROVE  PastEntry(table'[i], now')
  <2>1. Updated(Lookup(h), state, home)
    BY <1>1, <1>7, UpdateUpdates
  <2>2. i \in DOMAIN table /\ Lookup(h) \in DOMAIN table
    BY <2>1, <1>7 DEF Updated, SameShips
  <2>3. CASE i # Lookup(h)
    BY <2>1, <2>2, <2>3, <1>3 DEF Updated
  <2>4. CASE i = Lookup(h)
    <3>1. /\ table'[i].last_update_time = now
          /\ table'[i].last_save_time = table[i].last_save_time
      BY <2>1, <2>4 DEF Updated
    <3>2. table[i].last_save_time <= now /\ table[i].last_save_time \in Nat
      BY <1>1, <2>2, EntryTypes DEF PastEntry
    <3> QED BY <3>1, <3>2, <1>2 DEF PastEntry
  <2> QED BY <2>3, <2>4
<1>8. ASSUME OpenFails \/ Rename \/ RenameFails, NEW i \in DOMAIN table'
      PROVE  PastEntry(table'[i], now')
  <2>1. Stamped(saver.i) /\ saver.i \in DOMAIN table
    BY <1>8, NextEntryFacts
  <2>2. i \in DOMAIN table
    BY <2>1, <1>8 DEF Stamped, SameShips
  <2>3. CASE i # saver.i
    BY <2>1, <2>2, <2>3, <1>3 DEF Stamped
  <2>4. CASE i = saver.i
    <3>1. /\ table'[i].last_update_time = table[i].last_update_time
          /\ table'[i].last_save_time = table[i].last_update_time
      BY <2>1, <2>2, <2>4 DEF Stamped
    <3>2. table[i].last_update_time \in Nat /\ table[i].last_update_time <= now'
      BY <2>2, <1>1, <1>3, EntryTypes DEF PastEntry
    <3> QED BY <3>1, <3>2, <1>2 DEF PastEntry
  <2> QED BY <2>3, <2>4
<1>9. CASE Checkpoint
  BY <1>5, <1>8, <1>9 DEF Checkpoint, Begin, Skip, Open, WriteSome, Close, CloseShort, End,
                          memory
<1>10. CASE Crash
  BY <1>10 DEF Crash
<1>11. ASSUME Restart, NEW i \in DOMAIN table' PROVE PastEntry(table'[i], now')
  <2>1. PICK f \in Files : table'[i] = Restored(f)
    BY <1>1, <1>11, RestartRestores DEF AllRestored
  <2>2. FileOf(f) \in Contents /\ FileOf(f).time <= now
    BY <1>1, FileTypes DEF FilesArePast, IsPast, FileOf, Files
  <2>3. FileOf(f).time \in Nat
    BY <2>2, StoreConstants DEF Contents
  <2> QED BY <2>1, <2>2, <2>3, <1>2 DEF Restored, PastEntry
<1> QED
  BY <1>5, <1>6, <1>7, <1>9, <1>10, <1>11 DEF Next, Tick, vars

LEMMA FileTimesNext ==
    ASSUME StoreInvariant, [Next]_vars
    PROVE  FilesArePast'
<1>1. StoreTypeOK /\ FilesArePast /\ TimesArePast
  BY DEF StoreInvariant
<1>2. now \in Nat /\ now' \in Nat /\ now <= now'
  BY ClockNext
<1>3. /\ data \in [Hashes -> Contents \cup {NoFile}]
      /\ update \in [Hashes -> Contents \cup {NoFile}]
  BY <1>1 DEF StoreTypeOK
<1>4. \A f \in Contents : f.time \in Nat
  BY StoreConstants DEF Contents
<1> DEFINE Past(f) == f # NoFile => f.time <= now'
<1>5. \A h \in Hashes : Past(data[h]) /\ Past(update[h])
  BY <1>1, <1>2, <1>3, <1>4 DEF FilesArePast, IsPast
<1>6. SUFFICES \A h \in Hashes : Past(data'[h]) /\ Past(update'[h])
  BY DEF FilesArePast, IsPast
<1>7. CASE UNCHANGED <<data, update>>
  BY <1>5, <1>7
<1> HIDE DEF Past
<1>8. CASE Open \/ WriteSome \/ Close \/ CloseShort
  <2>1. WritesScraps /\ UNCHANGED data
    BY <1>8, WritersWriteScraps
  <2>2. saver.i \in DOMAIN table /\ This \in Ship
    BY <2>1, <1>1, EntryTypes DEF WritesScraps, This
  <2>3. This.last_update_time \in Nat /\ This.last_update_time <= now
    BY <2>2, <1>1, EntryTypes DEF TimesArePast, This
  <2>4. \A f \in Scraps(This) : Past(f)
    BY <2>2, <2>3, <1>2, ScrapTypes DEF Past
  <2>5. /\ update'[This.hash] \in Scraps(This)
        /\ \A h \in Hashes : h # This.hash => update'[h] = update[h]
    BY <2>1, <1>1, ScrapsKeepTypes
  <2> QED BY <2>1, <2>4, <2>5, <1>5
<1>9. CASE Rename
  <2>1. This.hash \in Hashes
    BY <1>9, <1>1, EntryTypes DEF Rename, At, This
  <2>2. Past(NoFile)
    BY DEF Past
  <2>3. \A h \in Hashes : data'[h] \in {data[h], update[h]} /\ update'[h] \in {update[h], NoFile}
    BY <2>1, <1>3, <1>9 DEF Rename
  <2> QED BY <2>2, <2>3, <1>5
<1>10. CASE Checkpoint
  BY <1>7, <1>8, <1>9, <1>10 DEF Checkpoint, Begin, Skip, OpenFails, RenameFails, End, disk
<1> QED
  BY <1>7, <1>10 DEF Next, CreateShip, UpdateBridge, Tick, Crash, Restart, vars, disk

LEMMA LaterEntriesNext ==
    ASSUME StoreInvariant, [Next]_vars
    PROVE  LaterEntriesRest'
<1>1. StoreTypeOK /\ LaterEntriesRest
  BY DEF StoreInvariant
<1>2. CASE UNCHANGED table
  BY <1>1, <1>2 DEF LaterEntriesRest
<1>3. ASSUME NEW h \in Hashes, CreateShip(h) PROVE LaterEntriesRest'
  <2>1. Grown(h) /\ table'[Len(table) + 1].last_update_time = 0
    <3>1. Grown(h)
      BY <1>1, <1>3, CreateGrows
    <3> QED BY <3>1 DEF Grown
  <2>2. ASSUME NEW i \in DOMAIN table', NEW j \in DOMAIN table',
               table'[i].hash = table'[j].hash, j < i
        PROVE  table'[i].last_update_time = 0
    <3>1. CASE i = Len(table) + 1
      BY <2>1, <3>1
    <3>2. CASE i \in DOMAIN table
      <4>1. j \in DOMAIN table
        BY <2>1, <2>2, <3>2, EntryTypes, <1>1 DEF Grown
      <4> QED BY <2>1, <2>2, <3>2, <4>1, <1>1 DEF Grown, LaterEntriesRest
    <3> QED BY <2>1, <2>2, <3>1, <3>2 DEF Grown
  <2> QED BY <2>2 DEF LaterEntriesRest
<1>4. ASSUME NEW h \in Hashes, NEW state \in States, NEW home \in Systems,
             UpdateBridge(h, state, home)
      PROVE  LaterEntriesRest'
  <2>1. h \in Known /\ Updated(Lookup(h), state, home) /\ IsFirst(Lookup(h), h)
    BY <1>1, <1>4, UpdateUpdates, LookupFinds
  <2>2. ASSUME NEW i \in DOMAIN table, NEW j \in DOMAIN table,
               table[i].hash = table[j].hash, j < i
        PROVE  table'[i].last_update_time = 0
    <3>1. i # Lookup(h)
      <4>1. table[i].hash = h => Lookup(h) <= j
        BY <2>1, <2>2 DEF IsFirst
      <4> QED BY <4>1, <2>1, <2>2, <1>1, EntryTypes DEF IsFirst
    <3> QED BY <3>1, <2>1, <2>2, <1>1 DEF Updated, LaterEntriesRest
  <2> QED BY <2>1, <2>2 DEF LaterEntriesRest, Updated, SameShips
<1>5. ASSUME OpenFails \/ Rename \/ RenameFails PROVE LaterEntriesRest'
  <2>1. Stamped(saver.i)
    BY <1>5, NextEntryFacts
  <2> QED BY <2>1, <1>1 DEF Stamped, SameShips, LaterEntriesRest
<1>6. CASE Checkpoint
  BY <1>2, <1>5, <1>6 DEF Checkpoint, Begin, Skip, Open, WriteSome, Close, CloseShort, End,
                          memory
<1>7. CASE Crash
  BY <1>7 DEF Crash, LaterEntriesRest
<1>8. CASE Restart
  <2>1. \A i \in DOMAIN table' : table'[i].last_update_time = 0
    BY <1>1, <1>8, RestartRestores DEF AllRestored, Restored
  <2> QED BY <2>1 DEF LaterEntriesRest
<1> QED
  BY <1>2, <1>3, <1>4, <1>6, <1>7, <1>8 DEF Next, Tick, vars

LEMMA SaverNext ==
    ASSUME StoreInvariant, [Next]_vars
    PROVE  SavesADirtyEntry' /\ WritesThisEntry' /\ DeadIsEmpty'
<1>1. StoreTypeOK /\ SavesADirtyEntry /\ WritesThisEntry /\ DeadIsEmpty
  BY DEF StoreInvariant
<1>2. saver \in [at : {"idle", "scan", "write", "rename"}, i : 1 .. MaxShips + 1]
  BY <1>1 DEF StoreTypeOK
<1>3. ASSUME running', saver'.at \in {"idle", "scan"}, ~short'
      PROVE  SavesADirtyEntry' /\ WritesThisEntry' /\ DeadIsEmpty'
  BY <1>3 DEF SavesADirtyEntry, WritesThisEntry, DeadIsEmpty
<1>4. ASSUME UNCHANGED <<running, table, update, saver, short>>
      PROVE  SavesADirtyEntry' /\ WritesThisEntry' /\ DeadIsEmpty'
  BY <1>1, <1>4 DEF SavesADirtyEntry, WritesThisEntry, DeadIsEmpty, This, Dirty
<1>5. saver.at \in {"idle", "scan"} => ~short
  BY <1>1 DEF WritesThisEntry
<1>6. CASE Begin \/ Skip \/ End
  BY <1>2, <1>3, <1>5, <1>6 DEF Begin, Skip, End, MutexFree, At, history
<1>7. CASE OpenFails \/ Rename \/ RenameFails
  <2>1. ~short'
    BY <1>5, <1>7 DEF OpenFails, Rename, RenameFails, At
  <2> QED BY <1>3, <1>7, <2>1, NextEntryFacts
<1>8. CASE Open \/ WriteSome \/ Close \/ CloseShort
  <2>1. saver.i \in DOMAIN table /\ running /\ Dirty(This)
    BY <1>8, <1>1 DEF Open, WriteSome, Close, CloseShort, At, SavesADirtyEntry
  <2>2. UNCHANGED <<running, table>> /\ saver'.i = saver.i
    BY <1>8, <1>2 DEF Open, WriteSome, Close, CloseShort, memory
  <2>3. UNCHANGED This
    BY <2>2 DEF This
  <2>4. update \in [Hashes -> Contents \cup {NoFile}] /\ This.hash \in Hashes
    BY <1>1, <2>1, EntryTypes DEF StoreTypeOK, This
  <2>5. CASE Open \/ WriteSome
    <3>1. update'[This.hash] \in {EmptyFile, TornFile(This)} /\ saver'.at = "write"
      BY <2>4, <2>5, <1>2 DEF Open, WriteSome, At
    <3>2. ~short'
      BY <2>5, <1>1, <1>5 DEF Open, WriteSome, At, WritesThisEntry, history
    <3> QED
      BY <2>1, <2>2, <2>3, <3>1, <3>2
         DEF SavesADirtyEntry, WritesThisEntry, DeadIsEmpty, Dirty, EmptyFile, TornFile,
             WholeFile
  <2>6. CASE Close
    <3>1. update'[This.hash] = WholeFile(This) /\ saver'.at = "rename"
      BY <2>4, <2>6, <1>2 DEF Close
    <3>2. ~short'
      BY <2>6, <1>1 DEF Close, At, WritesThisEntry, history
    <3> QED
      BY <2>1, <2>2, <2>3, <3>1, <3>2
         DEF SavesADirtyEntry, WritesThisEntry, DeadIsEmpty, Dirty, WholeFile
  <2>7. CASE CloseShort
    <3>1. update'[This.hash] \in {EmptyFile, TornFile(This)} /\ saver'.at = "rename" /\ short'
      BY <2>7, <1>1, <1>2 DEF CloseShort, At, WritesThisEntry, disk
    <3> QED
      BY <2>1, <2>2, <2>3, <3>1
         DEF SavesADirtyEntry, WritesThisEntry, DeadIsEmpty, Dirty, EmptyFile, TornFile,
             WholeFile
  <2> QED BY <1>8, <2>5, <2>6, <2>7
<1>9. CASE Crash
  BY <1>9 DEF Crash, SavesADirtyEntry, WritesThisEntry, DeadIsEmpty
<1>10. CASE Restart
  BY <1>1, <1>3, <1>5, <1>10 DEF Restart, DeadIsEmpty
<1>11. ASSUME NEW h \in Hashes, CreateShip(h)
       PROVE  SavesADirtyEntry' /\ WritesThisEntry' /\ DeadIsEmpty'
  BY <1>3, <1>5, <1>11 DEF CreateShip, MutexFree
<1>12. ASSUME NEW h, NEW state, NEW home, UpdateBridge(h, state, home)
       PROVE  SavesADirtyEntry' /\ WritesThisEntry' /\ DeadIsEmpty'
  BY <1>3, <1>5, <1>12 DEF UpdateBridge, MutexFree, history
<1> QED
  BY <1>4, <1>6, <1>7, <1>8, <1>9, <1>10, <1>11, <1>12
     DEF Next, Checkpoint, Tick, vars, disk, history

LEMMA StampsNext ==
    ASSUME StoreInvariant, [Next]_vars
    PROVE  StampsAreStored'
<1>1. StoreTypeOK /\ LaterEntriesRest /\ StampsAreStored /\ SavesADirtyEntry /\ WritesThisEntry
  BY DEF StoreInvariant
<1>2. SUFFICES ASSUME NEW h \in Known' \ failed', ~Saving(h)'
               PROVE  StampIsStored(h)'
  BY DEF StampsAreStored
<1>3. Known \subseteq Hashes
  BY <1>1, EntryTypes DEF Known
(* A ship whose files, entry and save nobody touches.                         *)
<1>4. ASSUME h \in Known \ failed, ~Saving(h), UNCHANGED Stored(h), Lookup(h)' = Lookup(h),
             table'[Lookup(h)].last_save_time = table[Lookup(h)].last_save_time
      PROVE  StampIsStored(h)'
  BY <1>1, <1>4 DEF StampsAreStored, StampIsStored
<1>5. ASSUME UNCHANGED <<running, table, data, update, saver, failed>>
      PROVE  StampIsStored(h)'
  <2>1. /\ Known' = Known /\ Lookup(h)' = Lookup(h) /\ UNCHANGED Stored(h)
        /\ Saving(h)' = Saving(h)
    BY <1>5 DEF Known, Lookup, Hashed, Stored, Saving, This
  <2> QED BY <2>1, <1>2, <1>4, <1>5
<1>6. CASE Begin \/ Skip \/ End
  <2>1. UNCHANGED <<running, table, data, update, failed>> /\ saver.at \in {"idle", "scan"}
    BY <1>6 DEF Begin, Skip, End, MutexFree, At, memory, disk, history
  <2>2. Known' = Known /\ Lookup(h)' = Lookup(h) /\ UNCHANGED Stored(h) /\ ~Saving(h)
    BY <2>1 DEF Known, Lookup, Hashed, Stored, Saving
  <2> QED BY <2>1, <2>2, <1>2, <1>4
<1>7. CASE Open \/ WriteSome \/ Close \/ CloseShort
  <2>1. UNCHANGED <<running, table, data, failed>> /\ running /\ saver.i \in DOMAIN table
    BY <1>7 DEF Open, WriteSome, Close, CloseShort, At, memory, disk, history
  <2>2. saver'.i = saver.i /\ saver'.at \in {"write", "rename"}
    BY <1>7, <1>1 DEF Open, WriteSome, Close, CloseShort, At, StoreTypeOK
  <2>3. This.hash # h
    BY <1>2, <2>1, <2>2 DEF Saving, This
  <2>4. h \in Known /\ Lookup(h)' = Lookup(h)
    BY <1>2, <2>1 DEF Known, Lookup, Hashed
  <2>5. update'[h] = update[h]
    BY <1>1, <1>3, <1>7, <2>3, <2>4, WritersWriteScraps, ScrapsKeepTypes DEF StoreInvariant
  <2>6. UNCHANGED Stored(h) /\ ~Saving(h)
    BY <2>1, <2>3, <2>5 DEF Stored, Saving
  <2> QED BY <1>2, <1>4, <2>1, <2>4, <2>6
<1>8. CASE OpenFails \/ Rename \/ RenameFails
  <2>1. /\ saver.i \in DOMAIN table /\ Dirty(This) /\ Stamped(saver.i)
        /\ Rename /\ ~short => failed' = failed \ {This.hash}
        /\ ~(Rename /\ ~short) => failed' = failed \cup {This.hash}
    BY <1>8, NextEntryFacts
  <2>2. Known' = Known /\ Lookup(h)' = Lookup(h)
    BY <2>1, SameSearch DEF Stamped
  <2>3. This.hash \in Hashes /\ saver.i = Lookup(This.hash)
    BY <2>1, <1>1, EntryTypes, DirtyIsFirst DEF This
  <2>4. /\ data \in [Hashes -> Contents \cup {NoFile}]
        /\ update \in [Hashes -> Contents \cup {NoFile}]
        /\ h \in Known /\ h \in Hashes
    BY <1>1, <1>2, <1>3, <2>2 DEF StoreTypeOK
  <2>5. CASE h # This.hash
    <3>1. UNCHANGED Stored(h)
      <4>1. CASE OpenFails \/ RenameFails
        BY <4>1 DEF OpenFails, RenameFails, disk, Stored
      <4>2. CASE Rename
        BY <4>2, <2>3, <2>4, <2>5 DEF Rename, Stored
      <4> QED BY <1>8, <4>1, <4>2
    <3>2. h \notin failed /\ ~Saving(h)
      BY <2>1, <2>5, <1>2 DEF Saving
    <3>3. Lookup(h) \in DOMAIN table /\ Lookup(h) # saver.i
      <4>1. IsFirst(Lookup(h), h)
        BY <2>4, <1>1, LookupFinds
      <4> QED BY <4>1, <2>5 DEF IsFirst, This
    <3>4. table'[Lookup(h)] = table[Lookup(h)]
      BY <2>1, <3>3 DEF Stamped
    <3> QED BY <1>4, <2>2, <2>4, <3>1, <3>2, <3>4
  <2>6. CASE h = This.hash
    <3>1. Rename /\ ~short
      BY <2>1, <2>6, <1>2
    <3>2. update[h] = WholeFile(This)
      BY <3>1, <2>6, <1>1 DEF Rename, At, WritesThisEntry
    <3>3. data'[h] = WholeFile(This)
      BY <3>1, <3>2, <2>4, <2>6 DEF Rename
    <3>4. WholeFile(This) # NoFile /\ WholeFile(This).time = This.last_update_time
      <4>1. This \in Ship
        BY <2>1, <1>1, EntryTypes DEF This
      <4> QED BY <4>1, ScrapTypes DEF WholeFile, Scraps
    <3>5. Stored(h)' # NoFile /\ Stored(h)'.time = This.last_update_time
      BY <3>3, <3>4 DEF Stored
    <3>6. table'[Lookup(h)'].last_save_time = This.last_update_time
      BY <2>1, <2>2, <2>3, <2>6 DEF Stamped, This
    <3> QED BY <3>5, <3>6 DEF StampIsStored
  <2> QED BY <2>5, <2>6
<1>9. CASE Crash
  BY <1>2, <1>9 DEF Crash, Known
<1>10. CASE Restart
  <2>1. AllRestored
    BY <1>1, <1>10, RestartRestores
  <2>2. Stored(h) \in Contents /\ table'[Lookup(h)'] = FromStored(h)
    BY <2>1, <1>2 DEF AllRestored
  <2>3. UNCHANGED Stored(h)
    BY <1>10 DEF Restart, disk, Stored
  <2> QED BY <2>2, <2>3, StoreConstants DEF StampIsStored, FromStored
<1>11. ASSUME NEW g \in Hashes, CreateShip(g) PROVE StampIsStored(h)'
  <2>1. Grown(g)
    BY <1>1, <1>11, CreateGrows
  <2>2. UNCHANGED <<running, data, update, failed, saver>> /\ saver.at = "idle"
    BY <1>11 DEF CreateShip, disk, MutexFree
  <2>3. CASE h = g
    BY <2>1, <2>3 DEF Grown, StampIsStored
  <2>4. CASE h # g
    <3>1. h \in Known /\ Lookup(h)' = Lookup(h)
      BY <2>1, <2>4, <1>2 DEF Grown
    <3>2. Lookup(h) \in DOMAIN table
      BY <3>1, <1>1, LookupFinds DEF IsFirst
    <3> QED BY <3>1, <3>2, <2>1, <2>2, <1>2, <1>4 DEF Grown, Stored, Saving
  <2> QED BY <2>3, <2>4
<1>12. ASSUME NEW g \in Hashes, NEW state \in States, NEW home \in Systems,
              UpdateBridge(g, state, home)
       PROVE  StampIsStored(h)'
  <2>1. Updated(Lookup(g), state, home)
    BY <1>1, <1>12, UpdateUpdates
  <2>2. UNCHANGED <<running, data, update, failed, saver>> /\ saver.at = "idle"
    BY <1>12 DEF UpdateBridge, disk, history, MutexFree
  <2>3. Known' = Known /\ Lookup(h)' = Lookup(h)
    BY <2>1, SameSearch DEF Updated
  <2>4. Lookup(h) \in DOMAIN table
    BY <2>3, <1>1, <1>2, LookupFinds DEF IsFirst
  <2>5. table'[Lookup(h)].last_save_time = table[Lookup(h)].last_save_time
    BY <2>1, <2>4 DEF Updated
  <2> QED BY <2>2, <2>3, <2>5, <1>2, <1>4 DEF Stored, Saving
<1> QED
  BY <1>5, <1>6, <1>7, <1>8, <1>9, <1>10, <1>11, <1>12
     DEF Next, Checkpoint, Tick, vars, disk, history

LEMMA StoreInvariantInit == ASSUME Init PROVE StoreInvariant
<1>1. StoreTypeOK
  <2>1. /\ table \in Seq(Ship) /\ Len(table) <= MaxShips
        /\ saver \in [at : {"idle", "scan", "write", "rename"}, i : 1 .. MaxShips + 1]
        /\ now \in Times /\ crashes \in 0 .. MaxCrashes
    BY StoreConstants, StoreAssumption DEF Init
  <2>2. /\ data \in [Hashes -> Contents \cup {NoFile}]
        /\ update \in [Hashes -> Contents \cup {NoFile}]
        /\ before \in Contents \cup {NoFile}
    BY DEF Init
  <2> QED BY <2>1, <2>2 DEF Init, StoreTypeOK
<1> QED
  BY <1>1 DEF Init, StoreInvariant, ClockHasStarted, TimesArePast, FilesArePast, IsPast,
              LaterEntriesRest, SavesADirtyEntry, WritesThisEntry, StampsAreStored, Known,
              DeadIsEmpty

LEMMA StoreInvariantStep == ASSUME StoreInvariant, [Next]_vars PROVE StoreInvariant'
BY StoreTypeNext, ClockNext, TimesNext, FileTimesNext, LaterEntriesNext, SaverNext, StampsNext
   DEF StoreInvariant

THEOREM StoreInvariantHolds == Spec => []StoreInvariant
BY StoreInvariantInit, StoreInvariantStep, PTL DEF Spec

(* Every entry is a ship with whole seconds, never more than MAX_BRIDGES of   *)
(* them, and every file holds what some ship was, whatever fails in           *)
(* checkpoint_data and whatever restore_data finds (struct bridge_info).      *)
THEOREM StoreTypes == Spec => []StoreTypeOK
<1>1. StoreInvariant => StoreTypeOK
  BY DEF StoreInvariant
<1> QED BY StoreInvariantHolds, <1>1, PTL

(* An updated entry that checkpoint_data would skip is on disk with the       *)
(* second of its last update, unless its save failed: the comparison of whole *)
(* seconds loses no more than the updates of one second, for any number of    *)
(* ships and crashes.                                                         *)
THEOREM CleanEntriesAreSaved == Spec => []CleanIsSaved
<1>1. ASSUME StoreInvariant PROVE CleanIsSaved
  <2>1. StoreTypeOK /\ LaterEntriesRest /\ StampsAreStored /\ SavesADirtyEntry /\ TimesArePast
    BY <1>1 DEF StoreInvariant
  <2>2. SUFFICES ASSUME NEW h \in Known \ failed,
                        table[Lookup(h)].last_update_time # 0, ~Dirty(table[Lookup(h)])
                 PROVE  /\ Stored(h) # NoFile
                        /\ Stored(h).time = table[Lookup(h)].last_update_time
    BY DEF CleanIsSaved
  <2>3. Lookup(h) \in DOMAIN table
    BY <2>1, LookupFinds DEF IsFirst
  <2>4. ~Saving(h)
    BY <2>1, <2>2, DirtyIsFirst DEF Saving, SavesADirtyEntry, This
  <2>5. table[Lookup(h)].last_save_time = table[Lookup(h)].last_update_time
    BY <2>1, <2>2, <2>3, EntryTypes DEF TimesArePast, Dirty
  <2>6. StampIsStored(h)
    BY <2>1, <2>4 DEF StampsAreStored
  <2> QED BY <2>2, <2>5, <2>6 DEF StampIsStored
<1> QED BY StoreInvariantHolds, <1>1, PTL

-----------------------------------------------------------------------------
(* ShipStore implements ShipTable: what each step looks like through the      *)
(* files and the search.                                                      *)

ShipsRest == UNCHANGED <<Known, Len(table), ShipsSeen>>
FilesRestSeen == UNCHANGED <<SavedSeen, LeftoverSeen, FilesSeen>>

LEMMA SameTableSeen == ASSUME UNCHANGED table PROVE ShipsRest
BY DEF ShipsRest, Known, ShipsSeen, AbstractShip, AbstractEntry, Dirty, Lookup, Hashed

LEMMA SameFilesSeen ==
    ASSUME UNCHANGED data, \A h \in Hashes : Leftover(h)' = Leftover(h)
    PROVE  FilesRestSeen
BY DEF FilesRestSeen, SavedSeen, LeftoverSeen, FilesSeen, AbstractFile

LEMMA DirtyIs ==
    ASSUME NEW e, e.last_update_time \in Nat, e.last_save_time \in Nat
    PROVE  /\ e.last_update_time > e.last_save_time => Dirty(e) = TRUE
           /\ ~(e.last_update_time > e.last_save_time) => Dirty(e) = FALSE
<1>1. ASSUME e.last_update_time > e.last_save_time PROVE Dirty(e) = TRUE
  <2>1. Dirty(e)
    BY <1>1 DEF Dirty
  <2> QED BY <2>1
<1>2. ASSUME ~(e.last_update_time > e.last_save_time) PROVE Dirty(e) = FALSE
  <2>1. ~Dirty(e)
    BY <1>2 DEF Dirty
  <2> QED BY <2>1
<1> QED BY <1>1, <1>2

LEMMA EntrySeen ==
    ASSUME NEW e \in Ship
    PROVE  /\ AbstractEntry(e) \in Table!Entry
           /\ AbstractEntry(e).state = e.state /\ e.state \in States
           /\ AbstractEntry(e).home = e.home /\ e.home \in Homes
           /\ AbstractEntry(e).dirty = Dirty(e) /\ Dirty(e) \in BOOLEAN
           /\ e.last_save_time # 0 => AbstractEntry(e).stamped = TRUE
           /\ e.last_save_time = 0 => AbstractEntry(e).stamped = FALSE
<1>1. /\ e.state \in States /\ e.home \in Homes
      /\ e.last_update_time \in Nat /\ e.last_save_time \in Nat
  BY StoreConstants DEF Ship
<1>2. Dirty(e) \in BOOLEAN /\ (e.last_save_time # 0) \in BOOLEAN
  BY <1>1 DEF Dirty
<1>3. AbstractEntry(e) \in [state : States, home : Homes, dirty : BOOLEAN, stamped : BOOLEAN]
  BY <1>1, <1>2 DEF AbstractEntry
<1>4. [state : States, home : Homes, dirty : BOOLEAN, stamped : BOOLEAN] = Table!Entry
  BY DEF States, Homes, Table!Entry, Table!States, Table!Homes, Table!Fresh
<1> QED BY <1>1, <1>2, <1>3, <1>4 DEF AbstractEntry

LEMMA AppliedEntry ==
    ASSUME NEW a \in Table!Entry, NEW s \in States, NEW h \in Homes, NEW d \in BOOLEAN,
           NEW b \in Table!Entry,
           b.state = s, b.home = h, b.dirty = d, b.stamped = a.stamped
    PROVE  b = [a EXCEPT !.state = s, !.home = h, !.dirty = d]
<1> DEFINE e == [a EXCEPT !.state = s, !.home = h, !.dirty = d]
<1> USE DEF States, Homes, Table!Entry, Table!States, Table!Homes, Table!Fresh
<1>1. e \in Table!Entry
  OBVIOUS
<1>2. e.state = s /\ e.home = h /\ e.dirty = d /\ e.stamped = a.stamped
  OBVIOUS
<1> HIDE DEF e
<1>3. b = e
  BY <1>1, <1>2
<1> QED BY <1>3 DEF e

LEMMA SavedEntry ==
    ASSUME NEW a \in Table!Entry, NEW b \in Table!Entry,
           b.state = a.state, b.home = a.home, b.dirty = FALSE, b.stamped = TRUE
    PROVE  b = [a EXCEPT !.dirty = FALSE, !.stamped = TRUE]
<1> DEFINE e == [a EXCEPT !.dirty = FALSE, !.stamped = TRUE]
<1> USE DEF Table!Entry
<1>1. e \in Table!Entry
  OBVIOUS
<1>2. e.state = a.state /\ e.home = a.home /\ e.dirty = FALSE /\ e.stamped = TRUE
  OBVIOUS
<1> HIDE DEF e
<1>3. b = e
  BY <1>1, <1>2
<1> QED BY <1>3 DEF e

(* Nothing is being saved before or after the step.                           *)
Quiet == saver.at \notin {"write", "rename"}

LEMMA QuietLeftover == ASSUME Quiet PROVE \A h : Leftover(h) = update[h]
BY DEF Quiet, Leftover, Saving

LEMMA QuietFilesSeen ==
    ASSUME Quiet, Quiet', UNCHANGED disk
    PROVE  FilesRestSeen
<1>1. \A h : Leftover(h) = update[h] /\ Leftover(h)' = update'[h]
  BY DEF Quiet, Leftover, Saving
<1> QED BY <1>1, SameFilesSeen DEF disk

LEMMA InitImplements == ASSUME Init PROVE Table!TableInit
<1>1. Known = {} /\ Len(table) = 0
  BY DEF Init, Known
<1>2. ShipsSeen = [h \in Hashes |-> Table!BlankEntry]
  BY <1>1 DEF ShipsSeen, AbstractShip, Table!BlankEntry, Table!Fresh
<1>3. \A h \in Hashes : data[h] = NoFile /\ Leftover(h) = NoFile
  BY DEF Init, Leftover, Saving
<1>4. AbstractContent(EmptyFile) = Table!BlankContent
  BY DEF AbstractContent, EmptyFile, Table!BlankContent, Table!Fresh
<1>5. FilesSeen = [h \in Hashes |-> Table!BlankContent]
  BY <1>3, <1>4 DEF FilesSeen, AbstractFile
<1> QED
  BY <1>1, <1>2, <1>3, <1>5 DEF Init, Table!TableInit, SavedSeen, LeftoverSeen

LEMMA CreateImplements ==
    ASSUME StoreInvariant, NEW h \in Hashes, CreateShip(h)
    PROVE  Table!Create(h)
<1>1. Grown(h)
  BY CreateGrows DEF StoreInvariant
<1>2. FilesRestSeen
  BY QuietFilesSeen DEF CreateShip, MutexFree, Quiet
<1>3. ASSUME NEW g \in Hashes
      PROVE  AbstractShip(g)' = IF g = h THEN Table!BlankEntry ELSE AbstractShip(g)
  <2>1. CASE g = h
    <3>1. table'[Lookup(g)'] = [hash |-> h, state |-> 0, home |-> NoSystem,
                                last_update_time |-> 0, last_save_time |-> 0]
      BY <1>1, <2>1 DEF Grown
    <3> DEFINE x == table'[Lookup(g)']
    <3>2. /\ x.last_update_time = 0 /\ x.last_save_time = 0
          /\ x.state = 0 /\ x.home = NoSystem
      BY <3>1
    <3>3. AbstractEntry(table[Lookup(g)])' = AbstractEntry(x)
      BY DEF AbstractEntry, Dirty
    <3> HIDE DEF x
    <3>4. AbstractEntry(x) = Table!BlankEntry
      <4>1. Dirty(x) = FALSE
        <5>1. /\ x.last_update_time \in Nat /\ x.last_save_time \in Nat
              /\ ~(x.last_update_time > x.last_save_time)
          BY <3>2
        <5> QED BY <5>1, DirtyIs
      <4>2. (x.last_save_time # 0) = FALSE
        BY <3>2
      <4> QED BY <3>2, <4>1, <4>2 DEF AbstractEntry, Table!BlankEntry, Table!Fresh
    <3> QED BY <1>1, <2>1, <3>3, <3>4 DEF Grown, AbstractShip
  <2>2. CASE g # h /\ g \in Known
    <3>1. g \in Known' /\ Lookup(g)' = Lookup(g)
      BY <1>1, <2>2 DEF Grown
    <3>2. table'[Lookup(g)] = table[Lookup(g)]
      BY <1>1, <2>2, LookupFinds DEF Grown, IsFirst, StoreInvariant
    <3> QED BY <2>2, <3>1, <3>2 DEF AbstractShip, AbstractEntry, Dirty
  <2>3. CASE g # h /\ g \notin Known
    BY <1>1, <2>3 DEF Grown, AbstractShip
  <2> QED BY <2>1, <2>2, <2>3
<1>4. ShipsSeen' = [ShipsSeen EXCEPT ![h] = Table!BlankEntry]
  BY <1>3 DEF ShipsSeen
<1>5. ~(Len(table) >= MaxShips)
  <2>1. Len(table) < MaxShips /\ Len(table) \in Nat
    BY DEF CreateShip, StoreInvariant, StoreTypeOK
  <2> QED BY <2>1, StoreConstants
<1>6. /\ running /\ h \notin Known
      /\ UNCHANGED running /\ forgotten' = forgotten \ {h}
  BY DEF CreateShip, MutexFree
<1>7. Known' = Known \cup {h} /\ Len(table') = Len(table) + 1
  BY <1>1 DEF Grown
<1> QED
  BY <1>2, <1>4, <1>5, <1>6, <1>7 DEF FilesRestSeen, Table!Create, Table!TableFull

LEMMA UpdateImplements ==
    ASSUME StoreInvariant, NEW h \in Hashes, NEW state \in States, NEW home \in Systems,
           UpdateBridge(h, state, home)
    PROVE  Table!Apply(h, state, home)
<1>1. h \in Known /\ Updated(Lookup(h), state, home)
  BY UpdateUpdates DEF StoreInvariant
<1>2. FilesRestSeen
  BY QuietFilesSeen DEF UpdateBridge, MutexFree, Quiet
<1>3. Known' = Known /\ \A g : Lookup(g)' = Lookup(g)
  BY <1>1, SameSearch DEF Updated
<1> DEFINE d == Dirty(table'[Lookup(h)])
           e == [ShipsSeen[h] EXCEPT !.state = state, !.home = home, !.dirty = d]
<1>4. ASSUME NEW g \in Hashes
      PROVE  AbstractShip(g)' = IF g = h THEN e ELSE AbstractShip(g)
  <2>1. CASE g = h
    <3> DEFINE x == table'[Lookup(h)]
               y == table[Lookup(h)]
    <3>1. AbstractShip(h)' = AbstractEntry(x)
      BY <1>1, <1>3 DEF AbstractShip, AbstractEntry, Dirty
    <3>2. ShipsSeen[h] = AbstractEntry(y)
      BY <1>1 DEF ShipsSeen, AbstractShip
    <3>3. x.state = state /\ x.home = home /\ x.last_save_time = y.last_save_time
      BY <1>1 DEF Updated
    <3>4. x \in Ship /\ y \in Ship
      BY <1>1, EntryTypes DEF Updated, SameShips, StoreInvariant
    <3>5. d = Dirty(x)
      OBVIOUS
    <3> HIDE DEF x, y, d
    <3>6. AbstractEntry(x) = [AbstractEntry(y) EXCEPT !.state = state, !.home = home, !.dirty = d]
      <4>1. AbstractEntry(x).stamped = AbstractEntry(y).stamped
        BY <3>3, <3>4, EntrySeen
      <4>2. /\ AbstractEntry(x) \in Table!Entry /\ AbstractEntry(y) \in Table!Entry
            /\ AbstractEntry(x).state = state /\ state \in States
            /\ AbstractEntry(x).home = home /\ home \in Homes
            /\ AbstractEntry(x).dirty = d /\ d \in BOOLEAN
        BY <3>3, <3>4, <3>5, EntrySeen
      <4> QED BY <4>1, <4>2, AppliedEntry
    <3> QED BY <2>1, <3>1, <3>2, <3>6
  <2>2. CASE g # h /\ g \in Known
    <3>1. IsFirst(Lookup(g), g) /\ IsFirst(Lookup(h), h)
      BY <1>1, <2>2, LookupFinds DEF StoreInvariant
    <3>2. table'[Lookup(g)] = table[Lookup(g)]
      BY <1>1, <2>2, <3>1 DEF Updated, IsFirst
    <3> QED BY <2>2, <3>2, <1>3 DEF AbstractShip, AbstractEntry, Dirty
  <2>3. CASE g # h /\ g \notin Known
    BY <1>3, <2>3 DEF AbstractShip
  <2> QED BY <2>1, <2>2, <2>3
<1>5. d \in (IF ShipsSeen[h].stamped THEN {TRUE, ShipsSeen[h].dirty} ELSE {TRUE})
  <2>1. ShipsSeen[h] = AbstractEntry(table[Lookup(h)])
    BY <1>1 DEF ShipsSeen, AbstractShip
  <2> DEFINE i == Lookup(h)
  <2>2. i \in DOMAIN table /\ StoreTypeOK
    BY <1>1 DEF Updated, StoreInvariant
  <2>3. table'[i].last_update_time = now /\ table'[i].last_save_time = table[i].last_save_time
    BY <1>1 DEF Updated
  <2>4. /\ now \in Nat /\ now >= 1
        /\ table[i].last_update_time <= now
        /\ table[i].last_update_time \in Nat /\ table[i].last_save_time \in Nat
    BY <2>2, EntryTypes, StoreConstants
       DEF StoreTypeOK, StoreInvariant, ClockHasStarted, TimesArePast
  <2>6. CASE now > table[i].last_save_time
    <3>1. d = TRUE
      BY <2>3, <2>4, <2>6, DirtyIs
    <3> QED BY <3>1
  <2>7. CASE ~(now > table[i].last_save_time)
    <3>1. d = FALSE
      BY <2>3, <2>4, <2>7, DirtyIs
    <3>2. table[i].last_save_time # 0 /\ ~(table[i].last_update_time > table[i].last_save_time)
      BY <2>4, <2>7
    <3>3. Dirty(table[i]) = FALSE
      BY <2>4, <3>2, DirtyIs
    <3>4. ShipsSeen[h].stamped = TRUE /\ ShipsSeen[h].dirty = FALSE
      BY <2>1, <2>2, <3>2, <3>3, EntryTypes, EntrySeen
    <3> QED BY <3>1, <3>4
  <2> QED BY <2>6, <2>7
<1>6. ShipsSeen' = [ShipsSeen EXCEPT ![h] = e]
  <2> HIDE DEF e
  <2> QED BY <1>4 DEF ShipsSeen
<1>7. Len(table') = Len(table)
  BY <1>1 DEF Updated
<1>8. running /\ UNCHANGED <<running, forgotten>>
  BY DEF UpdateBridge, MutexFree, history
<1> HIDE DEF d
<1> QED
  BY <1>1, <1>2, <1>3, <1>5, <1>6, <1>7, <1>8 DEF FilesRestSeen, Table!Apply

(* The entry being saved, seen as the abstract one.                           *)
LEMMA ThisSeen ==
    ASSUME StoreInvariant, saver.i \in DOMAIN table, Dirty(This)
    PROVE  /\ This \in Ship /\ This.hash \in Hashes /\ This.hash \in Known
           /\ saver.i = Lookup(This.hash)
           /\ This.last_update_time # 0
           /\ ShipsSeen[This.hash] = AbstractEntry(This)
           /\ ShipsSeen[This.hash].dirty = TRUE
<1>1. StoreTypeOK /\ LaterEntriesRest
  BY DEF StoreInvariant
<1>2. /\ This \in Ship /\ This.hash \in Hashes /\ This.hash \in Known
      /\ saver.i = Lookup(This.hash)
      /\ This.last_update_time # 0
  BY <1>1, EntryTypes, DirtyIsFirst DEF This
<1>3. ShipsSeen[This.hash] = AbstractEntry(This)
  BY <1>2 DEF ShipsSeen, AbstractShip, This
<1>4. AbstractEntry(This).dirty = TRUE
  BY <1>2, EntrySeen
<1> QED BY <1>2, <1>3, <1>4

LEMMA StampSeen ==
    ASSUME StoreInvariant, OpenFails \/ Rename \/ RenameFails,
           NEW g, g = This.hash
    PROVE  /\ UNCHANGED <<running, Known, Len(table), forgotten>> /\ running
           /\ ShipsSeen' = [ShipsSeen EXCEPT ![g] = [@ EXCEPT !.dirty = FALSE, !.stamped = TRUE]]
<1> DEFINE e == [ShipsSeen[g] EXCEPT !.dirty = FALSE, !.stamped = TRUE]
<1>1. /\ saver.i \in DOMAIN table /\ running /\ running' /\ Dirty(This)
      /\ Stamped(saver.i)
  BY NextEntryFacts
<1>2. StoreTypeOK
  BY DEF StoreInvariant
<1>3. Known' = Known /\ \A h : Lookup(h)' = Lookup(h)
  BY <1>1, SameSearch DEF Stamped
<1>4. /\ This \in Ship /\ g \in Hashes /\ g \in Known /\ saver.i = Lookup(g)
      /\ This.last_update_time # 0
      /\ ShipsSeen[g] = AbstractEntry(This)
  BY <1>1, ThisSeen
<1>5. UNCHANGED <<running, forgotten>>
  BY DEF OpenFails, Rename, RenameFails, NextEntry
<1>6. Len(table') = Len(table)
  BY <1>1 DEF Stamped
<1>7. ASSUME NEW h \in Hashes
      PROVE  AbstractShip(h)' = IF h = g THEN e ELSE AbstractShip(h)
  <2>1. CASE h = g
    <3> DEFINE x == table'[saver.i]
    <3>1. AbstractShip(g)' = AbstractEntry(x)
      BY <1>3, <1>4 DEF AbstractShip, AbstractEntry, Dirty
    <3>2. /\ x \in Ship
          /\ x.state = This.state /\ x.home = This.home
          /\ x.last_update_time = This.last_update_time
          /\ x.last_save_time = This.last_update_time
      BY <1>1 DEF Stamped, SameShips, This
    <3> HIDE DEF x
    <3>3. Dirty(x) = FALSE
      <4>1. /\ x.last_update_time \in Nat /\ x.last_save_time \in Nat
            /\ ~(x.last_update_time > x.last_save_time)
        BY <3>2, StoreConstants DEF Ship
      <4> QED BY <4>1, DirtyIs
    <3>4. /\ AbstractEntry(x) \in Table!Entry /\ AbstractEntry(This) \in Table!Entry
          /\ AbstractEntry(x).state = AbstractEntry(This).state
          /\ AbstractEntry(x).home = AbstractEntry(This).home
          /\ AbstractEntry(x).dirty = FALSE
          /\ AbstractEntry(x).stamped = TRUE
      BY <1>4, <3>2, <3>3, EntrySeen
    <3>5. AbstractEntry(x) = [AbstractEntry(This) EXCEPT !.dirty = FALSE, !.stamped = TRUE]
      BY <3>4, SavedEntry
    <3> QED BY <2>1, <3>1, <3>5, <1>4
  <2>2. CASE h # g /\ h \in Known
    <3>1. IsFirst(Lookup(h), h)
      BY <1>2, <2>2, LookupFinds
    <3>2. Lookup(h) \in DOMAIN table /\ Lookup(h) # saver.i
      BY <3>1, <2>2 DEF IsFirst, This
    <3>3. table'[Lookup(h)] = table[Lookup(h)]
      BY <1>1, <3>2 DEF Stamped
    <3> QED BY <2>2, <3>3, <1>3 DEF AbstractShip, AbstractEntry, Dirty
  <2>3. CASE h # g /\ h \notin Known
    BY <1>3, <2>3 DEF AbstractShip
  <2> QED BY <2>1, <2>2, <2>3
<1>8. ShipsSeen' = [ShipsSeen EXCEPT ![g] = e]
  <2> HIDE DEF e
  <2> QED BY <1>7 DEF ShipsSeen
<1> QED BY <1>1, <1>3, <1>5, <1>6, <1>8

(* What is left of a save that went no further, or ran into an error.         *)
LEMMA CutSeen ==
    ASSUME NEW e \in Ship, e.last_update_time # 0, NEW f \in {EmptyFile, TornFile(e)}
    PROVE  AbstractContent(f) \in Table!CutShort(AbstractEntry(e))
<1> DEFINE c == Table!ContentOf(AbstractEntry(e))
<1>1. c = [state |-> e.state, home |-> e.home, stamped |-> TRUE]
  BY EntrySeen DEF Table!ContentOf
<1>2. CASE f = EmptyFile
  BY <1>2 DEF AbstractContent, EmptyFile, Table!CutShort, Table!BlankContent, Table!Fresh
<1>3. CASE f = TornFile(e)
  <2>1. f.state = 0 /\ f.home = e.home /\ f.time = e.last_update_time
    BY <1>3 DEF TornFile, WholeFile
  <2>2. (e.last_update_time # 0) = TRUE
    OBVIOUS
  <2>3. AbstractContent(f) = [state |-> 0, home |-> e.home, stamped |-> TRUE]
    BY <2>1, <2>2 DEF AbstractContent
  <2>4. [c EXCEPT !.state = 0] = [state |-> 0, home |-> e.home, stamped |-> TRUE]
    <3>1. /\ c \in [state : States, home : Homes, stamped : {TRUE}]
          /\ c.home = e.home /\ c.stamped = TRUE
      BY <1>1 DEF Ship
    <3>2. 0 \in States
      BY StoreAssumption DEF States
    <3> DEFINE d == [c EXCEPT !.state = 0]
    <3> HIDE DEF c
    <3>3. /\ d \in [state : States, home : Homes, stamped : {TRUE}]
          /\ d.state = 0 /\ d.home = e.home /\ d.stamped = TRUE
      BY <3>1, <3>2
    <3> HIDE DEF d
    <3>4. d = [state |-> 0, home |-> e.home, stamped |-> TRUE]
      BY <3>3
    <3> QED BY <3>4 DEF d
  <2> QED BY <2>3, <2>4 DEF Table!CutShort, Table!Fresh
<1> QED BY <1>2, <1>3

LEMMA WholeSeen ==
    ASSUME NEW e \in Ship, e.last_update_time # 0
    PROVE  AbstractContent(WholeFile(e)) = Table!ContentOf(AbstractEntry(e))
<1>1. Table!ContentOf(AbstractEntry(e)) = [state |-> e.state, home |-> e.home, stamped |-> TRUE]
  BY EntrySeen DEF Table!ContentOf
<1>2. (e.last_update_time # 0) = TRUE
  OBVIOUS
<1> QED BY <1>1, <1>2 DEF AbstractContent, WholeFile

LEMMA ScrapsSeen ==
    ASSUME NEW e \in Ship, e.last_update_time # 0, NEW f \in Scraps(e)
    PROVE  AbstractContent(f) \in Table!Scraps(AbstractEntry(e))
BY CutSeen, WholeSeen DEF Scraps, Table!Scraps

LEMMA AbandonSeen ==
    ASSUME StoreInvariant, saver.i \in DOMAIN table, Dirty(This), UNCHANGED data,
           NEW g, g = This.hash, Leftover(g)' \in Scraps(This),
           \A h \in Hashes : h # g => Leftover(h)' = Leftover(h)
    PROVE  UNCHANGED SavedSeen /\ Table!Abandon(g)
<1> DEFINE f == Leftover(g)'
<1>1. /\ This \in Ship /\ g \in Hashes /\ This.last_update_time # 0
      /\ ShipsSeen[g] = AbstractEntry(This)
  BY ThisSeen
<1>2. f \in Scraps(This) /\ f # NoFile
  BY <1>1, ScrapTypes
<1>3. AbstractContent(f) \in Table!Scraps(ShipsSeen[g])
  BY <1>1, <1>2, ScrapsSeen
<1>4. UNCHANGED SavedSeen
  BY DEF SavedSeen
<1>5. Leftover(g)' = f
  OBVIOUS
<1> HIDE DEF f
<1>6. \A h \in Hashes : h # g => Leftover(h)' = Leftover(h)
  OBVIOUS
<1>7. LeftoverSeen' = LeftoverSeen \cup {g}
  BY <1>1, <1>2, <1>5, <1>6 DEF LeftoverSeen
<1>8. CASE g \in SavedSeen
  <2>1. UNCHANGED FilesSeen
    <3>1. \A h \in Hashes : AbstractFile(h)' = AbstractFile(h)
      BY <1>6, <1>8 DEF SavedSeen, AbstractFile
    <3> QED BY <3>1 DEF FilesSeen
  <2> QED BY <1>4, <1>7, <1>8, <2>1 DEF Table!Abandon
<1>9. CASE g \notin SavedSeen
  <2>1. ASSUME NEW h \in Hashes
        PROVE  AbstractFile(h)' = IF h = g THEN AbstractContent(f) ELSE AbstractFile(h)
    BY <1>1, <1>2, <1>5, <1>6, <1>9, <2>1 DEF SavedSeen, AbstractFile, AbstractContent
  <2>2. FilesSeen' = [FilesSeen EXCEPT ![g] = AbstractContent(f)]
    BY <2>1 DEF FilesSeen
  <2> QED BY <1>3, <1>4, <1>7, <1>9, <2>2 DEF Table!Abandon
<1> QED BY <1>8, <1>9

LEMMA OthersLeftover ==
    ASSUME running, saver.at \in {"write", "rename"}, Quiet',
           NEW g, g = This.hash, \A h \in Hashes : h # g => update'[h] = update[h]
    PROVE  /\ Leftover(g)' = update'[g]
           /\ \A h \in Hashes : h # g => Leftover(h)' = Leftover(h)
BY DEF Quiet, Leftover, Saving

(* A renamed file is whole, or what an error nobody saw has left.             *)
LEMMA RenameImplements ==
    ASSUME StoreInvariant, Rename, NEW g, g = This.hash
    PROVE  g \in Hashes /\ (Table!Save(g) \/ Table!SaveShort(g))
<1> DEFINE f == update[g]
           c == AbstractContent(f)
<1>1. /\ saver.i \in DOMAIN table /\ running /\ Dirty(This) /\ saver.at = "rename"
      /\ saver'.at = "scan"
  <2>1. saver.i \in DOMAIN table /\ running /\ Dirty(This) /\ saver'.at = "scan"
    BY NextEntryFacts
  <2> QED BY <2>1 DEF Rename, At
<1>2. /\ This \in Ship /\ g \in Hashes /\ g \in Known /\ This.last_update_time # 0
      /\ ShipsSeen[g] = AbstractEntry(This) /\ ShipsSeen[g].dirty = TRUE
  BY <1>1, ThisSeen
<1>3. /\ UNCHANGED <<running, Known, Len(table), forgotten>>
      /\ ShipsSeen' = [ShipsSeen EXCEPT ![g] = [@ EXCEPT !.dirty = FALSE, !.stamped = TRUE]]
  BY StampSeen
<1>4. /\ data \in [Hashes -> Contents \cup {NoFile}]
      /\ update \in [Hashes -> Contents \cup {NoFile}]
      /\ f = WholeFile(This) \/ f \in {EmptyFile, TornFile(This)}
  BY <1>1 DEF StoreInvariant, StoreTypeOK, WritesThisEntry
<1>5. f # NoFile
  BY <1>2, <1>4, ScrapTypes DEF Scraps
<1>6. /\ data'[g] = f /\ update'[g] = NoFile
      /\ \A h \in Hashes : h # g => data'[h] = data[h] /\ update'[h] = update[h]
  BY <1>2, <1>4 DEF Rename
<1>7. Leftover(g)' = NoFile /\ \A h \in Hashes : h # g => Leftover(h)' = Leftover(h)
  BY <1>1, <1>6, OthersLeftover DEF Quiet
<1>8. c = Table!ContentOf(ShipsSeen[g]) \/ c \in Table!CutShort(ShipsSeen[g])
  BY <1>2, <1>4, CutSeen, WholeSeen
<1> HIDE DEF f
<1>9. SavedSeen' = SavedSeen \cup {g}
  BY <1>2, <1>5, <1>6 DEF SavedSeen
<1>10. LeftoverSeen' = LeftoverSeen \ {g}
  BY <1>2, <1>7 DEF LeftoverSeen
<1>11. ASSUME NEW h \in Hashes
       PROVE  AbstractFile(h)' = IF h = g THEN c ELSE AbstractFile(h)
  <2>1. CASE h = g
    <3>1. AbstractFile(h)' = AbstractContent(data'[h])
      BY <1>5, <1>6, <2>1 DEF AbstractFile, AbstractContent
    <3> QED BY <2>1, <3>1, <1>6
  <2>2. CASE h # g
    BY <1>6, <1>7, <2>2 DEF AbstractFile
  <2> QED BY <2>1, <2>2
<1>12. FilesSeen' = [FilesSeen EXCEPT ![g] = c]
  <2> HIDE DEF c
  <2> QED BY <1>11 DEF FilesSeen
<1> HIDE DEF c
<1>13. CASE c = Table!ContentOf(ShipsSeen[g])
  BY <1>1, <1>2, <1>3, <1>9, <1>10, <1>12, <1>13 DEF Table!Save
<1>14. CASE c \in Table!CutShort(ShipsSeen[g])
  BY <1>1, <1>2, <1>3, <1>9, <1>10, <1>12, <1>14 DEF Table!SaveShort
<1> QED BY <1>2, <1>8, <1>13, <1>14

LEMMA SaveFailsImplements ==
    ASSUME StoreInvariant, OpenFails \/ RenameFails, NEW g, g = This.hash
    PROVE  g \in Hashes /\ Table!SaveFails(g)
<1>1. /\ saver.i \in DOMAIN table /\ running /\ Dirty(This) /\ saver'.at = "scan"
  BY NextEntryFacts
<1>2. /\ This \in Ship /\ g \in Hashes /\ g \in Known /\ ShipsSeen[g].dirty = TRUE
  BY <1>1, ThisSeen
<1>3. /\ UNCHANGED <<running, Known, Len(table), forgotten>>
      /\ ShipsSeen' = [ShipsSeen EXCEPT ![g] = [@ EXCEPT !.dirty = FALSE, !.stamped = TRUE]]
  BY StampSeen
<1>4. UNCHANGED SavedSeen /\ (Table!Abandon(g) \/ UNCHANGED <<LeftoverSeen, FilesSeen>>)
  <2>1. CASE OpenFails
    <3>1. Quiet /\ Quiet'
      BY <2>1, <1>1 DEF OpenFails, At, Quiet
    <3> QED BY <2>1, <3>1, QuietFilesSeen DEF OpenFails, FilesRestSeen
  <2>2. CASE RenameFails
    <3>1. saver.at \in {"write", "rename"} /\ Quiet'
      BY <2>2, <1>1 DEF RenameFails, At, Quiet
    <3>2. /\ UNCHANGED data /\ update'[g] \in Scraps(This)
          /\ \A h \in Hashes : h # g => update'[h] = update[h]
      BY <2>2 DEF RenameFails, disk, At, StoreInvariant, WritesThisEntry, Scraps
    <3>3. /\ Leftover(g)' \in Scraps(This)
          /\ \A h \in Hashes : h # g => Leftover(h)' = Leftover(h)
      BY <1>1, <3>1, <3>2, OthersLeftover
    <3> QED BY <1>1, <3>2, <3>3, AbandonSeen
  <2> QED BY <2>1, <2>2
<1> QED BY <1>1, <1>2, <1>3, <1>4 DEF Table!SaveFails

LEMMA CrashImplements ==
    ASSUME StoreInvariant, Crash
    PROVE  Table!Crash
<1>1. /\ running /\ running' = FALSE /\ table' = <<>> /\ UNCHANGED disk
      /\ forgotten' = forgotten \cup Known
      /\ Quiet'
  BY DEF Crash, Quiet
<1>2. Known' = {} /\ Len(table') = 0
  BY <1>1 DEF Known
<1>3. ShipsSeen' = [h \in Hashes |-> Table!BlankEntry]
  BY <1>2 DEF ShipsSeen, AbstractShip, Table!BlankEntry, Table!Fresh
<1>4. /\ UNCHANGED SavedSeen
      /\ \/ UNCHANGED <<LeftoverSeen, FilesSeen>>
         \/ \E h \in Known : ShipsSeen[h].dirty /\ Table!Abandon(h)
  <2>1. CASE Quiet
    BY <1>1, <2>1, QuietFilesSeen DEF FilesRestSeen
  <2>2. CASE ~Quiet
    <3>1. saver.at \in {"write", "rename"} /\ saver.i \in DOMAIN table /\ Dirty(This)
      BY <2>2 DEF Quiet, StoreInvariant, SavesADirtyEntry
    <3>2. PICK g : g = This.hash
      OBVIOUS
    <3>3. g \in Known /\ ShipsSeen[g].dirty = TRUE
      BY <3>1, <3>2, ThisSeen
    <3>4. UNCHANGED data /\ update'[g] \in Scraps(This)
      BY <1>1, <3>1, <3>2 DEF disk, StoreInvariant, WritesThisEntry, Scraps
    <3>5. /\ Leftover(g)' \in Scraps(This)
          /\ \A h \in Hashes : h # g => Leftover(h)' = Leftover(h)
      BY <1>1, <3>1, <3>2, <3>4, OthersLeftover DEF disk
    <3>6. UNCHANGED SavedSeen /\ Table!Abandon(g)
      BY <3>1, <3>2, <3>4, <3>5, AbandonSeen
    <3> QED BY <3>3, <3>6
  <2> QED BY <2>1, <2>2
<1> QED BY <1>1, <1>2, <1>3, <1>4 DEF Table!Crash

LEMMA RestartImplements ==
    ASSUME StoreInvariant, Restart
    PROVE  Table!Restart
<1>1. /\ ~running /\ running' = TRUE /\ UNCHANGED disk /\ Quiet /\ Quiet'
  BY DEF Restart, Quiet, StoreInvariant, DeadIsEmpty
<1>2. AllRestored
  BY RestartRestores DEF StoreInvariant
<1>3. FilesRestSeen /\ LeftoverSeen = Updates
  BY <1>1, QuietFilesSeen, QuietLeftover DEF LeftoverSeen, Updates
<1>4. Known' = SavedSeen \cup LeftoverSeen
  BY <1>2, <1>3 DEF AllRestored
<1>5. /\ Len(table') = Cardinality(SavedSeen) + Cardinality(LeftoverSeen)
      /\ Len(table') <= MaxShips
  BY <1>2, <1>3, FilesCounted DEF AllRestored
<1>6. forgotten' = forgotten \ Known'
  <2>1. {f.hash : f \in Files} = SavedSeen \cup Updates
    <3>1. ASSUME NEW f \in Files PROVE f.hash \in SavedSeen \cup Updates
      BY DEF Files, FileOf, SavedSeen, Updates
    <3>2. ASSUME NEW h \in SavedSeen PROVE \E f \in Files : f.hash = h
      <4>1. [hash |-> h, ext |-> "data"] \in Files
        BY DEF SavedSeen, Files, FileOf
      <4> QED BY <4>1
    <3>3. ASSUME NEW h \in Updates PROVE \E f \in Files : f.hash = h
      <4>1. [hash |-> h, ext |-> "update"] \in Files
        BY DEF Updates, Files, FileOf
      <4> QED BY <4>1
    <3> QED BY <3>1, <3>2, <3>3
  <2> QED BY <2>1, <1>3, <1>4 DEF Restart
<1>7. ASSUME NEW h \in Hashes
      PROVE  AbstractShip(h)' = IF h \in Known' THEN Table!EntryOf(FilesSeen[h])
                                ELSE Table!BlankEntry
  <2>1. CASE h \notin Known'
    BY <2>1 DEF AbstractShip, Table!BlankEntry, Table!Fresh
  <2>2. CASE h \in Known'
    <3> DEFINE x == table'[Lookup(h)']
               f == Stored(h)
    <3>1. AbstractShip(h)' = AbstractEntry(x)
      BY <2>2 DEF AbstractShip, AbstractEntry, Dirty
    <3>2. f \in Contents /\ x = FromStored(h)
      BY <2>2, <1>2 DEF AllRestored
    <3>3. /\ x.state = f.state /\ x.home = f.home
          /\ x.last_update_time = 0 /\ x.last_save_time = f.time
      BY <3>2 DEF FromStored
    <3>4. FilesSeen[h] = AbstractContent(f)
      <4>1. f # NoFile /\ Leftover(h) = update[h]
        BY <3>2, <1>1, QuietLeftover, StoreConstants
      <4> QED BY <4>1 DEF FilesSeen, AbstractFile, Stored
    <3>5. f.time \in Nat
      BY <3>2, StoreConstants DEF Contents
    <3> HIDE DEF x, f
    <3>6. Dirty(x) = FALSE
      <4>1. /\ x.last_update_time \in Nat /\ x.last_save_time \in Nat
            /\ ~(x.last_update_time > x.last_save_time)
        BY <3>3, <3>5
      <4> QED BY <4>1, DirtyIs
    <3>7. AbstractEntry(x) = Table!EntryOf(AbstractContent(f))
      <4> DEFINE q == f.time # 0
      <4>1. AbstractEntry(x) = [state |-> f.state, home |-> f.home, dirty |-> FALSE, stamped |-> q]
        BY <3>3, <3>6 DEF AbstractEntry
      <4>2. AbstractContent(f) = [state |-> f.state, home |-> f.home, stamped |-> q]
        BY DEF AbstractContent
      <4> HIDE DEF q
      <4> QED BY <4>1, <4>2 DEF Table!EntryOf
    <3> QED BY <2>2, <3>1, <3>4, <3>7
  <2> QED BY <2>1, <2>2
<1>8. ShipsSeen' = [h \in Hashes |-> IF h \in Known' THEN Table!EntryOf(FilesSeen[h])
                                     ELSE Table!BlankEntry]
  BY <1>7 DEF ShipsSeen
<1>9. UNCHANGED <<SavedSeen, LeftoverSeen, FilesSeen>>
  BY <1>3 DEF FilesRestSeen
<1>10. \A S : Table!Cardinality(S) = Cardinality(S)
  BY DEF Table!Cardinality, Cardinality
<1> QED BY <1>1, <1>4, <1>5, <1>6, <1>8, <1>9, <1>10 DEF Table!Restart

(* The system calls of a save, the clock, and the walk along ship[].          *)
LEMMA StutterImplements ==
    ASSUME StoreInvariant,
           Tick \/ Begin \/ Skip \/ Open \/ WriteSome \/ Close
           \/ CloseShort \/ End \/ UNCHANGED vars
    PROVE  UNCHANGED Table!tableVars
<1>1. UNCHANGED <<running, table, data, forgotten>>
  BY DEF Tick, Begin, Skip, Open, WriteSome, Close, CloseShort, End, vars, memory, disk, history
<1>2. ShipsRest
  BY <1>1, SameTableSeen
<1>3. \A h \in Hashes : Leftover(h)' = Leftover(h)
  <2>1. CASE Tick \/ UNCHANGED vars
    BY <2>1 DEF Tick, vars, disk, history, Leftover, Saving, This
  <2>2. CASE Begin \/ Skip \/ End
    <3>1. Quiet /\ Quiet' /\ UNCHANGED update
      <4>1. saver.at \in {"idle", "scan"} /\ saver'.at \in {"idle", "scan"}
        BY <2>2 DEF Begin, Skip, End, MutexFree, At, StoreInvariant, StoreTypeOK
      <4> QED BY <2>2, <4>1 DEF Quiet, Begin, Skip, End, disk
    <3> QED BY <3>1 DEF Quiet, Leftover, Saving
  <2>3. CASE Open \/ WriteSome \/ Close \/ CloseShort
    <3>1. PICK g : g = This.hash
      OBVIOUS
    <3>2. \A h \in Hashes : h # g => update'[h] = update[h]
      BY <2>3, <3>1, WritersWriteScraps, ScrapsKeepTypes DEF StoreInvariant
    <3>3. running /\ saver'.at \in {"write", "rename"} /\ saver'.i = saver.i
      BY <2>3 DEF Open, WriteSome, Close, CloseShort, At, StoreInvariant, StoreTypeOK
    <3>4. This' = This
      BY <1>1, <3>3 DEF This
    <3>5. \A h : Saving(h)' <=> h = g
      BY <1>1, <3>1, <3>3, <3>4 DEF Saving
    <3>6. CASE Open
      <4>1. before' = update[g] /\ \A h : ~Saving(h)
        BY <3>1, <3>6 DEF Open, At, Saving
      <4> QED BY <3>2, <3>5, <4>1 DEF Leftover
    <3>7. CASE WriteSome \/ Close \/ CloseShort
      <4>1. UNCHANGED before /\ \A h : Saving(h) <=> h = g
        BY <3>1, <3>7 DEF WriteSome, Close, CloseShort, At, Saving, history
      <4> QED BY <3>2, <3>5, <4>1 DEF Leftover
    <3> QED BY <2>3, <3>6, <3>7
  <2> QED BY <2>1, <2>2, <2>3
<1>4. FilesRestSeen
  BY <1>1, <1>3, SameFilesSeen
<1> QED BY <1>1, <1>2, <1>4 DEF ShipsRest, FilesRestSeen, Table!tableVars

LEMMA StepImplements ==
    ASSUME StoreInvariant, [Next]_vars
    PROVE  [Table!TableNext]_(Table!tableVars)
<1>1. ASSUME NEW h \in Hashes, CreateShip(h) PROVE Table!TableNext
  BY <1>1, CreateImplements DEF Table!TableNext
<1>2. ASSUME NEW h \in Hashes, NEW state \in States, NEW home \in Systems,
             UpdateBridge(h, state, home)
      PROVE  Table!TableNext
  <2>1. Table!Apply(h, state, home) /\ state \in Table!States
    BY <1>2, UpdateImplements DEF States, Table!States, Table!Fresh
  <2> QED BY <2>1 DEF Table!TableNext
<1>3. CASE Rename
  <2>1. PICK g : g = This.hash
    OBVIOUS
  <2>2. g \in Hashes /\ (Table!Save(g) \/ Table!SaveShort(g))
    BY <1>3, <2>1, RenameImplements
  <2> QED BY <2>2 DEF Table!TableNext
<1>4. CASE OpenFails \/ RenameFails
  <2>1. PICK g : g = This.hash
    OBVIOUS
  <2>2. g \in Hashes /\ Table!SaveFails(g)
    BY <1>4, <2>1, SaveFailsImplements
  <2> QED BY <2>2 DEF Table!TableNext
<1>5. CASE Crash
  BY <1>5, CrashImplements DEF Table!TableNext
<1>6. CASE Restart
  BY <1>6, RestartImplements DEF Table!TableNext
<1>7. CASE Tick \/ Begin \/ Skip \/ Open \/ WriteSome \/ Close
           \/ CloseShort \/ End \/ UNCHANGED vars
  BY <1>7, StutterImplements
<1> QED BY <1>1, <1>2, <1>3, <1>4, <1>5, <1>6, <1>7 DEF Next, Checkpoint

(* The files, the clock in whole seconds and the linear search implement the  *)
(* atomic table that Multiverse is built on: wherever the process dies        *)
(* between two system calls, and whichever of them fails, the next run finds  *)
(* for each ship what ShipTable says, an error nobody saw included            *)
(* (save_bridge_info, restore_data).                                          *)
THEOREM StoreImplementsTable == Spec => ImplementsTable
<1>1. Init => Table!TableInit
  BY InitImplements
<1>2. StoreInvariant /\ [Next]_vars => [Table!TableNext]_(Table!tableVars)
  BY StepImplements
<1> QED BY <1>1, <1>2, StoreInvariantHolds, PTL DEF Spec, ImplementsTable, Table!TableSpec

-----------------------------------------------------------------------------
(* While the process runs it knows every ship that has a .data file, and has  *)
(* not saved it since but for updates later than that file: last_save_time is *)
(* what the file says, or what an attempt that failed would have said.        *)
KnownSince(h) ==
    data[h] # NoFile => /\ h \in Known
                        /\ data[h].time <= table[Lookup(h)].last_save_time
SavedIsKnown == running => \A h \in Hashes : KnownSince(h)

MovesOnInv == StoreInvariant /\ SavedIsKnown

(* Steps that leave the .data files alone, and last_save_time or move it on.  *)
LEMMA KnownSinceRest ==
    ASSUME StoreInvariant, SavedIsKnown, running, UNCHANGED data, SameShips, table' \in Seq(Ship),
           \A i \in DOMAIN table : table[i].last_save_time <= table'[i].last_save_time
    PROVE  SavedIsKnown'
<1>1. ASSUME NEW h \in Hashes, data[h] # NoFile
      PROVE  h \in Known' /\ data[h].time <= table'[Lookup(h)'].last_save_time
  <2>1. h \in Known /\ data[h].time <= table[Lookup(h)].last_save_time
    BY <1>1 DEF SavedIsKnown, KnownSince
  <2>2. h \in Known' /\ Lookup(h)' = Lookup(h)
    BY <2>1, SameSearch
  <2>3. Lookup(h) \in DOMAIN table
    BY <2>1, LookupFinds DEF IsFirst, StoreInvariant
  <2>4. /\ data[h].time \in Nat
        /\ table[Lookup(h)].last_save_time \in Nat
        /\ table'[Lookup(h)].last_save_time \in Nat
    <3>1. data[h] \in Contents
      BY <1>1 DEF StoreInvariant, StoreTypeOK
    <3>2. table'[Lookup(h)] \in Ship
      BY <2>3 DEF SameShips
    <3> QED BY <2>3, <3>1, <3>2, EntryTypes, StoreConstants DEF Contents, Ship, StoreInvariant
  <2>5. table[Lookup(h)].last_save_time <= table'[Lookup(h)].last_save_time
    BY <2>3
  <2> QED BY <2>1, <2>2, <2>4, <2>5
<1> QED BY <1>1 DEF SavedIsKnown, KnownSince

(* Stamping an entry never sets its last_save_time back.                      *)
LEMMA StampsMoveOn ==
    ASSUME StoreInvariant, OpenFails \/ Rename \/ RenameFails
    PROVE  /\ SameShips /\ table' \in Seq(Ship)
           /\ \A i \in DOMAIN table : table[i].last_save_time <= table'[i].last_save_time
<1>1. Stamped(saver.i) /\ saver.i \in DOMAIN table /\ Dirty(This)
  BY NextEntryFacts
<1>2. ASSUME NEW i \in DOMAIN table PROVE table[i].last_save_time <= table'[i].last_save_time
  <2>1. table[i].last_save_time \in Nat /\ table[i].last_update_time \in Nat
    BY EntryTypes DEF StoreInvariant
  <2>2. CASE i = saver.i
    BY <1>1, <2>1, <2>2 DEF Stamped, Dirty, This
  <2>3. CASE i # saver.i
    BY <1>1, <2>1, <2>3 DEF Stamped
  <2> QED BY <2>2, <2>3
<1> QED BY <1>1, <1>2 DEF Stamped

(* What Rename puts under the name .data is a part of this entry, whole if    *)
(* nothing went wrong, and later than what it replaces.                       *)
LEMMA RenamePutsNewer ==
    ASSUME StoreInvariant, SavedIsKnown, Rename, NEW g, g = This.hash
    PROVE  /\ g \in Hashes /\ g \in Known
           /\ data' = [data EXCEPT ![g] = update[g]]
           /\ update[g] # NoFile
           /\ update[g].whole <=> ~short
           /\ update[g].time \in {0, This.last_update_time}
           /\ update[g] # EmptyFile => Newer(update[g], data[g])
<1>1. saver.i \in DOMAIN table /\ running /\ Dirty(This)
  BY NextEntryFacts
<1>2. This \in Ship /\ g \in Hashes /\ g \in Known
  BY <1>1, ThisSeen
<1>3. update[g] \in (IF short THEN {EmptyFile, TornFile(This)} ELSE {WholeFile(This)})
  BY DEF Rename, At, StoreInvariant, WritesThisEntry
<1>4. saver.i = Lookup(g)
  BY <1>1, DirtyIsFirst DEF StoreInvariant, This
<1>5. update[g] # NoFile /\ update[g].time \in {0, This.last_update_time}
  BY <1>2, <1>3, ScrapTypes DEF Scraps
<1>6. /\ WholeFile(This).whole = TRUE /\ WholeFile(This).time = This.last_update_time
      /\ TornFile(This).whole = FALSE /\ TornFile(This).time = This.last_update_time
      /\ EmptyFile.whole = FALSE
  BY DEF WholeFile, TornFile, EmptyFile
<1>7. /\ update[g].whole <=> ~short
      /\ update[g] # EmptyFile => update[g].time = This.last_update_time
  <2>1. CASE short
    BY <1>3, <1>6, <2>1
  <2>2. CASE ~short
    BY <1>3, <1>6, <2>2
  <2> QED BY <2>1, <2>2
<1>8. ASSUME data[g] # NoFile PROVE This.last_update_time > data[g].time
  <2>1. data[g].time <= This.last_save_time
    BY <1>1, <1>2, <1>4, <1>8 DEF SavedIsKnown, KnownSince, This
  <2>2. data[g].time \in Nat
    <3>1. data[g] \in Contents
      BY <1>2, <1>8 DEF StoreInvariant, StoreTypeOK
    <3> QED BY <3>1, StoreConstants DEF Contents
  <2>3. /\ This.last_update_time \in Nat /\ This.last_save_time \in Nat
        /\ This.last_update_time > This.last_save_time
    BY <1>1, <1>2, StoreConstants DEF Ship, Dirty
  <2> QED BY <2>1, <2>2, <2>3
<1>9. data' = [data EXCEPT ![g] = update[g]]
  BY DEF Rename
<1> QED BY <1>2, <1>5, <1>7, <1>8, <1>9 DEF Newer

LEMMA SavedIsKnownNext ==
    ASSUME StoreInvariant, SavedIsKnown, [Next]_vars
    PROVE  SavedIsKnown'
<1>1. ASSUME running, UNCHANGED <<data, table>> PROVE SavedIsKnown'
  <2>1. \A i \in DOMAIN table : table[i].last_save_time <= table'[i].last_save_time
    BY <1>1, EntryTypes DEF StoreInvariant
  <2> QED BY <1>1, <2>1, KnownSinceRest DEF SameShips, StoreInvariant, StoreTypeOK
<1>2. ASSUME NEW h \in Hashes, CreateShip(h) PROVE SavedIsKnown'
  <2>1. Grown(h) /\ UNCHANGED data /\ running /\ h \notin Known
    BY <1>2, CreateGrows DEF CreateShip, MutexFree, disk, StoreInvariant
  <2>2. ASSUME NEW g \in Hashes, data[g] # NoFile
        PROVE  g \in Known' /\ data[g].time <= table'[Lookup(g)'].last_save_time
    <3>1. g \in Known /\ data[g].time <= table[Lookup(g)].last_save_time
      BY <2>1, <2>2 DEF SavedIsKnown, KnownSince
    <3>2. Lookup(g) \in DOMAIN table
      BY <3>1, LookupFinds DEF IsFirst, StoreInvariant
    <3> QED BY <2>1, <3>1, <3>2 DEF Grown
  <2> QED BY <2>1, <2>2 DEF SavedIsKnown, KnownSince
<1>3. ASSUME NEW h \in Hashes, NEW state \in States, NEW home \in Systems,
             UpdateBridge(h, state, home)
      PROVE  SavedIsKnown'
  <2>1. Updated(Lookup(h), state, home) /\ UNCHANGED data /\ running
    BY <1>3, UpdateUpdates DEF UpdateBridge, MutexFree, disk, StoreInvariant
  <2>2. \A i \in DOMAIN table : table[i].last_save_time <= table'[i].last_save_time
    BY <2>1, EntryTypes DEF Updated, StoreInvariant
  <2> QED BY <2>1, <2>2, KnownSinceRest DEF Updated
<1>4. CASE OpenFails \/ RenameFails
  <2>1. running /\ UNCHANGED data
    BY <1>4, NextEntryFacts DEF OpenFails, RenameFails, disk
  <2> QED BY <1>4, <2>1, StampsMoveOn, KnownSinceRest
<1>5. CASE Rename
  <2>1. PICK g : g = This.hash
    OBVIOUS
  <2>2. /\ g \in Hashes
        /\ data' = [data EXCEPT ![g] = update[g]]
        /\ update[g].time \in {0, This.last_update_time}
    BY <1>5, <2>1, RenamePutsNewer
  <2>3. /\ saver.i \in DOMAIN table /\ running /\ Dirty(This)
        /\ Stamped(saver.i)
    BY <1>5, NextEntryFacts
  <2>4. g \in Known /\ Lookup(g) = saver.i
    BY <2>1, <2>3, DirtyIsFirst DEF StoreInvariant, This
  <2>5. Known' = Known /\ \A h : Lookup(h)' = Lookup(h)
    BY <2>3, SameSearch DEF Stamped
  <2>6. ASSUME NEW h \in Hashes, data'[h] # NoFile
        PROVE  h \in Known' /\ data'[h].time <= table'[Lookup(h)'].last_save_time
    <3>1. CASE h = g
      <4>1. data'[h] = update[g]
        BY <2>2, <3>1 DEF StoreInvariant, StoreTypeOK
      <4>2. data'[h].time \in {0, This.last_update_time}
        BY <4>1, <2>2
      <4>3. table'[Lookup(h)'].last_save_time = This.last_update_time
        BY <2>3, <2>4, <2>5, <3>1 DEF Stamped, This
      <4>4. This.last_update_time \in Nat
        BY <2>3, EntryTypes DEF StoreInvariant, This
      <4> QED BY <2>4, <2>5, <3>1, <4>2, <4>3, <4>4
    <3>2. CASE h # g
      <4>1. data'[h] = data[h]
        BY <2>2, <3>2
      <4>2. h \in Known /\ data[h].time <= table[Lookup(h)].last_save_time
        BY <2>3, <2>6, <4>1 DEF SavedIsKnown, KnownSince
      <4>3. IsFirst(Lookup(h), h) /\ IsFirst(saver.i, g)
        BY <2>4, <4>2, LookupFinds DEF StoreInvariant
      <4>4. Lookup(h) \in DOMAIN table /\ Lookup(h) # saver.i
        BY <3>2, <4>3 DEF IsFirst
      <4>5. table'[Lookup(h)] = table[Lookup(h)]
        BY <2>3, <4>4 DEF Stamped
      <4> QED BY <2>5, <4>1, <4>2, <4>5
    <3> QED BY <3>1, <3>2
  <2> QED BY <2>6 DEF SavedIsKnown, KnownSince
<1>6. CASE Checkpoint
  <2>1. CASE Begin \/ Skip \/ Open \/ WriteSome \/ Close \/ CloseShort \/ End
    <3>1. running /\ UNCHANGED <<data, table>>
      BY <2>1 DEF Begin, Skip, Open, WriteSome, Close, CloseShort, End, MutexFree, At, memory,
                  disk
    <3> QED BY <1>1, <3>1
  <2> QED BY <1>4, <1>5, <1>6, <2>1 DEF Checkpoint
<1>7. CASE Crash
  BY <1>7 DEF Crash, SavedIsKnown
<1>8. CASE Restart
  <2>1. AllRestored /\ UNCHANGED data
    BY <1>8, RestartRestores DEF Restart, disk, StoreInvariant
  <2>2. ASSUME NEW h \in Hashes, data[h] # NoFile
        PROVE  h \in Known' /\ data[h].time <= table'[Lookup(h)'].last_save_time
    <3>1. h \in Known' /\ Stored(h) = data[h] /\ data[h] \in Contents
      BY <2>1, <2>2 DEF AllRestored, SavedSeen, Stored
    <3>2. table'[Lookup(h)'].last_save_time = data[h].time
      <4>1. table'[Lookup(h)'] = FromStored(h)
        BY <2>1, <3>1 DEF AllRestored
      <4>2. FromStored(h).last_save_time = data[h].time
        BY <3>1 DEF FromStored
      <4> QED BY <4>1, <4>2
    <3>3. data[h].time \in Nat
      BY <3>1, StoreConstants DEF Contents
    <3> QED BY <3>1, <3>2, <3>3
  <2> QED BY <2>1, <2>2 DEF SavedIsKnown, KnownSince
<1>9. CASE Tick \/ UNCHANGED vars
  <2>1. UNCHANGED <<running, data, table>>
    BY <1>9 DEF Tick, vars, disk
  <2>2. CASE running
    BY <1>1, <2>1, <2>2
  <2>3. CASE ~running
    BY <2>1, <2>3 DEF SavedIsKnown
  <2> QED BY <2>2, <2>3
<1> QED BY <1>2, <1>3, <1>6, <1>7, <1>8, <1>9 DEF Next

(* What a step of SavesMoveOn may do to the .data file of a ship.             *)
MovesOn(h) ==
    /\ data'[h] # NoFile
    /\ data'[h].whole <=> ~short
    /\ data'[h] # EmptyFile => Newer(data'[h], data[h])

LEMMA SaveMovesOn ==
    ASSUME MovesOnInv, [Next]_vars
    PROVE  \A h \in Hashes : data'[h] # data[h] => MovesOn(h)
<1>1. CASE Rename
  <2>1. PICK g : g = This.hash
    OBVIOUS
  <2>2. /\ g \in Hashes
        /\ data' = [data EXCEPT ![g] = update[g]]
        /\ update[g] # NoFile
        /\ update[g].whole <=> ~short
        /\ update[g] # EmptyFile => Newer(update[g], data[g])
    BY <1>1, <2>1, RenamePutsNewer DEF MovesOnInv
  <2>3. data'[g] = update[g] /\ \A h \in Hashes : h # g => data'[h] = data[h]
    BY <2>2 DEF MovesOnInv, StoreInvariant, StoreTypeOK
  <2> QED BY <2>2, <2>3 DEF MovesOn
<1>2. CASE ~Rename
  <2>1. UNCHANGED data
    BY <1>2 DEF Next, Checkpoint, Begin, Skip, OpenFails, Open, WriteSome, Close, CloseShort,
                RenameFails, End, CreateShip, UpdateBridge, Tick, Crash, Restart, vars, memory, disk
  <2> QED BY <2>1
<1> QED BY <1>1, <1>2

(* A ship's .data file is never removed, however often the process dies and   *)
(* whatever fails, and is replaced by nothing but a later update of the ship, *)
(* a whole one unless an error nobody saw cut it short.  It takes the         *)
(* invariant of the store, and that a running multiverse knows every ship     *)
(* with such a file, none of whose entries has been saved since but by        *)
(* attempts that failed (checkpoint_data, restore_data).                      *)
THEOREM SavesOnlyMoveOn == Spec => SavesMoveOn
<1>1. Init => SavedIsKnown
  BY DEF Init, SavedIsKnown, KnownSince
<1>2. MovesOnInv /\ [Next]_vars => MovesOnInv'
  BY StoreInvariantStep, SavedIsKnownNext DEF MovesOnInv
<1>3. MovesOnInv /\ [Next]_vars
         => [\A h \in Hashes : data'[h] # data[h] =>
                /\ data'[h] # NoFile
                /\ data'[h].whole <=> ~short
                /\ data'[h] # EmptyFile => Newer(data'[h], data[h])]_data
  BY SaveMovesOn DEF MovesOn
<1>4. Init => MovesOnInv
  BY <1>1, StoreInvariantInit DEF MovesOnInv
<1> QED BY <1>2, <1>3, <1>4, PTL DEF Spec, SavesMoveOn
=============================================================================
