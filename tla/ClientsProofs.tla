---------------------------- MODULE ClientsProofs ----------------------------
(* Proofs about Clients, for any finite set of connections, any ships, any    *)
(* number of entries, and any number of threads per connection.               *)
EXTENDS Clients, FiniteSetTheorems, SequenceTheorems, Numbers

(* A thread that has yet to register has an entry in use, and nothing in use  *)
(* lies beyond nclients: an entry that is taken for a new client has neither  *)
(* a user nor one to come.                                                    *)
NoneWaitsOnFree ==
    ~reaped =>
        /\ \A t \in Threads : pc[t] = "born" => refcount[Slot(t)] > 0
        /\ \A i \in InUse : i <= nclients

IInv ==
    /\ ClientsTypeOK
    /\ NoneWaitsOnFree
    /\ RefcountIsUsers
    /\ CrewsAreRight
    /\ AbortsOnlyAfterEarlyReaping

-----------------------------------------------------------------------------
(* The first entry that fits.                                                 *)
LEMMA SmallestOf ==
  ASSUME NEW S, S \subseteq Nat, S # {}
  PROVE  Smallest(S) \in S /\ \A y \in S : Smallest(S) <= y
BY LeastOf DEF Smallest

(* The entry taken for a new client exists and is free.                       *)
LEMMA FreeSlotFits ==
  ASSUME ClientsTypeOK, nclients < MaxClients
  PROVE  /\ FreeSlot \in Slots
         /\ FreeSlot <= nclients + 1
         /\ NoneWaitsOnFree /\ ~reaped => refcount[FreeSlot] = 0
<1>. DEFINE S == {i \in 1 .. nclients : refcount[i] = 0} \cup {nclients + 1}
<1>1. S \subseteq Nat /\ S # {} /\ nclients \in Nat /\ MaxClients \in Nat
  BY ClientsAssumption DEF ClientsTypeOK
<1>2. FreeSlot \in S
  BY <1>1, SmallestOf DEF FreeSlot
<1>3. S \subseteq Slots /\ S \subseteq 1 .. nclients + 1
  BY <1>1 DEF Slots
<1>4. ASSUME NoneWaitsOnFree, ~reaped PROVE refcount[nclients + 1] = 0
  <2>1. nclients + 1 \in Slots /\ ~(nclients + 1 <= nclients)
    BY <1>1 DEF Slots
  <2>2. refcount[nclients + 1] \in Nat
    BY <2>1 DEF ClientsTypeOK
  <2>3. ~(refcount[nclients + 1] > 0)
    BY <1>4, <2>1 DEF NoneWaitsOnFree, InUse
  <2>. QED  BY <2>2, <2>3
<1>. QED  BY <1>1, <1>2, <1>3, <1>4

(* After entry i is freed, the entries beyond nclients are free.              *)
LEMMA ShrunkFits ==
  ASSUME ClientsTypeOK, NEW i \in Slots
  PROVE  /\ Shrunk(i) \in 0 .. nclients
         /\ \A j \in Shrunk(i) + 1 .. nclients : j = i \/ refcount[j] = 0
<1>. DEFINE Free(n) == \A j \in n + 1 .. nclients : j = i \/ refcount[j] = 0
            S == {n \in 0 .. nclients : Free(n)}
            m == Smallest(S)
<1>1. nclients \in Nat /\ nclients \in S /\ S \subseteq Nat
  BY DEF ClientsTypeOK
<1>2. m \in S /\ \A y \in S : m <= y
  <2>. HIDE DEF S
  <2>. QED  BY <1>1, SmallestOf
<1>3. m > 0 => m # i /\ refcount[m] > 0
  <2>1. SUFFICES ASSUME m > 0, m = i \/ ~(refcount[m] > 0) PROVE FALSE
    OBVIOUS
  <2>. HIDE DEF m
  <2>2. m \in 0 .. nclients /\ Free(m)
    BY <1>2
  <2>3. m \in Slots /\ refcount[m] \in Nat
    <3>1. nclients \in 0 .. MaxClients /\ MaxClients \in Nat
      BY ClientsAssumption DEF ClientsTypeOK
    <3>2. m \in Slots
      BY <2>1, <2>2, <3>1 DEF Slots
    <3>. QED  BY <3>2 DEF ClientsTypeOK
  <2>4. m - 1 \in 0 .. nclients /\ \A j \in m - 1 + 1 .. nclients : j = m \/ j \in m + 1 .. nclients
    BY <1>1, <2>1, <2>2
  <2>5. Free(m - 1)
    BY <2>1, <2>2, <2>3, <2>4
  <2>6. m - 1 \in S
    BY <2>4, <2>5
  <2>. QED  BY <1>1, <1>2, <2>2, <2>6
<1>4. Shrunk(i) \in 0 .. nclients /\ Free(Shrunk(i))
  <2>1. CASE i = nclients
    BY <1>2, <1>3, <2>1 DEF Shrunk
  <2>2. CASE i # nclients
    BY <1>1, <2>2 DEF Shrunk
  <2>. QED  BY <2>1, <2>2
<1>. QED  BY <1>4

(* Taking one bridge out of the list.                                         *)
LEMMA BridgeRemoved ==
  ASSUME bridgelist \in Seq(BridgeData), NEW b \in 1 .. Len(bridgelist)
  PROVE  /\ RemoveAt(bridgelist, b) \in Seq(BridgeData)
         /\ b = Len(bridgelist) =>
               /\ Len(RemoveAt(bridgelist, b)) = b - 1
               /\ \A a \in 1 .. b - 1 : RemoveAt(bridgelist, b)[a] = bridgelist[a]
<1>. DEFINE front == SubSeq(bridgelist, 1, b - 1)
            back == SubSeq(bridgelist, b + 1, Len(bridgelist))
<1>1. Len(bridgelist) \in Nat /\ b \in Nat /\ \A a \in 1 .. Len(bridgelist) : bridgelist[a] \in BridgeData
  BY LenProperties, ElementOfSeq
<1>2. front \in Seq(BridgeData) /\ Len(front) = b - 1 /\ \A a \in 1 .. b - 1 : front[a] = bridgelist[a]
  <2>1. \A a \in 1 .. b - 1 : bridgelist[a] \in BridgeData
    BY <1>1
  <2>. QED  BY <1>1, <2>1, SubSeqProperties
<1>3. back \in Seq(BridgeData) /\ (b = Len(bridgelist) => Len(back) = 0)
  <2>1. \A a \in b + 1 .. Len(bridgelist) : bridgelist[a] \in BridgeData
    BY <1>1
  <2>. QED  BY <1>1, <2>1, SubSeqProperties
<1>4. RemoveAt(bridgelist, b) = front \o back
  BY DEF RemoveAt
<1>. HIDE DEF front, back
<1>5. /\ front \o back \in Seq(BridgeData)
      /\ Len(front \o back) = Len(front) + Len(back)
      /\ \A a \in 1 .. Len(front) + Len(back) :
            (front \o back)[a] = IF a <= Len(front) THEN front[a] ELSE back[a - Len(front)]
  BY <1>2, <1>3, ConcatProperties
<1>. QED  BY <1>1, <1>2, <1>3, <1>4, <1>5

LEMMA FiniteUsers ==
  ASSUME NEW i \in Slots
  PROVE  IsFiniteSet(Users(i)) /\ Cardinality(Users(i)) \in Nat
<1>1. IsFiniteSet(Threads)
  BY ClientsAssumption, FS_Product DEF Threads
<1>2. Users(i) \in SUBSET Threads
  BY DEF Users
<1>3. IsFiniteSet(Users(i))
  BY <1>1, <1>2, FS_Subset
<1>. QED  BY <1>3, FS_CardinalityType

LEMMA FiniteCrew ==
  ASSUME NEW b
  PROVE  IsFiniteSet(Crew(b)) /\ Cardinality(Crew(b)) \in Nat
<1>1. IsFiniteSet(Slots)
  BY ClientsAssumption, FS_Interval DEF Slots
<1>2. Crew(b) \in SUBSET Slots
  BY DEF Crew, InUse
<1>3. IsFiniteSet(Crew(b))
  BY <1>1, <1>2, FS_Subset
<1>. QED  BY <1>3, FS_CardinalityType

LEMMA ThreadsOf ==
  ASSUME NEW t \in Threads, ClientsTypeOK
  PROVE  t[1] \in Connections /\ Slot(t) \in Slots
  BY DEF Threads, Slot, ClientsTypeOK

-----------------------------------------------------------------------------
(* A new client: what Found and Join have in common.                          *)
LEMMA EnterSafe ==
  ASSUME IInv, NEW c \in Connections, NEW b \in Nat, NEW ship \in Ships,
         CanServe(c), Enter(c, FreeSlot, b, ship), UNCHANGED <<alive, moved, reaped>>,
         bridgelist' \in Seq(BridgeData)
  PROVE  /\ ClientsTypeOK'
         /\ NoneWaitsOnFree'
         /\ RefcountIsUsers'
         /\ AbortsOnlyAfterEarlyReaping'
         /\ FreeSlot \in Slots
         /\ ~reaped => /\ FreeSlot \notin InUse
                       /\ InUse' = InUse \cup {FreeSlot}
                       /\ \A i \in InUse' : i <= nclients'
<1>. DEFINE i == FreeSlot
<1>1. /\ i \in Slots /\ i <= nclients + 1 /\ nclients < MaxClients
      /\ NoneWaitsOnFree /\ ~reaped => refcount[i] = 0
      /\ \A t \in Threads : t[1] = c => pc[t] = "unborn"
  <2>1. \A t \in Threads : t[1] = c => t = <<c, t[2]>> /\ t[2] \in Roles
    BY DEF Threads
  <2>. QED  BY <2>1, FreeSlotFits DEF IInv, CanServe
<1>2. /\ nclients' = IF i > nclients THEN i ELSE nclients
      /\ refcount' = [refcount EXCEPT ![i] = 1]
      /\ socket' = [socket EXCEPT ![i] = c]
      /\ bridge' = [bridge EXCEPT ![i] = b]
      /\ shipid' = [shipid EXCEPT ![i] = ship]
      /\ listener' = [at |-> "wait", slot |-> i]
      /\ pc' = [t \in Threads |-> IF t[1] = c THEN "born" ELSE pc[t]]
      /\ slotOf' = [slotOf EXCEPT ![c] = i]
  BY DEF Enter
<1>3. ClientsTypeOK /\ NoneWaitsOnFree /\ RefcountIsUsers /\ AbortsOnlyAfterEarlyReaping
      /\ listener.at = "accept"
  BY DEF IInv, CanServe
<1>. HIDE DEF i
<1>4. nclients \in Nat /\ MaxClients \in Nat /\ i \in Nat /\ i <= MaxClients
  BY <1>1, <1>3, ClientsAssumption DEF ClientsTypeOK, Slots
<1>5. ClientsTypeOK'
  <2>1. nclients' \in 0 .. MaxClients
    BY <1>1, <1>2, <1>4
  <2>2. pc' \in [Threads -> Places]
    BY <1>2, <1>3 DEF ClientsTypeOK, Places
  <2>3. /\ refcount' \in [Slots -> Nat] /\ socket' \in [Slots -> Connections \cup {Nobody}]
        /\ bridge' \in [Slots -> Nat] /\ shipid' \in [Slots -> Ships \cup {Nobody}]
    BY <1>1, <1>2, <1>3 DEF ClientsTypeOK
  <2>4. /\ listener' \in [at : {"accept", "wait", "release"}, slot : Slots]
        /\ slotOf' \in [Connections -> Slots]
    BY <1>1, <1>2, <1>3 DEF ClientsTypeOK
  <2>. QED  BY <1>3, <2>1, <2>2, <2>3, <2>4 DEF ClientsTypeOK
<1>6. \A t \in Threads : Slot(t)' = IF t[1] = c THEN i ELSE Slot(t)
  BY <1>2, <1>3, ThreadsOf DEF Slot, ClientsTypeOK
<1>7. ~reaped => /\ i \notin InUse
                /\ InUse' = InUse \cup {i}
                /\ \A j \in InUse' : j <= nclients'
  <2>. SUFFICES ASSUME ~reaped PROVE i \notin InUse /\ InUse' = InUse \cup {i} /\ \A j \in InUse' : j <= nclients'
    OBVIOUS
  <2>1. i \notin InUse
    BY <1>1, <1>3 DEF InUse
  <2>2. InUse' = InUse \cup {i}
    BY <1>1, <1>2, <1>3 DEF InUse, ClientsTypeOK
  <2>3. ASSUME NEW j \in InUse' PROVE j <= nclients'
    <3>1. CASE j = i
      BY <1>2, <1>4, <3>1
    <3>2. CASE j # i
      <4>1. j \in InUse /\ j \in Nat
        BY <2>2, <3>2 DEF InUse, Slots
      <4>2. j <= nclients
        BY <1>3, <4>1 DEF NoneWaitsOnFree
      <4>. QED  BY <1>2, <1>4, <4>1, <4>2
    <3>. QED  BY <3>1, <3>2
  <2>. QED  BY <2>1, <2>2, <2>3
<1>8. NoneWaitsOnFree'
  <2>1. ASSUME ~reaped, NEW t \in Threads, pc'[t] = "born" PROVE refcount'[Slot(t)'] > 0
    <3>1. CASE t[1] = c
      BY <1>1, <1>2, <1>3, <1>6, <3>1 DEF ClientsTypeOK
    <3>2. CASE t[1] # c
      <4>1. pc[t] = "born" /\ Slot(t)' = Slot(t) /\ Slot(t) \in Slots
        BY <1>2, <1>3, <1>6, <2>1, <3>2, ThreadsOf
      <4>2. refcount[Slot(t)] > 0
        BY <1>3, <2>1, <4>1 DEF NoneWaitsOnFree
      <4>. QED  BY <1>2, <1>3, <4>1, <4>2 DEF ClientsTypeOK
    <3>. QED  BY <3>1, <3>2
  <2>. QED  BY <1>7, <2>1 DEF NoneWaitsOnFree
<1>9. RefcountIsUsers'
  <2>1. ASSUME ~reaped, NEW j \in Slots
        PROVE  refcount'[j] = Cardinality(Users(j)') + ListenerHolds(j)'
    <3>1. Users(j)' = Users(j)
      <4>1. \A t \in Threads : pc'[t] = "loop" /\ Slot(t)' = j <=> pc[t] = "loop" /\ Slot(t) = j
        BY <1>1, <1>2, <1>6
      <4>. QED  BY <4>1 DEF Users
    <3>2. refcount[j] = Cardinality(Users(j)) /\ Cardinality(Users(j)) \in Nat
      BY <1>3, <2>1, FiniteUsers DEF RefcountIsUsers, ListenerHolds
    <3>3. ListenerHolds(j)' = IF j = i THEN 1 ELSE 0
      BY <1>2 DEF ListenerHolds
    <3>4. refcount'[j] = IF j = i THEN 1 ELSE refcount[j]
      BY <1>1, <1>2, <1>3 DEF ClientsTypeOK
    <3>5. j = i => refcount[j] = 0
      BY <1>1, <1>3, <2>1
    <3>. QED  BY <3>1, <3>2, <3>3, <3>4, <3>5
  <2>. QED  BY <2>1 DEF RefcountIsUsers
<1>10. AbortsOnlyAfterEarlyReaping'
  BY <1>3 DEF AbortsOnlyAfterEarlyReaping
<1>. QED  BY <1>1, <1>5, <1>7, <1>8, <1>9, <1>10 DEF i

LEMMA FoundSafe ==
  ASSUME IInv, NEW c \in Connections, NEW ship \in Ships, Found(c, ship)
  PROVE  IInv'
<1>. DEFINE i == FreeSlot
            new == [ship |-> ship, nclients |-> 1]
<1>0. PICK n : n = Len(bridgelist)
  OBVIOUS
<1>1. /\ CanServe(c) /\ Aboard(ship) = {}
      /\ Enter(c, FreeSlot, n + 1, ship)
      /\ bridgelist' = Append(bridgelist, new)
      /\ UNCHANGED <<alive, moved, reaped>>
  BY <1>0 DEF Found
<1>2. /\ bridgelist \in Seq(BridgeData) /\ n \in Nat /\ n + 1 \in Nat
      /\ DOMAIN bridgelist = 1 .. n
  BY <1>0, LenProperties DEF IInv, ClientsTypeOK
<1>3. /\ bridgelist' \in Seq(BridgeData)
      /\ DOMAIN bridgelist' = 1 .. n + 1
      /\ bridgelist'[n + 1] = new
      /\ \A a \in 1 .. n : bridgelist'[a] = bridgelist[a]
  <2>1. new \in BridgeData
    BY DEF BridgeData
  <2>. QED  BY <1>0, <1>1, <1>2, <2>1
<1>4. /\ ClientsTypeOK' /\ NoneWaitsOnFree' /\ RefcountIsUsers' /\ AbortsOnlyAfterEarlyReaping'
      /\ i \in Slots
      /\ ~reaped => i \notin InUse /\ InUse' = InUse \cup {i} /\ \A j \in InUse' : j <= nclients'
  BY <1>1, <1>2, <1>3, EnterSafe
<1>5. /\ bridge' = [bridge EXCEPT ![i] = n + 1]
      /\ shipid' = [shipid EXCEPT ![i] = ship]
      /\ bridge \in [Slots -> Nat]
      /\ shipid \in [Slots -> Ships \cup {Nobody}]
  BY <1>1 DEF Enter, IInv, ClientsTypeOK
<1>. HIDE DEF i
<1>6. ASSUME ~moved', ~reaped' PROVE
         /\ \A j \in InUse' : OnOwnBridge(j)' /\ j <= nclients'
         /\ \A b \in DOMAIN bridgelist' : bridgelist'[b].nclients = Cardinality(Crew(b)') /\ Crew(b)' # {}
         /\ \A a, b \in DOMAIN bridgelist' : bridgelist'[a].ship = bridgelist'[b].ship => a = b
  <2>1. /\ \A j \in InUse : OnOwnBridge(j) /\ j <= nclients
        /\ \A b \in DOMAIN bridgelist : bridgelist[b].nclients = Cardinality(Crew(b)) /\ Crew(b) # {}
        /\ \A a, b \in DOMAIN bridgelist : bridgelist[a].ship = bridgelist[b].ship => a = b
    BY <1>1, <1>6 DEF IInv, CrewsAreRight
  <2>2. i \notin InUse /\ InUse' = InUse \cup {i} /\ \A j \in InUse' : j <= nclients'
    BY <1>1, <1>4, <1>6
  <2>3. ASSUME NEW j \in InUse' PROVE OnOwnBridge(j)'
    <3>1. CASE j = i
      <4>1. bridge'[j] = n + 1 /\ shipid'[j] = ship
        BY <1>4, <1>5, <3>1
      <4>. QED  BY <1>2, <1>3, <4>1 DEF OnOwnBridge
    <3>2. CASE j # i
      <4>1. j \in InUse /\ j \in Slots
        BY <2>2, <3>2 DEF InUse
      <4>2. bridge'[j] = bridge[j] /\ shipid'[j] = shipid[j] /\ bridge[j] \in 1 .. n
        BY <1>2, <1>4, <1>5, <2>1, <3>2, <4>1 DEF OnOwnBridge
      <4>. QED  BY <1>2, <1>3, <2>1, <4>1, <4>2 DEF OnOwnBridge
    <3>. QED  BY <3>1, <3>2
  <2>4. ASSUME NEW b \in 1 .. n PROVE Crew(b)' = Crew(b)
    <3>1. b # n + 1
      BY <1>2
    <3>2. \A j \in InUse : bridge'[j] = bridge[j]
      BY <1>4, <1>5, <2>2 DEF InUse
    <3>3. bridge'[i] # b
      BY <1>4, <1>5, <3>1
    <3>. QED  BY <2>2, <3>2, <3>3 DEF Crew
  <2>5. bridge'[i] = n + 1 /\ \A j \in InUse : bridge'[j] # n + 1
    <3>1. \A j \in InUse : bridge'[j] = bridge[j]
      BY <1>4, <1>5, <2>2 DEF InUse
    <3>2. \A j \in InUse : bridge[j] \in 1 .. n
      BY <1>2, <2>1 DEF OnOwnBridge
    <3>. QED  BY <1>2, <1>4, <1>5, <3>1, <3>2
  <2>6. Cardinality({i}) = 1
    BY FS_Singleton
  <2>7. ASSUME NEW b \in 1 .. n + 1
        PROVE  bridgelist'[b].nclients = Cardinality(Crew(b)') /\ Crew(b)' # {}
    <3>1. CASE b = n + 1
      <4>1. Crew(b)' = {i}
        BY <2>2, <2>5, <3>1 DEF Crew
      <4>2. bridgelist'[b].nclients = 1
        BY <1>3, <3>1
      <4>. QED  BY <2>6, <4>1, <4>2
    <3>2. CASE b \in 1 .. n
      BY <1>2, <1>3, <2>1, <2>4, <3>2
    <3>. QED  BY <1>2, <3>1, <3>2
  <2>8. ASSUME NEW a \in 1 .. n + 1, NEW b \in 1 .. n + 1, bridgelist'[a].ship = bridgelist'[b].ship
        PROVE  a = b
    <3>1. \A k \in 1 .. n : bridgelist[k].ship # ship
      BY <1>1, <1>2 DEF Aboard
    <3>2. \A k \in 1 .. n + 1 : k = n + 1 \/ k \in 1 .. n
      BY <1>2
    <3>. QED  BY <1>2, <1>3, <2>1, <2>8, <3>1, <3>2
  <2>. QED  BY <1>3, <2>2, <2>3, <2>7, <2>8
<1>7. CrewsAreRight'
  BY <1>6 DEF CrewsAreRight
<1>. QED  BY <1>4, <1>7 DEF IInv

LEMMA JoinSafe ==
  ASSUME IInv, NEW c \in Connections, NEW ship \in Ships, Join(c, ship)
  PROVE  IInv'
<1>. DEFINE i == FreeSlot
            d == Smallest(Aboard(ship))
            own == bridgelist[d].ship
<1>1. /\ CanServe(c) /\ Aboard(ship) # {}
      /\ Enter(c, FreeSlot, d, own)
      /\ bridgelist' = [bridgelist EXCEPT ![d].nclients = @ + 1]
      /\ UNCHANGED <<alive, moved, reaped>>
  BY DEF Join
<1>2. /\ bridgelist \in Seq(BridgeData) /\ Len(bridgelist) \in Nat
      /\ DOMAIN bridgelist = 1 .. Len(bridgelist)
  BY LenProperties DEF IInv, ClientsTypeOK
<1>3. d \in DOMAIN bridgelist /\ d \in Nat
  <2>1. Aboard(ship) \subseteq DOMAIN bridgelist /\ Aboard(ship) \subseteq Nat
    BY <1>2 DEF Aboard
  <2>. QED  BY <1>1, <2>1, SmallestOf
<1>. HIDE DEF d
<1>4. bridgelist[d] \in BridgeData /\ own \in Ships
  <2>1. bridgelist[d] \in BridgeData
    BY <1>2, <1>3, ElementOfSeq
  <2>. QED  BY <2>1 DEF BridgeData
<1>5. /\ bridgelist' \in Seq(BridgeData)
      /\ DOMAIN bridgelist' = DOMAIN bridgelist
      /\ \A b \in DOMAIN bridgelist :
            /\ bridgelist'[b].ship = bridgelist[b].ship
            /\ bridgelist'[b].nclients = bridgelist[b].nclients + (IF b = d THEN 1 ELSE 0)
  <2>. DEFINE new == [bridgelist[d] EXCEPT !.nclients = @ + 1]
  <2>1. new \in BridgeData /\ new.ship = bridgelist[d].ship /\ new.nclients = bridgelist[d].nclients + 1
    BY <1>4 DEF BridgeData
  <2>2. bridgelist' = [bridgelist EXCEPT ![d] = new]
    BY <1>1
  <2>3. ASSUME NEW b \in DOMAIN bridgelist PROVE bridgelist[b].nclients \in Int
    <3>1. bridgelist[b] \in BridgeData
      BY <1>2, ElementOfSeq
    <3>. QED  BY <3>1 DEF BridgeData
  <2>. HIDE DEF new
  <2>4. /\ bridgelist' \in Seq(BridgeData) /\ Len(bridgelist') = Len(bridgelist)
        /\ \A b \in 1 .. Len(bridgelist) : bridgelist'[b] = IF b = d THEN new ELSE bridgelist[b]
    BY <1>2, <1>3, <2>1, <2>2, ExceptSeq
  <2>5. DOMAIN bridgelist' = DOMAIN bridgelist
    BY <2>2
  <2>. QED  BY <1>2, <2>1, <2>3, <2>4, <2>5
<1>6. /\ ClientsTypeOK' /\ NoneWaitsOnFree' /\ RefcountIsUsers' /\ AbortsOnlyAfterEarlyReaping'
      /\ i \in Slots
      /\ ~reaped => i \notin InUse /\ InUse' = InUse \cup {i} /\ \A j \in InUse' : j <= nclients'
  BY <1>1, <1>3, <1>4, <1>5, EnterSafe
<1>7. /\ bridge' = [bridge EXCEPT ![i] = d]
      /\ shipid' = [shipid EXCEPT ![i] = own]
      /\ bridge \in [Slots -> Nat]
      /\ shipid \in [Slots -> Ships \cup {Nobody}]
  BY <1>1 DEF Enter, IInv, ClientsTypeOK
<1>. HIDE DEF i
<1>8. ASSUME ~moved', ~reaped' PROVE
         /\ \A j \in InUse' : OnOwnBridge(j)' /\ j <= nclients'
         /\ \A b \in DOMAIN bridgelist' : bridgelist'[b].nclients = Cardinality(Crew(b)') /\ Crew(b)' # {}
         /\ \A a, b \in DOMAIN bridgelist' : bridgelist'[a].ship = bridgelist'[b].ship => a = b
  <2>1. /\ \A j \in InUse : OnOwnBridge(j) /\ j <= nclients
        /\ \A b \in DOMAIN bridgelist : bridgelist[b].nclients = Cardinality(Crew(b)) /\ Crew(b) # {}
        /\ \A a, b \in DOMAIN bridgelist : bridgelist[a].ship = bridgelist[b].ship => a = b
    BY <1>1, <1>8 DEF IInv, CrewsAreRight
  <2>2. i \notin InUse /\ InUse' = InUse \cup {i} /\ \A j \in InUse' : j <= nclients'
    BY <1>1, <1>6, <1>8
  <2>3. \A j \in InUse : bridge'[j] = bridge[j] /\ shipid'[j] = shipid[j]
    BY <1>6, <1>7, <2>2 DEF InUse
  <2>4. bridge'[i] = d /\ shipid'[i] = own
    BY <1>6, <1>7
  <2>5. \A j \in InUse' : OnOwnBridge(j)'
    BY <1>3, <1>5, <2>1, <2>2, <2>3, <2>4 DEF OnOwnBridge
  <2>6. ASSUME NEW b \in DOMAIN bridgelist
        PROVE  bridgelist'[b].nclients = Cardinality(Crew(b)') /\ Crew(b)' # {}
    <3>1. bridgelist[b].nclients = Cardinality(Crew(b)) /\ Crew(b) # {}
          /\ IsFiniteSet(Crew(b)) /\ Cardinality(Crew(b)) \in Nat
      BY <2>1, FiniteCrew
    <3>2. CASE b = d
      <4>1. Crew(b)' = Crew(b) \cup {i} /\ i \notin Crew(b)
        BY <2>2, <2>3, <2>4, <3>2 DEF Crew
      <4>2. Cardinality(Crew(b) \cup {i}) = Cardinality(Crew(b)) + 1
        BY <3>1, <4>1, FS_AddElement
      <4>. QED  BY <1>5, <3>1, <3>2, <4>1, <4>2
    <3>3. CASE b # d
      <4>1. Crew(b)' = Crew(b)
        BY <2>2, <2>3, <2>4, <3>3 DEF Crew
      <4>2. bridgelist'[b].nclients = bridgelist[b].nclients + 0
        BY <1>5, <3>3
      <4>. QED  BY <3>1, <4>1, <4>2
    <3>. QED  BY <3>2, <3>3
  <2>. QED  BY <1>5, <2>1, <2>2, <2>5, <2>6
<1>9. CrewsAreRight'
  BY <1>8 DEF CrewsAreRight
<1>. QED  BY <1>6, <1>9 DEF IInv

LEMMA RefuseSafe ==
  ASSUME IInv, NEW c \in Connections, Refuse(c)
  PROVE  IInv'
<1>. DEFINE i == FreeSlot
<1>1. /\ CanServe(c)
      /\ nclients' = IF i > nclients \/ i # nclients THEN nclients ELSE nclients - 1
      /\ bridge' \in [Slots -> Nat] /\ \A j \in Slots \ {i} : bridge'[j] = bridge[j]
      /\ socket' \in [Slots -> Connections \cup {Nobody}]
      /\ pc' = [t \in Threads |-> IF t[1] = c THEN "done" ELSE pc[t]]
      /\ UNCHANGED <<alive, refcount, shipid, bridgelist, listener, slotOf, moved, reaped>>
  <2>. USE DEF IInv, ClientsTypeOK
  <2>1. CanServe(c) /\ GiveBack(i)
        /\ pc' = [t \in Threads |-> IF t[1] = c THEN "done" ELSE pc[t]]
        /\ UNCHANGED <<alive, refcount, shipid, bridgelist, listener, slotOf, moved, reaped>>
    BY DEF Refuse
  <2>2. ASSUME NEW ship \in Ships, Aboard(ship) # {} PROVE Smallest(Aboard(ship)) \in Nat
    <3>1. Aboard(ship) \subseteq Nat
      BY LenProperties DEF Aboard
    <3>. QED  BY <2>2, <3>1, SmallestOf
  <2>3. bridge' \in [Slots -> Nat] /\ \A j \in Slots \ {i} : bridge'[j] = bridge[j]
    <3>. HIDE DEF i
    <3>1. bridge' = bridge \/ \E n \in Nat : bridge' = [bridge EXCEPT ![i] = n]
      BY <2>2 DEF Refuse, i
    <3>. QED  BY <3>1
  <2>4. socket' \in [Slots -> Connections \cup {Nobody}]
    <3>1. PICK s \in {c, Nobody} : socket' = [socket EXCEPT ![i] = s]
      BY DEF Refuse
    <3>2. socket \in [Slots -> Connections \cup {Nobody}] /\ s \in Connections \cup {Nobody}
      OBVIOUS
    <3>. HIDE DEF i, IInv, ClientsTypeOK
    <3>. QED  BY <3>1, <3>2
  <2>. QED  BY <2>1, <2>3, <2>4 DEF GiveBack
<1>2. i \in Slots /\ (NoneWaitsOnFree /\ ~reaped => refcount[i] = 0)
      /\ nclients \in 0 .. MaxClients /\ MaxClients \in Nat
  BY <1>1, FreeSlotFits, ClientsAssumption DEF CanServe, IInv, ClientsTypeOK
<1>. HIDE DEF i
<1>3. nclients' \in 0 .. MaxClients
  BY <1>1, <1>2 DEF Slots
<1>4. ClientsTypeOK'
  <2>1. pc' \in [Threads -> Places]
    BY <1>1 DEF IInv, ClientsTypeOK, Places
  <2>. QED  BY <1>1, <1>3, <2>1 DEF IInv, ClientsTypeOK
<1>5. \A t \in Threads : Slot(t)' = Slot(t)
  BY <1>1 DEF Slot
<1>6. InUse' = InUse
  BY <1>1 DEF InUse
<1>7. ASSUME ~reaped PROVE i \notin InUse /\ \A j \in InUse : j <= nclients'
  <2>1. i \notin InUse
    BY <1>2, <1>7 DEF InUse, IInv
  <2>2. ASSUME NEW j \in InUse PROVE j <= nclients'
    <3>1. j <= nclients /\ j # i /\ j \in Nat
      BY <1>7, <2>1 DEF IInv, NoneWaitsOnFree, InUse, Slots
    <3>. QED  BY <1>1, <1>2, <3>1
  <2>. QED  BY <2>1, <2>2
<1>8. NoneWaitsOnFree'
  <2>1. \A t \in Threads : pc'[t] = "born" => pc[t] = "born"
    BY <1>1
  <2>. QED  BY <1>1, <1>5, <1>6, <1>7, <2>1 DEF NoneWaitsOnFree, IInv
<1>9. RefcountIsUsers'
  <2>1. ASSUME NEW j \in Slots PROVE Users(j)' = Users(j) /\ ListenerHolds(j)' = ListenerHolds(j)
    <3>1. \A t \in Threads : pc'[t] = "loop" <=> pc[t] = "loop"
      <4>1. \A t \in Threads : t[1] = c => t = <<c, t[2]>> /\ t[2] \in Roles
        BY DEF Threads
      <4>2. \A t \in Threads : t[1] = c => pc[t] = "unborn"
        BY <1>1, <4>1 DEF CanServe
      <4>. QED  BY <1>1, <4>2
    <3>. QED  BY <1>1, <1>5, <3>1 DEF Users, ListenerHolds
  <2>. QED  BY <1>1, <2>1 DEF RefcountIsUsers, IInv
<1>10. CrewsAreRight'
  <2>1. ASSUME ~moved, ~reaped PROVE
          /\ \A j \in InUse' : OnOwnBridge(j)' /\ j <= nclients'
          /\ \A b : Crew(b)' = Crew(b)
    <3>1. \A j \in InUse : bridge'[j] = bridge[j]
      BY <1>1, <1>7, <2>1 DEF InUse
    <3>2. \A j \in InUse : OnOwnBridge(j)' = OnOwnBridge(j)
      BY <1>1, <3>1 DEF OnOwnBridge
    <3>3. \A b : Crew(b)' = Crew(b)
      BY <1>6, <3>1 DEF Crew
    <3>. QED  BY <1>6, <1>7, <2>1, <3>2, <3>3 DEF IInv, CrewsAreRight
  <2>. QED  BY <1>1, <2>1 DEF IInv, CrewsAreRight
<1>11. AbortsOnlyAfterEarlyReaping'
  BY <1>1 DEF IInv, AbortsOnlyAfterEarlyReaping
<1>. QED  BY <1>4, <1>8, <1>9, <1>10, <1>11 DEF IInv

(* Steps that change neither an entry nor a bridge.                           *)
LEMMA TablesCarryOver ==
  ASSUME IInv, InUse' = InUse,
         UNCHANGED <<nclients, bridge, shipid, bridgelist, moved, reaped>>
  PROVE  CrewsAreRight'
<1>1. \A j \in InUse : OnOwnBridge(j)' = OnOwnBridge(j)
  BY DEF OnOwnBridge
<1>2. \A b : Crew(b)' = Crew(b)
  BY DEF Crew
<1>. QED  BY <1>1, <1>2 DEF IInv, CrewsAreRight

LEMMA SeeThreadSafe ==
  ASSUME IInv, SeeThread
  PROVE  IInv'
<1>1. ClientsTypeOK'
  BY DEF IInv, SeeThread, ClientsTypeOK
<1>2. NoneWaitsOnFree' /\ AbortsOnlyAfterEarlyReaping' /\ InUse' = InUse
  BY DEF IInv, SeeThread, NoneWaitsOnFree, AbortsOnlyAfterEarlyReaping, InUse, Slot
<1>3. RefcountIsUsers'
  <2>1. \A j \in Slots : Users(j)' = Users(j) /\ ListenerHolds(j)' = ListenerHolds(j)
    BY DEF SeeThread, Users, ListenerHolds, Slot, IInv, ClientsTypeOK
  <2>. QED  BY <2>1 DEF IInv, SeeThread, RefcountIsUsers
<1>4. CrewsAreRight'
  BY <1>2, TablesCarryOver DEF SeeThread
<1>. QED  BY <1>1, <1>2, <1>3, <1>4 DEF IInv

LEMMA DisconnectSafe ==
  ASSUME IInv, NEW i \in Slots, Disconnect(i)
  PROVE  IInv'
<1>1. ClientsTypeOK'
  BY DEF IInv, Disconnect, ClientsTypeOK
<1>2. NoneWaitsOnFree' /\ AbortsOnlyAfterEarlyReaping' /\ InUse' = InUse
  BY DEF IInv, Disconnect, NoneWaitsOnFree, AbortsOnlyAfterEarlyReaping, InUse, Slot
<1>3. RefcountIsUsers'
  <2>1. \A j \in Slots : Users(j)' = Users(j) /\ ListenerHolds(j)' = ListenerHolds(j)
    BY DEF Disconnect, Users, ListenerHolds, Slot
  <2>. QED  BY <2>1 DEF IInv, Disconnect, RefcountIsUsers
<1>4. CrewsAreRight'
  BY <1>2, TablesCarryOver DEF Disconnect
<1>. QED  BY <1>1, <1>2, <1>3, <1>4 DEF IInv

LEMMA RegisterSafe ==
  ASSUME IInv, NEW t \in Threads, Register(t)
  PROVE  IInv'
<1>. DEFINE k == Slot(t)
<1>1. k \in Slots
  BY ThreadsOf DEF IInv
<1>2. /\ pc[t] = "born" /\ pc' = [pc EXCEPT ![t] = "loop"]
      /\ refcount' = [refcount EXCEPT ![k] = @ + 1]
      /\ UNCHANGED <<alive, nclients, socket, bridge, shipid, bridgelist, listener,
                     slotOf, moved, reaped>>
  BY DEF Register
<1>3. refcount \in [Slots -> Nat] /\ pc \in [Threads -> Places]
  BY DEF IInv, ClientsTypeOK
<1>. HIDE DEF k
<1>4. ClientsTypeOK'
  <2>1. refcount' \in [Slots -> Nat] /\ pc' \in [Threads -> Places]
    BY <1>1, <1>2, <1>3 DEF Places
  <2>. QED  BY <1>2, <2>1 DEF IInv, ClientsTypeOK
<1>5. \A u \in Threads : Slot(u)' = Slot(u)
  BY <1>2 DEF Slot
<1>6. ~reaped => InUse' = InUse /\ \A j \in InUse' : j <= nclients'
  <2>1. ~reaped => refcount[k] > 0
    BY <1>2 DEF IInv, NoneWaitsOnFree, k
  <2>2. ~reaped => InUse' = InUse
    BY <1>1, <1>2, <1>3, <2>1 DEF InUse
  <2>. QED  BY <1>2, <2>2 DEF IInv, NoneWaitsOnFree
<1>7. NoneWaitsOnFree'
  <2>1. ASSUME ~reaped, NEW u \in Threads, pc'[u] = "born" PROVE refcount'[Slot(u)'] > 0
    <3>1. pc[u] = "born" /\ Slot(u) \in Slots
      BY <1>2, <1>3, <2>1, ThreadsOf DEF IInv
    <3>2. refcount[Slot(u)] > 0
      BY <2>1, <3>1 DEF IInv, NoneWaitsOnFree
    <3>. QED  BY <1>1, <1>2, <1>3, <1>5, <3>1, <3>2
  <2>. QED  BY <1>2, <1>6, <2>1 DEF NoneWaitsOnFree
<1>8. RefcountIsUsers'
  <2>1. ASSUME ~reaped, NEW j \in Slots
        PROVE  refcount'[j] = Cardinality(Users(j)') + ListenerHolds(j)'
    <3>1. /\ refcount[j] = Cardinality(Users(j)) + ListenerHolds(j)
          /\ IsFiniteSet(Users(j)) /\ Cardinality(Users(j)) \in Nat
          /\ ListenerHolds(j) \in Nat /\ ListenerHolds(j)' = ListenerHolds(j)
      BY <1>2, <2>1, FiniteUsers DEF IInv, RefcountIsUsers, ListenerHolds
    <3>2. CASE j = k
      <4>1. Users(j)' = Users(j) \cup {t} /\ t \notin Users(j)
        BY <1>2, <1>3, <1>5, <3>2 DEF Users, k
      <4>2. Cardinality(Users(j) \cup {t}) = Cardinality(Users(j)) + 1
        BY <3>1, <4>1, FS_AddElement
      <4>. QED  BY <1>1, <1>2, <1>3, <3>1, <3>2, <4>1, <4>2
    <3>3. CASE j # k
      <4>1. Users(j)' = Users(j)
        BY <1>2, <1>3, <1>5, <3>3 DEF Users, k
      <4>. QED  BY <1>2, <1>3, <3>1, <3>3, <4>1
    <3>. QED  BY <3>2, <3>3
  <2>. QED  BY <1>2, <2>1 DEF RefcountIsUsers
<1>9. CrewsAreRight'
  <2>1. CASE reaped
    BY <1>2, <2>1 DEF CrewsAreRight
  <2>2. CASE ~reaped
    BY <1>2, <1>6, <2>2, TablesCarryOver
  <2>. QED  BY <2>1, <2>2
<1>10. AbortsOnlyAfterEarlyReaping'
  BY <1>2 DEF IInv, AbortsOnlyAfterEarlyReaping
<1>. QED  BY <1>4, <1>7, <1>8, <1>9, <1>10 DEF IInv

-----------------------------------------------------------------------------
(* Giving a reference back.                                                   *)

LEMMA LeaveTyped ==
  ASSUME ClientsTypeOK, NEW i \in Slots, NEW d \in DOMAIN bridgelist, LeaveBridge(i, d)
  PROVE  bridgelist' \in Seq(BridgeData) /\ moved' \in BOOLEAN
<1>1. d \in 1 .. Len(bridgelist) /\ bridgelist \in Seq(BridgeData) /\ bridgelist[d] \in BridgeData
      /\ moved \in BOOLEAN
  BY LenProperties, ElementOfSeq DEF ClientsTypeOK
<1>2. CASE bridgelist' = RemoveAt(bridgelist, d) /\ moved' = (moved \/ d < Len(bridgelist))
  BY <1>1, <1>2, BridgeRemoved
<1>3. CASE bridgelist' = [bridgelist EXCEPT ![d].nclients = bridgelist[d].nclients - 1] /\ UNCHANGED moved
  <2>. DEFINE new == [bridgelist[d] EXCEPT !.nclients = bridgelist[d].nclients - 1]
  <2>1. new \in BridgeData
    BY <1>1 DEF BridgeData
  <2>2. bridgelist' = [bridgelist EXCEPT ![d] = new]
    BY <1>3
  <2>. QED  BY <1>1, <1>3, <2>1, <2>2, ExceptSeq
<1>. QED  BY <1>2, <1>3 DEF LeaveBridge

(* The last thread of a client takes it off its bridge, and the bridge with   *)
(* it if it was alone: its bridge counts its crew, and the crew has nobody    *)
(* else.                                                                      *)
LEMMA LeaveSafe ==
  ASSUME IInv, NEW i \in InUse, NEW d, d = bridge[i], LeaveBridge(i, d),
         InUse' = InUse \ {i}, UNCHANGED <<bridge, shipid>>,
         ~moved, ~reaped, ~moved'
  PROVE  /\ \A j \in InUse' : OnOwnBridge(j)'
         /\ \A b \in DOMAIN bridgelist' : bridgelist'[b].nclients = Cardinality(Crew(b)') /\ Crew(b)' # {}
         /\ \A a, b \in DOMAIN bridgelist' : bridgelist'[a].ship = bridgelist'[b].ship => a = b
<1>1. /\ \A j \in InUse : OnOwnBridge(j) /\ j <= nclients
      /\ \A b \in DOMAIN bridgelist : bridgelist[b].nclients = Cardinality(Crew(b)) /\ Crew(b) # {}
      /\ \A a, b \in DOMAIN bridgelist : bridgelist[a].ship = bridgelist[b].ship => a = b
  BY DEF IInv, CrewsAreRight
<1>2. /\ bridgelist \in Seq(BridgeData) /\ Len(bridgelist) \in Nat
      /\ DOMAIN bridgelist = 1 .. Len(bridgelist)
      /\ i \in Slots /\ i \in Crew(d) /\ d \in DOMAIN bridgelist /\ d \in Nat
  BY <1>1, LenProperties DEF IInv, ClientsTypeOK, InUse, Crew, OnOwnBridge
<1>3. bridgelist[d].nclients = Cardinality(Crew(d)) /\ IsFiniteSet(Crew(d)) /\ Cardinality(Crew(d)) \in Nat
  BY <1>1, <1>2, FiniteCrew
<1>4. ASSUME NEW b PROVE Crew(b)' = IF b = d THEN Crew(b) \ {i} ELSE Crew(b)
  BY DEF Crew
<1>5. CASE bridgelist[d].nclients <= 1 /\ ~StillActive(i, d)
  <2>1. Crew(d) = {i}
    <3>1. Cardinality(Crew(d) \ {i}) = Cardinality(Crew(d)) - 1 /\ IsFiniteSet(Crew(d) \ {i})
      BY <1>2, <1>3, FS_RemoveElement
    <3>2. Cardinality(Crew(d) \ {i}) = 0
      <4>1. Cardinality(Crew(d) \ {i}) \in Nat
        BY <3>1, FS_CardinalityType
      <4>. QED  BY <1>3, <1>5, <3>1, <4>1
    <3>3. Crew(d) \ {i} = {}
      BY <3>1, <3>2, FS_EmptySet
    <3>. QED  BY <1>2, <3>3
  <2>2. bridgelist' = RemoveAt(bridgelist, d) /\ moved' = (moved \/ d < Len(bridgelist))
    BY <1>5 DEF LeaveBridge
  <2>3. d = Len(bridgelist)
    <3>1. ~(d < Len(bridgelist))
      BY <2>2
    <3>. QED  BY <1>2, <3>1
  <2>4. /\ bridgelist' \in Seq(BridgeData)
        /\ DOMAIN bridgelist' = 1 .. d - 1
        /\ \A b \in 1 .. d - 1 : bridgelist'[b] = bridgelist[b] /\ b \in DOMAIN bridgelist /\ b # d
    <3>1. /\ bridgelist' \in Seq(BridgeData) /\ Len(bridgelist') = d - 1
          /\ \A b \in 1 .. d - 1 : bridgelist'[b] = bridgelist[b]
      BY <1>2, <2>2, <2>3, BridgeRemoved
    <3>. QED  BY <1>2, <2>3, <3>1, LenProperties
  <2>5. ASSUME NEW j \in InUse' PROVE OnOwnBridge(j)'
    <3>1. j \in InUse /\ bridge[j] # d /\ OnOwnBridge(j)
      BY <1>1, <2>1 DEF Crew
    <3>2. bridge[j] \in 1 .. d - 1
      BY <1>2, <2>3, <3>1 DEF OnOwnBridge
    <3>. QED  BY <2>4, <3>1, <3>2 DEF OnOwnBridge
  <2>6. ASSUME NEW b \in DOMAIN bridgelist'
        PROVE  bridgelist'[b].nclients = Cardinality(Crew(b)') /\ Crew(b)' # {}
    <3>1. b # d /\ b \in DOMAIN bridgelist /\ bridgelist'[b] = bridgelist[b]
      BY <2>4
    <3>2. Crew(b)' = Crew(b)
      BY <1>4, <3>1
    <3>. QED  BY <1>1, <3>1, <3>2
  <2>. QED  BY <1>1, <2>4, <2>5, <2>6
<1>6. CASE ~(bridgelist[d].nclients <= 1 /\ ~StillActive(i, d))
  <2>1. ~(bridgelist[d].nclients <= 1)
    <3>1. SUFFICES ASSUME StillActive(i, d), bridgelist[d].nclients <= 1 PROVE FALSE
      BY <1>6
    <3>2. PICK j \in 1 .. Shrunk(i) : j # i /\ refcount[j] > 0 /\ bridge[j] = d
      BY <3>1 DEF StillActive
    <3>3. Shrunk(i) \in 0 .. nclients /\ nclients \in 0 .. MaxClients /\ MaxClients \in Nat
      BY <1>2, ShrunkFits, ClientsAssumption DEF IInv, ClientsTypeOK
    <3>4. j \in Slots
      BY <3>2, <3>3 DEF Slots
    <3>5. j \in Crew(d) \ {i}
      BY <3>2, <3>4 DEF Crew, InUse
    <3>6. /\ Cardinality(Crew(d) \ {i}) = Cardinality(Crew(d)) - 1
          /\ IsFiniteSet(Crew(d) \ {i})
      BY <1>2, <1>3, FS_RemoveElement
    <3>7. Cardinality(Crew(d) \ {i}) \in Nat /\ Cardinality(Crew(d) \ {i}) # 0
      BY <3>5, <3>6, FS_EmptySet, FS_CardinalityType
    <3>. QED  BY <1>3, <3>1, <3>6, <3>7
  <2>2. bridgelist' = [bridgelist EXCEPT ![d].nclients = bridgelist[d].nclients - 1]
    BY <1>6 DEF LeaveBridge
  <2>3. /\ DOMAIN bridgelist' = DOMAIN bridgelist
        /\ \A b \in DOMAIN bridgelist :
              /\ bridgelist'[b].ship = bridgelist[b].ship
              /\ b # d => bridgelist'[b].nclients = bridgelist[b].nclients
        /\ bridgelist'[d].nclients = bridgelist[d].nclients - 1
    <3>1. bridgelist[d] \in BridgeData
      BY <1>2, ElementOfSeq
    <3>2. [bridgelist[d] EXCEPT !.nclients = bridgelist[d].nclients - 1].ship = bridgelist[d].ship
          /\ [bridgelist[d] EXCEPT !.nclients = bridgelist[d].nclients - 1].nclients = bridgelist[d].nclients - 1
      BY <3>1 DEF BridgeData
    <3>3. DOMAIN bridgelist' = DOMAIN bridgelist
      BY <2>2
    <3>4. bridgelist'[d] = [bridgelist[d] EXCEPT !.nclients = bridgelist[d].nclients - 1]
          /\ \A b \in DOMAIN bridgelist : b # d => bridgelist'[b] = bridgelist[b]
      BY <1>2, <2>2
    <3>. QED  BY <3>2, <3>3, <3>4
  <2>4. \A j \in InUse' : OnOwnBridge(j)'
    BY <1>1, <2>3 DEF OnOwnBridge
  <2>5. ASSUME NEW b \in DOMAIN bridgelist
        PROVE  bridgelist'[b].nclients = Cardinality(Crew(b)') /\ Crew(b)' # {}
    <3>1. CASE b = d
      <4>1. /\ Cardinality(Crew(d) \ {i}) = Cardinality(Crew(d)) - 1
            /\ IsFiniteSet(Crew(d) \ {i})
        BY <1>2, <1>3, FS_RemoveElement
      <4>2. Crew(d) \ {i} # {}
        BY <1>3, <2>1, <4>1, FS_EmptySet
      <4>3. Crew(b)' = Crew(d) \ {i}
        BY <1>4, <3>1
      <4>. QED  BY <1>3, <2>3, <3>1, <4>1, <4>2, <4>3
    <3>2. CASE b # d
      <4>1. Crew(b)' = Crew(b)
        BY <1>4, <3>2
      <4>. QED  BY <1>1, <2>3, <3>2, <4>1
    <3>. QED  BY <3>1, <3>2
  <2>. QED  BY <1>1, <2>3, <2>4, <2>5
<1>. QED  BY <1>5, <1>6

LEMMA PutSafe ==
  ASSUME IInv, NEW i \in Slots, PutClient(i), UNCHANGED <<bridge, shipid>>,
         ~reaped => refcount[i] > 0
  PROVE  /\ alive' \in BOOLEAN /\ nclients' \in 0 .. MaxClients
         /\ refcount' \in [Slots -> Nat] /\ bridgelist' \in Seq(BridgeData)
         /\ moved' \in BOOLEAN /\ reaped' \in BOOLEAN
         /\ AbortsOnlyAfterEarlyReaping'
         /\ CrewsAreRight'
         /\ ~reaped' =>
               /\ ~reaped
               /\ refcount' = [refcount EXCEPT ![i] = @ - 1]
               /\ refcount[i] = 1 => \A t \in Threads : pc[t] = "born" => Slot(t) # i
               /\ \A j \in InUse' : j <= nclients'
<1>1. /\ ClientsTypeOK /\ refcount \in [Slots -> Nat] /\ refcount[i] \in Nat
      /\ nclients \in 0 .. MaxClients /\ MaxClients \in Nat
  BY ClientsAssumption DEF IInv, ClientsTypeOK
<1>2. CASE ~alive'
  <2>1. reaped
    <3>1. SUFFICES ASSUME ~reaped PROVE AssertionsHold(i)
      BY <1>2 DEF PutClient
    <3>2. i \in InUse
      BY <3>1 DEF InUse
    <3>. QED  BY <3>1, <3>2 DEF IInv, NoneWaitsOnFree, AssertionsHold
  <2>2. UNCHANGED <<refcount, nclients, bridgelist, moved, reaped>> /\ alive' \in BOOLEAN
    BY <1>2 DEF PutClient, AssertionsHold, LastReference
  <2>. QED  BY <1>1, <2>1, <2>2 DEF AbortsOnlyAfterEarlyReaping, CrewsAreRight, ClientsTypeOK
<1>3. CASE alive' /\ ~LastReference(i)
  <2>1. /\ refcount[i] > 1
        /\ refcount' = [refcount EXCEPT ![i] = @ - 1]
        /\ UNCHANGED <<nclients, bridgelist, moved, reaped>> /\ alive' \in BOOLEAN
    <3>1. AssertionsHold(i) /\ ~LastReference(i) /\ alive' \in BOOLEAN
      BY <1>3 DEF PutClient, AssertionsHold
    <3>2. refcount[i] > 1
      BY <1>1, <3>1 DEF AssertionsHold, LastReference
    <3>. QED  BY <1>3, <3>1, <3>2 DEF PutClient
  <2>2. refcount' \in [Slots -> Nat] /\ InUse' = InUse
    BY <1>1, <2>1 DEF InUse
  <2>3. CrewsAreRight'
    BY <2>1, <2>2, TablesCarryOver
  <2>4. ~reaped => \A j \in InUse' : j <= nclients'
    BY <2>1, <2>2 DEF IInv, NoneWaitsOnFree
  <2>. QED  BY <1>1, <1>3, <2>1, <2>2, <2>3, <2>4 DEF AbortsOnlyAfterEarlyReaping, ClientsTypeOK
<1>4. CASE alive' /\ LastReference(i)
  <2>1. /\ refcount[i] = 1
        /\ refcount' = [refcount EXCEPT ![i] = @ - 1]
        /\ RemoveClient(i) /\ alive' \in BOOLEAN
    BY <1>4 DEF PutClient, AssertionsHold, LastReference
  <2>2. /\ nclients' = Shrunk(i)
        /\ reaped' = (reaped \/ \E t \in Threads : pc[t] = "born" /\ slotOf[t[1]] = i)
    BY <2>1 DEF RemoveClient
  <2>3. /\ Shrunk(i) \in 0 .. nclients
        /\ \A j \in Shrunk(i) + 1 .. nclients : j = i \/ refcount[j] = 0
    BY <1>1, ShrunkFits
  <2>4. nclients' \in 0 .. MaxClients
    BY <1>1, <2>2, <2>3
  <2>5. refcount' \in [Slots -> Nat] /\ InUse' = InUse \ {i} /\ i \in InUse
    BY <1>1, <2>1 DEF InUse
  <2>6. bridgelist' \in Seq(BridgeData) /\ moved' \in BOOLEAN
    BY <1>1, <2>1, LeaveTyped DEF RemoveClient, ClientsTypeOK
  <2>7. /\ reaped' \in BOOLEAN
        /\ ~reaped' => ~reaped
        /\ ~reaped' => \A t \in Threads : pc[t] = "born" => Slot(t) # i
    BY <1>1, <2>2 DEF ClientsTypeOK, Slot
  <2>8. ASSUME ~reaped', NEW j \in InUse' PROVE j <= nclients'
    <3>1. j \in Slots /\ j # i /\ refcount[j] > 0 /\ j <= nclients /\ j \in Nat
      BY <2>5, <2>7, <2>8 DEF IInv, NoneWaitsOnFree, InUse, Slots
    <3>2. ~(j \in Shrunk(i) + 1 .. nclients)
      BY <2>3, <3>1
    <3>. QED  BY <1>1, <2>2, <2>3, <3>1, <3>2
  <2>9. CrewsAreRight'
    <3>1. SUFFICES ASSUME ~moved', ~reaped' PROVE CrewsAreRight'
      BY DEF CrewsAreRight
    <3>2. ~reaped /\ (moved \/ OnOwnBridge(i))
      BY <2>5, <2>7, <3>1 DEF IInv, CrewsAreRight
    <3>3. moved => moved'
      BY <1>1, <2>1 DEF RemoveClient, LeaveBridge, ClientsTypeOK
    <3>4. LeaveBridge(i, bridge[i])
      BY <2>1, <3>1, <3>2, <3>3 DEF RemoveClient, OnOwnBridge
    <3>. QED  BY <2>5, <2>7, <2>8, <3>1, <3>2, <3>3, <3>4, LeaveSafe DEF CrewsAreRight
  <2>10. AbortsOnlyAfterEarlyReaping'
    BY <1>4 DEF AbortsOnlyAfterEarlyReaping
  <2>. QED  BY <2>1, <2>4, <2>5, <2>6, <2>7, <2>8, <2>9, <2>10
<1>. QED  BY <1>2, <1>3, <1>4

LEMMA ReleaseSafe ==
  ASSUME IInv, Release
  PROVE  IInv'
<1>0. PICK i : i = listener.slot
  OBVIOUS
<1>1. /\ listener.at = "release" /\ i \in Slots
      /\ PutClient(i)
      /\ listener' = [listener EXCEPT !.at = "accept"]
      /\ UNCHANGED <<socket, bridge, shipid, pc, slotOf>>
  BY <1>0 DEF Release, IInv, ClientsTypeOK
<1>2. ~reaped => refcount[i] = Cardinality(Users(i)) + 1 /\ Cardinality(Users(i)) \in Nat
  BY <1>0, <1>1, FiniteUsers DEF IInv, RefcountIsUsers, ListenerHolds
<1>3. ~reaped => refcount[i] > 0
  BY <1>2
<1>4. /\ alive' \in BOOLEAN /\ nclients' \in 0 .. MaxClients
      /\ refcount' \in [Slots -> Nat] /\ bridgelist' \in Seq(BridgeData)
      /\ moved' \in BOOLEAN /\ reaped' \in BOOLEAN
      /\ AbortsOnlyAfterEarlyReaping' /\ CrewsAreRight'
      /\ ~reaped' =>
            /\ ~reaped
            /\ refcount' = [refcount EXCEPT ![i] = @ - 1]
            /\ refcount[i] = 1 => \A t \in Threads : pc[t] = "born" => Slot(t) # i
            /\ \A j \in InUse' : j <= nclients'
  BY <1>1, <1>3, PutSafe
<1>5. refcount \in [Slots -> Nat] /\ \A t \in Threads : Slot(t)' = Slot(t) /\ Slot(t) \in Slots
  BY <1>1, ThreadsOf DEF Slot, IInv, ClientsTypeOK
<1>6. ClientsTypeOK'
  BY <1>1, <1>4 DEF IInv, ClientsTypeOK
<1>7. NoneWaitsOnFree'
  <2>1. ASSUME ~reaped', NEW t \in Threads, pc'[t] = "born" PROVE refcount'[Slot(t)'] > 0
    <3>1. pc[t] = "born" /\ refcount[Slot(t)] > 0
      BY <1>1, <1>4, <2>1 DEF IInv, NoneWaitsOnFree
    <3>. QED  BY <1>1, <1>4, <1>5, <2>1, <3>1
  <2>. QED  BY <1>4, <2>1 DEF NoneWaitsOnFree
<1>8. RefcountIsUsers'
  <2>1. ASSUME ~reaped', NEW j \in Slots
        PROVE  refcount'[j] = Cardinality(Users(j)') + ListenerHolds(j)'
    <3>1. Users(j)' = Users(j) /\ ListenerHolds(j)' = 0
      BY <1>1, <1>5 DEF Users, ListenerHolds, IInv, ClientsTypeOK
    <3>2. refcount[j] = Cardinality(Users(j)) + ListenerHolds(j) /\ Cardinality(Users(j)) \in Nat
      BY <1>4, <2>1, FiniteUsers DEF IInv, RefcountIsUsers
    <3>3. ListenerHolds(j) = IF j = i THEN 1 ELSE 0
      BY <1>0, <1>1 DEF ListenerHolds
    <3>. QED  BY <1>1, <1>4, <1>5, <2>1, <3>1, <3>2, <3>3
  <2>. QED  BY <2>1 DEF RefcountIsUsers
<1>. QED  BY <1>4, <1>6, <1>7, <1>8 DEF IInv

LEMMA ExitSafe ==
  ASSUME IInv, NEW t \in Threads, Exit(t)
  PROVE  IInv'
<1>0. PICK i : i = Slot(t)
  OBVIOUS
<1>1. /\ pc[t] = "loop" /\ i \in Slots
      /\ pc' = [pc EXCEPT ![t] = "done"]
      /\ PutClient(i)
      /\ UNCHANGED <<socket, bridge, shipid, listener, slotOf>>
  BY <1>0, ThreadsOf DEF Exit, IInv
<1>2. t \in Users(i) /\ IsFiniteSet(Users(i)) /\ Cardinality(Users(i)) \in Nat
  BY <1>0, <1>1, FiniteUsers DEF Users
<1>3. Cardinality(Users(i) \ {t}) = Cardinality(Users(i)) - 1 /\ Cardinality(Users(i) \ {t}) \in Nat
  <2>1. Cardinality(Users(i) \ {t}) = Cardinality(Users(i)) - 1 /\ IsFiniteSet(Users(i) \ {t})
    BY <1>2, FS_RemoveElement
  <2>. QED  BY <2>1, FS_CardinalityType
<1>4. ~reaped => refcount[i] > 0
  BY <1>1, <1>2, <1>3 DEF IInv, RefcountIsUsers, ListenerHolds
<1>5. /\ alive' \in BOOLEAN /\ nclients' \in 0 .. MaxClients
      /\ refcount' \in [Slots -> Nat] /\ bridgelist' \in Seq(BridgeData)
      /\ moved' \in BOOLEAN /\ reaped' \in BOOLEAN
      /\ AbortsOnlyAfterEarlyReaping' /\ CrewsAreRight'
      /\ ~reaped' =>
            /\ ~reaped
            /\ refcount' = [refcount EXCEPT ![i] = @ - 1]
            /\ refcount[i] = 1 => \A u \in Threads : pc[u] = "born" => Slot(u) # i
            /\ \A j \in InUse' : j <= nclients'
  BY <1>1, <1>4, PutSafe
<1>6. /\ refcount \in [Slots -> Nat] /\ pc \in [Threads -> Places]
      /\ \A u \in Threads : Slot(u)' = Slot(u) /\ Slot(u) \in Slots
  BY <1>1, ThreadsOf DEF Slot, IInv, ClientsTypeOK
<1>7. ClientsTypeOK'
  <2>1. pc' \in [Threads -> Places]
    BY <1>1, <1>6 DEF Places
  <2>. QED  BY <1>1, <1>5, <2>1 DEF IInv, ClientsTypeOK
<1>8. NoneWaitsOnFree'
  <2>1. ASSUME ~reaped', NEW u \in Threads, pc'[u] = "born" PROVE refcount'[Slot(u)'] > 0
    <3>1. pc[u] = "born"
      BY <1>1, <1>6, <2>1
    <3>2. refcount[Slot(u)] > 0
      BY <1>5, <2>1, <3>1 DEF IInv, NoneWaitsOnFree
    <3>. QED  BY <1>1, <1>5, <1>6, <2>1, <3>1, <3>2
  <2>. QED  BY <1>5, <2>1 DEF NoneWaitsOnFree
<1>9. RefcountIsUsers'
  <2>1. ASSUME ~reaped', NEW j \in Slots
        PROVE  refcount'[j] = Cardinality(Users(j)') + ListenerHolds(j)'
    <3>1. /\ refcount[j] = Cardinality(Users(j)) + ListenerHolds(j) /\ Cardinality(Users(j)) \in Nat
          /\ ListenerHolds(j)' = ListenerHolds(j) /\ ListenerHolds(j) \in Nat
      BY <1>1, <1>5, <2>1, FiniteUsers DEF IInv, RefcountIsUsers, ListenerHolds
    <3>2. CASE j = i
      <4>1. Users(j)' = Users(j) \ {t}
        BY <1>0, <1>1, <1>6, <3>2 DEF Users
      <4>2. Cardinality(Users(j)') = Cardinality(Users(j)) - 1
        BY <1>3, <3>2, <4>1
      <4>. QED  BY <1>1, <1>5, <1>6, <2>1, <3>1, <3>2, <4>2
    <3>3. CASE j # i
      <4>1. Users(j)' = Users(j)
        BY <1>0, <1>1, <1>6, <3>3 DEF Users
      <4>. QED  BY <1>1, <1>5, <1>6, <2>1, <3>1, <3>3, <4>1
    <3>. QED  BY <3>2, <3>3
  <2>. QED  BY <2>1 DEF RefcountIsUsers
<1>. QED  BY <1>5, <1>7, <1>8, <1>9 DEF IInv

-----------------------------------------------------------------------------
LEMMA InitSafe == Init => IInv
<1>. SUFFICES ASSUME Init PROVE IInv
  OBVIOUS
<1>1. 1 \in Slots
  BY ClientsAssumption DEF Slots
<1>2. ClientsTypeOK
  <2>1. bridgelist \in Seq(BridgeData)
    BY EmptySeq DEF Init
  <2>2. nclients \in 0 .. MaxClients
    BY ClientsAssumption DEF Init
  <2>3. listener \in [at : {"accept", "wait", "release"}, slot : Slots] /\ pc \in [Threads -> Places]
    BY <1>1 DEF Init, Places
  <2>4. /\ refcount \in [Slots -> Nat] /\ socket \in [Slots -> Connections \cup {Nobody}]
        /\ bridge \in [Slots -> Nat] /\ shipid \in [Slots -> Ships \cup {Nobody}]
        /\ slotOf \in [Connections -> Slots]
    BY <1>1 DEF Init
  <2>5. alive \in BOOLEAN /\ moved \in BOOLEAN /\ reaped \in BOOLEAN
    BY DEF Init
  <2>. QED  BY <2>1, <2>2, <2>3, <2>4, <2>5 DEF ClientsTypeOK
<1>3. NoneWaitsOnFree /\ AbortsOnlyAfterEarlyReaping /\ InUse = {}
  BY DEF Init, NoneWaitsOnFree, AbortsOnlyAfterEarlyReaping, InUse
<1>4. RefcountIsUsers
  <2>1. ASSUME NEW i \in Slots PROVE Users(i) = {} /\ ListenerHolds(i) = 0 /\ refcount[i] = 0
    BY DEF Init, Users, ListenerHolds
  <2>2. Cardinality({}) = 0
    BY FS_EmptySet
  <2>. QED  BY <2>1, <2>2 DEF RefcountIsUsers
<1>5. CrewsAreRight
  <2>1. DOMAIN bridgelist = {}
    BY DEF Init
  <2>. QED  BY <1>3, <2>1 DEF CrewsAreRight
<1>. QED  BY <1>2, <1>3, <1>4, <1>5 DEF IInv

LEMMA StutterSafe ==
  ASSUME IInv, UNCHANGED vars
  PROVE  IInv'
<1>1. ClientsTypeOK' /\ NoneWaitsOnFree' /\ AbortsOnlyAfterEarlyReaping' /\ InUse' = InUse
  BY DEF IInv, vars, ClientsTypeOK, NoneWaitsOnFree, AbortsOnlyAfterEarlyReaping, InUse, Slot
<1>2. RefcountIsUsers'
  <2>1. \A j \in Slots : Users(j)' = Users(j) /\ ListenerHolds(j)' = ListenerHolds(j)
    BY DEF vars, Users, ListenerHolds, Slot
  <2>. QED  BY <2>1 DEF IInv, vars, RefcountIsUsers
<1>3. CrewsAreRight'
  BY <1>1, TablesCarryOver DEF vars
<1>. QED  BY <1>1, <1>2, <1>3 DEF IInv

LEMMA Inductive == IInv /\ [Next]_vars => IInv'
<1>. SUFFICES ASSUME IInv, [Next]_vars PROVE IInv'
  OBVIOUS
<1>1. ASSUME NEW c \in Connections, NEW ship \in Ships, Found(c, ship) PROVE IInv'
  BY <1>1, FoundSafe
<1>2. ASSUME NEW c \in Connections, NEW ship \in Ships, Join(c, ship) PROVE IInv'
  BY <1>2, JoinSafe
<1>3. ASSUME NEW c \in Connections, Refuse(c) PROVE IInv'
  BY <1>3, RefuseSafe
<1>4. CASE SeeThread
  BY <1>4, SeeThreadSafe
<1>5. CASE Release
  BY <1>5, ReleaseSafe
<1>6. ASSUME NEW t \in Threads, Register(t) PROVE IInv'
  BY <1>6, RegisterSafe
<1>7. ASSUME NEW t \in Threads, Exit(t) PROVE IInv'
  BY <1>7, ExitSafe
<1>8. ASSUME NEW i \in Slots, Disconnect(i) PROVE IInv'
  BY <1>8, DisconnectSafe
<1>9. CASE UNCHANGED vars
  BY <1>9, StutterSafe
<1>. QED  BY <1>1, <1>2, <1>3, <1>4, <1>5, <1>6, <1>7, <1>8, <1>9 DEF Next

THEOREM Invariance == Spec => []IInv
  BY InitSafe, Inductive, PTL DEF Spec

(* Every variable keeps its type; the counts of service_connection,           *)
(* put_client and remove_client stay in their ranges.                         *)
THEOREM ClientsTypeCorrect == Spec => []ClientsTypeOK
<1>1. IInv => ClientsTypeOK
  BY DEF IInv
<1>. QED  BY <1>1, Invariance, PTL

(* Until an entry is freed too early, refcount counts the users of a          *)
(* game_client.                                                               *)
THEOREM CountsUntilReaped == Spec => []RefcountIsUsers
<1>1. IInv => RefcountIsUsers
  BY DEF IInv
<1>. QED  BY <1>1, Invariance, PTL

(* Until a bridge moves or an entry is freed too early, clients and bridges   *)
(* name each other: add_new_player, put_client and delete_bridge keep them so. *)
THEOREM CrewsUntilMoved == Spec => []CrewsAreRight
<1>1. IInv => CrewsAreRight
  BY DEF IInv
<1>. QED  BY <1>1, Invariance, PTL

(* The assertions of put_client and remove_client hold unless service_connection *)
(* has let go of a client whose second thread had yet to come.                *)
THEOREM AbortsNeedEarlyReaping == Spec => []AbortsOnlyAfterEarlyReaping
<1>1. IInv => AbortsOnlyAfterEarlyReaping
  BY DEF IInv
<1>. QED  BY <1>1, Invariance, PTL

-----------------------------------------------------------------------------
(* The listener that waits for ever.                                          *)
LEMMA WaitedForCount ==
  ASSUME IInv, ~reaped, listener.at = "wait"
  PROVE  /\ listener.slot \in Slots
         /\ IsFiniteSet(Users(listener.slot))
         /\ Cardinality(Users(listener.slot)) \in Nat
         /\ refcount[listener.slot] = Cardinality(Users(listener.slot)) + 1
<1>1. listener.slot \in Slots
  BY DEF IInv, ClientsTypeOK
<1>2. ListenerHolds(listener.slot) = 1
  BY DEF ListenerHolds
<1>. QED  BY <1>1, <1>2, FiniteUsers DEF IInv, RefcountIsUsers

(* Until an entry is freed too early, service_connection waits in vain only   *)
(* for threads that have all come and gone between two of its looks.          *)
THEOREM DeafnessOnly == Spec => []OnlyDeafWaits
<1>1. ASSUME IInv, ~reaped, listener.at = "wait", NEW t \in Threads, Slot(t) = listener.slot,
             pc[t] \notin {"unborn", "done", "born"}
      PROVE  refcount[listener.slot] >= 2
  <2>1. t \in Users(listener.slot)
    BY <1>1 DEF IInv, ClientsTypeOK, Places, Users
  <2>2. Cardinality(Users(listener.slot)) # 0
    BY <1>1, <2>1, WaitedForCount, FS_EmptySet
  <2>. QED  BY <1>1, <2>2, WaitedForCount
<1>2. IInv => OnlyDeafWaits
  BY <1>1 DEF OnlyDeafWaits, Deaf
<1>. QED  BY Invariance, <1>2, PTL

(* ... and then for ever, with no more clients served.                        *)
THEOREM DeafnessIsForGood == Spec => DeafForGood
<1>1. ASSUME IInv, Next, ~reaped, Deaf
      PROVE  Deaf'
  <2>1. listener.at = "wait" /\ pc \in [Threads -> Places]
    BY <1>1 DEF Deaf, IInv, ClientsTypeOK
  <2>2. Users(listener.slot) = {}
    BY <1>1 DEF Deaf, Users
  <2>3. Cardinality(Users(listener.slot)) = 0
    BY <1>1, <2>1, <2>2, WaitedForCount, FS_EmptySet
  <2>4. refcount[listener.slot] = 1
    BY <1>1, <2>1, <2>3, WaitedForCount
  <2>5. CASE \E i \in Slots : Disconnect(i)
    BY <1>1, <2>5 DEF Disconnect, Deaf, Slot
  <2>6. ASSUME NEW t \in Threads, Register(t) \/ Exit(t) PROVE Deaf'
    <3>1. UNCHANGED <<listener, slotOf>> /\ \E to : pc' = [pc EXCEPT ![t] = to]
      BY <2>6 DEF Register, Exit
    <3>2. Slot(t) # listener.slot
      BY <1>1, <2>6 DEF Deaf, Register, Exit
    <3>. QED  BY <1>1, <2>1, <3>1, <3>2 DEF Deaf, Slot
  <2>. QED
    BY <1>1, <2>1, <2>4, <2>5, <2>6 DEF Next, Found, Join, Refuse, CanServe, SeeThread, Release
<1>2. IInv /\ [Next]_vars => [~reaped /\ Deaf => Deaf']_vars
  BY <1>1
<1>. QED  BY Invariance, <1>2, PTL DEF Spec, DeafForGood

-----------------------------------------------------------------------------
(* Crews seen through bridgelist[], as long as CrewsAreRight speaks of it:    *)
(* then they are the entries in use, by the ship each of them came for.       *)
Members(ship) == {i \in InUse : shipid[i] = ship}
Astray == moved \/ reaped
AboardSeen == {bridgelist[b].ship : b \in DOMAIN bridgelist}
CrewsSeen == [ship \in Ships |-> CrewSeen(ship)]

LEMMA CrewsByShip ==
  ASSUME ClientsTypeOK, CrewsAreRight, ~Astray
  PROVE  /\ CrewsSeen = [ship \in Ships |-> Members(ship)]
         /\ AboardSeen = {ship \in Ships : Members(ship) # {}}
<1>1. /\ \A i \in InUse : OnOwnBridge(i)
      /\ \A b \in DOMAIN bridgelist : Crew(b) # {} /\ bridgelist[b].ship \in Ships
  <2>1. \A b \in DOMAIN bridgelist : bridgelist[b] \in BridgeData
    BY ElementOfSeq, LenProperties DEF ClientsTypeOK
  <2>. QED  BY <2>1 DEF CrewsAreRight, Astray, BridgeData
<1>2. ASSUME NEW ship \in Ships PROVE CrewSeen(ship) = Members(ship)
  BY <1>1 DEF CrewSeen, Members, OnOwnBridge
<1>3. ASSUME NEW b \in DOMAIN bridgelist PROVE Members(bridgelist[b].ship) # {}
  <2>1. PICK i \in InUse : bridge[i] = b
    BY <1>1 DEF Crew
  <2>. QED  BY <1>1, <2>1 DEF Members, OnOwnBridge
<1>4. ASSUME NEW ship \in Ships, Members(ship) # {} PROVE ship \in AboardSeen
  <2>1. PICK i \in InUse : shipid[i] = ship
    BY <1>4 DEF Members
  <2>. QED  BY <1>1, <2>1 DEF OnOwnBridge, AboardSeen
<1>5. AboardSeen = {ship \in Ships : Members(ship) # {}}
  BY <1>1, <1>3, <1>4 DEF AboardSeen
<1>. QED  BY <1>2, <1>5 DEF CrewsSeen

(* What a step does to the crews is what it does to the entries in use.       *)
LEMMA StepByShip ==
  ASSUME IInv, IInv', ~Astray, ~Astray'
  PROVE  /\ CrewsSeen = [ship \in Ships |-> Members(ship)]
         /\ CrewsSeen' = [ship \in Ships |-> Members(ship)']
         /\ AboardSeen = {ship \in Ships : Members(ship) # {}}
         /\ AboardSeen' = {ship \in Ships : Members(ship)' # {}}
<1>1. /\ CrewsSeen = [ship \in Ships |-> Members(ship)]
      /\ AboardSeen = {ship \in Ships : Members(ship) # {}}
  BY CrewsByShip DEF IInv
<1>2. /\ CrewsSeen' = [ship \in Ships |-> Members(ship)']
      /\ AboardSeen' = {ship \in Ships : Members(ship)' # {}}
  <2>1. (ClientsTypeOK /\ CrewsAreRight /\ ~Astray)'
    BY DEF IInv
  <2>2. (ClientsTypeOK /\ CrewsAreRight /\ ~Astray
            => /\ CrewsSeen = [ship \in Ships |-> Members(ship)]
               /\ AboardSeen = {ship \in Ships : Members(ship) # {}})'
    BY CrewsByShip, PTL
  <2>. QED  BY <2>1, <2>2
<1>. QED  BY <1>1, <1>2

(* An entry in use is in the crew of one ship.                                *)
LEMMA OneShipEach ==
  ASSUME IInv, ~Astray, NEW i \in InUse
  PROVE  shipid[i] \in Ships /\ i \in Slots
<1>1. OnOwnBridge(i) /\ i \in Slots
  BY DEF IInv, CrewsAreRight, Astray, InUse
<1>2. bridgelist[bridge[i]] \in BridgeData
  BY <1>1, ElementOfSeq, LenProperties DEF OnOwnBridge, IInv, ClientsTypeOK
<1>. QED  BY <1>1, <1>2 DEF OnOwnBridge, BridgeData

LEMMA EntriesRest ==
  ASSUME IInv, IInv', ~Astray, ~Astray', InUse' = InUse, \A i \in InUse : shipid'[i] = shipid[i]
  PROVE  UNCHANGED <<AboardSeen, CrewsSeen>>
<1>1. \A ship : Members(ship)' = Members(ship)
  BY DEF Members
<1>. QED  BY <1>1, StepByShip

(* add_new_player: one entry more, on a bridge of its own or on one there is. *)
LEMMA EntryComes ==
  ASSUME IInv, IInv', ~Astray, ~Astray', NEW c \in Connections, NEW ship \in Ships,
         Found(c, ship) \/ Join(c, ship)
  PROVE  \E i \in Slots : Promise!Board(i, ship) \/ Promise!JoinCrew(i, ship)
<1>. DEFINE i == FreeSlot
<1>1. /\ i \in Slots /\ refcount[i] = 0 /\ refcount \in [Slots -> Nat]
      /\ shipid \in [Slots -> Ships \cup {Nobody}]
  BY FreeSlotFits DEF Found, Join, CanServe, IInv, ClientsTypeOK, Astray
<1>2. /\ refcount' = [refcount EXCEPT ![i] = 1]
      /\ shipid' = [shipid EXCEPT ![i] = ship]
      /\ UNCHANGED <<moved, reaped>>
  <2>1. CASE Found(c, ship)
    BY <2>1 DEF Found, Enter
  <2>2. CASE Join(c, ship)
    <3>1. Aboard(ship) # {} /\ Aboard(ship) \subseteq Nat
      <4>1. DOMAIN bridgelist = 1 .. Len(bridgelist) /\ Len(bridgelist) \in Nat
        BY LenProperties DEF IInv, ClientsTypeOK
      <4>2. DOMAIN bridgelist \subseteq Nat
        BY <4>1
      <4>. QED  BY <2>2, <4>2 DEF Join, Aboard
    <3>2. Smallest(Aboard(ship)) \in Aboard(ship)
      BY <3>1, SmallestOf
    <3>3. bridgelist[Smallest(Aboard(ship))].ship = ship
      BY <3>2 DEF Aboard
    <3>. QED  BY <2>2, <3>3 DEF Join, Enter
  <2>. QED  BY <2>1, <2>2
<1>. HIDE DEF i
<1>3. InUse' = InUse \cup {i} /\ i \notin InUse
  BY <1>1, <1>2 DEF InUse
<1>4. ASSUME NEW s \in Ships
      PROVE  Members(s)' = IF s = ship THEN Members(s) \cup {i} ELSE Members(s)
  BY <1>1, <1>2, <1>3 DEF Members, InUse
<1>5. \A s \in Ships : i \notin Members(s)
  BY <1>3 DEF Members
<1>6. /\ CrewsSeen = [s \in Ships |-> Members(s)]
      /\ CrewsSeen' = [s \in Ships |-> Members(s)']
      /\ AboardSeen = {s \in Ships : Members(s) # {}}
      /\ AboardSeen' = {s \in Ships : Members(s)' # {}}
  BY StepByShip
<1>7. Promise!IsAshore(i)
  BY <1>5, <1>6 DEF Promise!IsAshore, CrewsSeen
<1>8. UNCHANGED (moved \/ reaped)
  BY <1>2
<1>9. CASE ship \notin AboardSeen
  <2>1. Members(ship) = {}
    BY <1>6, <1>9
  <2>2. AboardSeen' = AboardSeen \cup {ship}
    BY <1>4, <1>6, <2>1
  <2>3. CrewsSeen' = [CrewsSeen EXCEPT ![ship] = {i}]
    BY <1>4, <1>6, <2>1
  <2>4. Promise!Board(i, ship)
    BY <1>7, <1>8, <1>9, <2>2, <2>3 DEF Promise!Board, AboardSeen, CrewsSeen
  <2>. QED  BY <1>1, <2>4 DEF i
<1>10. CASE ship \in AboardSeen
  <2>1. AboardSeen' = AboardSeen
    BY <1>4, <1>6, <1>10
  <2>2. CrewsSeen' = [CrewsSeen EXCEPT ![ship] = @ \cup {i}]
    BY <1>4, <1>6
  <2>3. Promise!JoinCrew(i, ship)
    BY <1>7, <1>8, <1>10, <2>1, <2>2 DEF Promise!JoinCrew, AboardSeen, CrewsSeen
  <2>. QED  BY <1>1, <2>3 DEF i
<1>. QED  BY <1>9, <1>10

(* put_client: nothing changes for the crews but with the last reference.     *)
LEMMA EntryGoes ==
  ASSUME IInv, IInv', ~Astray, ~Astray', NEW i \in Slots, PutClient(i), refcount[i] > 0,
         UNCHANGED shipid
  PROVE  \/ \E ship \in Ships : Promise!LeaveCrew(i, ship)
         \/ UNCHANGED <<AboardSeen, CrewsSeen>>
<1>1. refcount \in [Slots -> Nat] /\ i \in InUse
  BY DEF IInv, ClientsTypeOK, InUse
<1>2. shipid[i] \in Ships
  BY <1>1, OneShipEach
<1>3. alive'
  BY DEF IInv, AbortsOnlyAfterEarlyReaping, Astray
<1>4. refcount' = [refcount EXCEPT ![i] = @ - 1]
  BY <1>3 DEF PutClient
<1>5. CASE refcount[i] > 1
  <2>1. InUse' = InUse
    BY <1>1, <1>4, <1>5 DEF InUse
  <2>. QED  BY <2>1, EntriesRest
<1>6. CASE ~(refcount[i] > 1)
  <2>1. InUse' = InUse \ {i}
    BY <1>1, <1>4, <1>6 DEF InUse
  <2>2. PICK ship \in Ships : ship = shipid[i]
    BY <1>2
  <2>3. ASSUME NEW s \in Ships
        PROVE  Members(s)' = IF s = ship THEN Members(s) \ {i} ELSE Members(s)
    BY <2>1, <2>2 DEF Members
  <2>4. i \in Members(ship)
    BY <1>1, <2>2 DEF Members
  <2>5. /\ CrewsSeen = [s \in Ships |-> Members(s)]
        /\ CrewsSeen' = [s \in Ships |-> Members(s)']
        /\ AboardSeen = {s \in Ships : Members(s) # {}}
        /\ AboardSeen' = {s \in Ships : Members(s)' # {}}
    BY StepByShip
  <2>6. CrewsSeen' = [CrewsSeen EXCEPT ![ship] = @ \ {i}] /\ i \in CrewsSeen[ship]
    BY <2>3, <2>4, <2>5
  <2>7. AboardSeen' = IF CrewsSeen[ship] = {i} THEN AboardSeen \ {ship} ELSE AboardSeen
    <3>1. CASE Members(ship) = {i}
      BY <2>3, <2>5, <3>1
    <3>2. CASE Members(ship) # {i}
      <4>1. Members(ship) \ {i} # {}
        BY <2>4, <3>2
      <4>. QED  BY <2>3, <2>4, <2>5, <3>2, <4>1
    <3>. QED  BY <2>5, <3>1, <3>2
  <2>8. UNCHANGED (moved \/ reaped)
    BY DEF Astray
  <2>9. Promise!LeaveCrew(i, ship)
    BY <2>6, <2>7, <2>8 DEF Promise!LeaveCrew, AboardSeen, CrewsSeen
  <2>. QED  BY <2>9
<1>. QED  BY <1>1, <1>5, <1>6

LEMMA StepKeepsPromise ==
  ASSUME IInv, IInv', [Next]_vars
  PROVE  [Promise!CrewsNext]_<<AboardSeen, CrewsSeen, Astray>>
<1>1. CASE Astray'
  BY <1>1 DEF Astray, Promise!CrewsNext, Promise!GoAstray
<1>2. SUFFICES ASSUME ~Astray' PROVE [Promise!CrewsNext]_<<AboardSeen, CrewsSeen, Astray>>
  BY <1>1
<1>3. ~Astray
  <2>1. moved \in BOOLEAN /\ reaped \in BOOLEAN
    BY DEF IInv, ClientsTypeOK
  <2>2. (moved => moved') /\ (reaped => reaped')
    BY <2>1 DEF Next, Found, Join, Refuse, SeeThread, Release, Register, Exit, Disconnect,
                PutClient, RemoveClient, LeaveBridge, vars
  <2>. QED  BY <1>2, <2>2 DEF Astray
<1>4. UNCHANGED Astray
  BY <1>2, <1>3 DEF Astray
<1>5. ASSUME NEW c \in Connections, NEW ship \in Ships, Found(c, ship) \/ Join(c, ship)
      PROVE  Promise!CrewsNext
  BY <1>2, <1>3, <1>5, EntryComes DEF Promise!CrewsNext
<1>6. ASSUME NEW i \in Slots, PutClient(i), refcount[i] > 0, UNCHANGED shipid
      PROVE  [Promise!CrewsNext]_<<AboardSeen, CrewsSeen, Astray>>
  BY <1>2, <1>3, <1>4, <1>6, EntryGoes DEF Promise!CrewsNext
<1>7. CASE Release
  <2>1. PICK i : i = listener.slot
    OBVIOUS
  <2>2. i \in Slots /\ PutClient(i) /\ UNCHANGED shipid /\ ListenerHolds(i) = 1
    BY <1>7, <2>1 DEF Release, ListenerHolds, IInv, ClientsTypeOK
  <2>3. refcount[i] = Cardinality(Users(i)) + 1 /\ Cardinality(Users(i)) \in Nat
    BY <1>3, <2>2, FiniteUsers DEF IInv, RefcountIsUsers, Astray
  <2>4. refcount[i] > 0
    BY <2>3
  <2>. QED  BY <1>6, <2>2, <2>4
<1>8. ASSUME NEW t \in Threads, Exit(t)
      PROVE  [Promise!CrewsNext]_<<AboardSeen, CrewsSeen, Astray>>
  <2>1. PICK i : i = Slot(t)
    OBVIOUS
  <2>2. i \in Slots /\ PutClient(i) /\ UNCHANGED shipid /\ t \in Users(i)
    BY <1>8, <2>1, ThreadsOf DEF Exit, Users, IInv
  <2>3. /\ IsFiniteSet(Users(i)) /\ Cardinality(Users(i)) \in Nat
        /\ Users(i) # {} /\ ListenerHolds(i) \in Nat
        /\ refcount[i] = Cardinality(Users(i)) + ListenerHolds(i)
    BY <1>3, <2>2, FiniteUsers DEF IInv, RefcountIsUsers, Astray, ListenerHolds
  <2>4. Cardinality(Users(i)) # 0
    BY <2>3, FS_EmptySet
  <2>5. refcount[i] > 0
    BY <2>3, <2>4
  <2>. QED  BY <1>6, <2>2, <2>5
<1>9. ASSUME NEW t \in Threads, Register(t) PROVE UNCHANGED <<AboardSeen, CrewsSeen>>
  <2>1. /\ Slot(t) \in Slots /\ refcount \in [Slots -> Nat]
        /\ refcount' = [refcount EXCEPT ![Slot(t)] = @ + 1]
        /\ refcount[Slot(t)] > 0
        /\ UNCHANGED shipid
    BY <1>3, <1>9, ThreadsOf DEF Register, IInv, ClientsTypeOK, NoneWaitsOnFree, Astray
  <2>2. InUse' = InUse
    BY <2>1 DEF InUse
  <2>. QED  BY <1>2, <1>3, <2>1, <2>2, EntriesRest
<1>10. CASE \/ \E c \in Connections : Refuse(c)
            \/ SeeThread
            \/ \E i \in Slots : Disconnect(i)
            \/ UNCHANGED vars
  <2>1. UNCHANGED <<refcount, shipid>>
    BY <1>10 DEF Refuse, SeeThread, Disconnect, vars
  <2>2. InUse' = InUse
    BY <2>1 DEF InUse
  <2>. QED  BY <1>2, <1>3, <1>4, <2>1, <2>2, EntriesRest
<1>. QED  BY <1>4, <1>5, <1>7, <1>8, <1>9, <1>10 DEF Next

(* The critical sections of a server keep the crews Multiverse takes for      *)
(* granted, until a bridge is deleted from the middle of bridgelist[] or an   *)
(* entry of client[] is freed too early (add_new_player, put_client,          *)
(* delete_bridge): a client stays on the ship it came for until it goes.      *)
THEOREM ClientsImplementCrews == Spec => ImplementsCrews
<1>1. Init => Promise!CrewsInit
  <2>1. SUFFICES ASSUME Init PROVE Promise!CrewsInit
    OBVIOUS
  <2>2. InUse = {} /\ DOMAIN bridgelist = {} /\ (moved \/ reaped) = FALSE
    BY <2>1 DEF Init, InUse
  <2>. QED  BY <2>2 DEF Promise!CrewsInit, CrewSeen
<1>2. IInv /\ IInv' /\ [Next]_vars => [Promise!CrewsNext]_(Promise!crewsVars)
  BY StepKeepsPromise DEF Promise!crewsVars, AboardSeen, CrewsSeen, Astray
<1>. QED  BY Invariance, <1>1, <1>2, PTL DEF Spec, ImplementsCrews, Promise!CrewsSpec
=============================================================================
