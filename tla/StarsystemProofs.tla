--------------------------- MODULE StarsystemProofs ---------------------------
(* Proofs about the solar systems' servers, for any number of them: their     *)
(* connections to the multiverse server (StarsystemSlots), the processes the  *)
(* wrangler starts and stops (Wrangler), and the lobby's list of them         *)
(* (Lobby).                                                                   *)
EXTENDS StarsystemSlots, Wrangler, Lobby, Numbers, FiniteSetTheorems

(* The reference counts are right because a thread that runs has been given   *)
(* an entry, and because the threads of a connection that is being accepted   *)
(* do not run yet: claiming an entry for it changes nobody else's.            *)
PlacedThreads ==
    /\ \A t \in Threads : pc[t] # "unborn" => Slot(t) \in Slots
    /\ \A c \in Connections : pc[<<c, "reader">>] = "unborn" <=> pc[<<c, "writer">>] = "unborn"
    /\ listener.at # "accept" => listener.conn \in Connections /\ listener.fd \in Descriptors
    /\ listener.at = "claim" => pc[<<listener.conn, "reader">>] = "unborn"
    /\ listener.at \in {"wait", "release"} => listener.slot \in Slots

IInv == SlotsTypeOK /\ PlacedThreads /\ RefcountIsThreads

-----------------------------------------------------------------------------
(* get_starsystem and the listener take the first entry that fits.            *)
LEMMA LowestOf ==
  ASSUME NEW S, S \subseteq Nat, S # {}
  PROVE  Lowest(S) \in S
BY LeastOf DEF Lowest

LEMMA ThreadsOf ==
  /\ IsFiniteSet(Threads)
  /\ \A c \in Connections : <<c, "reader">> \in Threads /\ <<c, "writer">> \in Threads
  /\ \A t \in Threads : t[1] \in Connections /\ (t = <<t[1], "reader">> \/ t = <<t[1], "writer">>)
<1>1. IsFiniteSet({"reader", "writer"})
  <2>1. ASSUME NEW a, NEW b PROVE IsFiniteSet({a, b})
    <3>1. IsFiniteSet({a}) /\ {a, b} = {a} \cup {b}
      BY FS_Singleton
    <3>2. IsFiniteSet({a} \cup {b})
      BY <3>1, FS_AddElement
    <3>. QED  BY <3>1, <3>2
  <2>. QED  BY <2>1
<1>. QED  BY <1>1, SlotsAssumption, FS_Product DEF Threads

LEMMA FiniteRegistered ==
  ASSUME NEW i \in Slots
  PROVE  IsFiniteSet(RegisteredIn(i)) /\ Cardinality(RegisteredIn(i)) \in Nat
<1>1. RegisteredIn(i) \in SUBSET Threads
  BY DEF RegisteredIn
<1>2. IsFiniteSet(RegisteredIn(i))
  BY <1>1, ThreadsOf, FS_Subset
<1>. QED  BY <1>2, FS_CardinalityType

(* A step that changes neither who is registered where nor what the listener  *)
(* holds keeps the counts.                                                    *)
LEMMA CountsCarryOver ==
  ASSUME IInv, UNCHANGED refcount,
         \A i \in Slots : RegisteredIn(i)' = RegisteredIn(i) /\ ListenerHolds(i)' = ListenerHolds(i)
  PROVE  RefcountIsThreads'
  BY DEF IInv, RefcountIsThreads

LEMMA ListenerStep ==
  ASSUME IInv, Listener \/ \E c \in Connections : Accept(c)
  PROVE  IInv'
<1>. USE DEF IInv
<1>1. ASSUME NEW c \in Connections, Accept(c) PROVE IInv'
  <2>1. Lowest(Closed) \in Descriptors
    <3>1. Closed # {} /\ Closed \subseteq Descriptors /\ Closed \subseteq Nat
      BY <1>1, SlotsAssumption DEF Accept, Closed
    <3>. QED  BY <3>1, LowestOf
  <2>2. SlotsTypeOK'
    BY <1>1, <2>1 DEF Accept, Accepting, SlotsTypeOK
  <2>3. PlacedThreads'
    BY <1>1, <2>1 DEF Accept, Accepting, PlacedThreads, Slot
  <2>4. RefcountIsThreads'
    BY <1>1, CountsCarryOver DEF Accept, Accepting, RegisteredIn, ListenerHolds, Slot
  <2>. QED  BY <2>2, <2>3, <2>4
<1>2. CASE TurnAway
  <2>1. SlotsTypeOK'
    BY <1>2 DEF TurnAway, Accepting, SlotsTypeOK, PlacedThreads
  <2>2. PlacedThreads'
    BY <1>2 DEF TurnAway, Accepting, PlacedThreads, Slot
  <2>3. RefcountIsThreads'
    BY <1>2, CountsCarryOver DEF TurnAway, Accepting, RegisteredIn, ListenerHolds, Slot
  <2>. QED  BY <2>1, <2>2, <2>3
<1>3. CASE Claim
  <2>. DEFINE i == Lowest(Reapable)
              c == listener.conn
  <2>1. i \in Slots /\ refcount[i] = 0
    <3>1. Reapable # {} /\ Reapable \subseteq Nat
      BY <1>3, SlotsAssumption DEF Claim, Reapable
    <3>2. i \in Reapable
      BY <3>1, LowestOf
    <3>. QED  BY <3>2 DEF Reapable
  <2>2. /\ listener.at = "claim" /\ c \in Connections /\ listener.fd \in Descriptors
        /\ pc[<<c, "reader">>] = "unborn" /\ pc[<<c, "writer">>] = "unborn"
    BY <1>3 DEF Claim, PlacedThreads
  <2>3. /\ refcount' = [refcount EXCEPT ![i] = 1]
        /\ socket' = [socket EXCEPT ![i] = listener.fd]
        /\ slotOf' = [slotOf EXCEPT ![c] = i]
        /\ listener' = [listener EXCEPT !.at = "wait", !.slot = i]
        /\ pc' = [t \in Threads |-> IF t[1] = c THEN "born" ELSE pc[t]]
        /\ open' = open
    BY <1>3 DEF Claim
  <2>. HIDE DEF i, c
  <2>4. SlotsTypeOK'
    BY <2>1, <2>2, <2>3 DEF SlotsTypeOK, Places
  <2>5. PlacedThreads'
    BY <2>1, <2>2, <2>3, ThreadsOf DEF PlacedThreads, SlotsTypeOK, Slot
  <2>6. \A j \in Slots : RegisteredIn(j)' = RegisteredIn(j)
    BY <2>2, <2>3, ThreadsOf DEF RegisteredIn, Registered, Slot, SlotsTypeOK
  <2>7. ASSUME NEW j \in Slots
        PROVE  refcount'[j] = Cardinality(RegisteredIn(j)') + ListenerHolds(j)'
    <3>1. refcount[j] = Cardinality(RegisteredIn(j))
      BY <2>2, FiniteRegistered DEF RefcountIsThreads, ListenerHolds
    <3>2. listener'.at = "wait" /\ listener'.slot = i
      BY <2>3 DEF SlotsTypeOK
    <3>. QED  BY <2>1, <2>3, <2>6, <3>1, <3>2 DEF ListenerHolds, SlotsTypeOK
  <2>. QED  BY <2>4, <2>5, <2>7 DEF RefcountIsThreads
<1>4. CASE SeeThread
  <2>1. SlotsTypeOK' /\ PlacedThreads'
    BY <1>4 DEF SeeThread, SlotsTypeOK, PlacedThreads, Slot
  <2>2. RefcountIsThreads'
    BY <1>4, CountsCarryOver DEF SeeThread, RegisteredIn, ListenerHolds, Slot, SlotsTypeOK
  <2>. QED  BY <2>1, <2>2
<1>5. CASE Release
  <2>. DEFINE i == listener.slot
  <2>1. i \in Slots /\ ListenerHolds(i) = 1 /\ refcount[i] = Cardinality(RegisteredIn(i)) + 1
    BY <1>5 DEF Release, PlacedThreads, ListenerHolds, RefcountIsThreads
  <2>2. Cardinality(RegisteredIn(i)) \in Nat
    BY <2>1, FiniteRegistered
  <2>3. refcount'[i] = Cardinality(RegisteredIn(i))
    BY <1>5, <2>1, <2>2 DEF Release, SlotsTypeOK
  <2>4. SlotsTypeOK'
    BY <1>5, <2>1, <2>2 DEF Release, Accepting, SlotsTypeOK
  <2>5. PlacedThreads'
    BY <1>5 DEF Release, Accepting, PlacedThreads, Slot
  <2>6. ASSUME NEW j \in Slots
        PROVE  refcount'[j] = Cardinality(RegisteredIn(j)') + ListenerHolds(j)'
    <3>1. RegisteredIn(j)' = RegisteredIn(j) /\ ListenerHolds(j)' = 0
      BY <1>5 DEF Release, Accepting, RegisteredIn, ListenerHolds, Slot
    <3>2. j # i => refcount'[j] = refcount[j] /\ ListenerHolds(j) = 0
      BY <1>5 DEF Release, SlotsTypeOK, ListenerHolds
    <3>. QED  BY <2>2, <2>3, <3>1, <3>2, FiniteRegistered DEF RefcountIsThreads
  <2>. QED  BY <2>4, <2>5, <2>6 DEF RefcountIsThreads
<1>. QED  BY <1>1, <1>2, <1>3, <1>4, <1>5 DEF Listener

LEMMA ThreadStep ==
  ASSUME IInv, NEW t \in Threads, Thread(t)
  PROVE  IInv'
<1>. USE DEF IInv
<1>0. PICK i \in Slots : i = Slot(t)
  BY DEF Thread, Register, Fail, Close, Reset, Break, Unregister, Goes, PlacedThreads
<1>1. t[1] \in Connections /\ pc[t] # "unborn" /\ UNCHANGED <<listener, slotOf>>
  BY ThreadsOf DEF Thread, Register, Fail, Close, Reset, Break, Unregister, Goes
<1>2. PICK place \in Places \ {"unborn"} : pc' = [pc EXCEPT ![t] = place]
  BY DEF Thread, Register, Fail, Close, Reset, Break, Unregister, Goes, Places
<1>3. /\ pc' \in [Threads -> Places] /\ pc'[t] = place
      /\ \A u \in Threads : u # t => pc'[u] = pc[u]
  BY <1>2 DEF SlotsTypeOK
<1>4. PlacedThreads'
  <2>1. \A u \in Threads : pc'[u] = "unborn" <=> pc[u] = "unborn"
    BY <1>1, <1>2, <1>3
  <2>. QED  BY <1>1, <2>1, ThreadsOf DEF PlacedThreads, Slot, SlotsTypeOK
<1>5. \A j \in Slots : ListenerHolds(j)' = ListenerHolds(j) /\ ListenerHolds(j) \in Nat
  BY <1>1 DEF ListenerHolds
<1>6. CASE Register(t)
  <2>1. pc[t] = "born" /\ pc'[t] = "loop" /\ refcount' = [refcount EXCEPT ![i] = @ + 1]
    BY <1>0, <1>6 DEF Register, Goes, SlotsTypeOK
  <2>2. SlotsTypeOK'
    BY <1>1, <1>3, <1>6, <2>1 DEF Register, SlotsTypeOK
  <2>3. RegisteredIn(i)' = RegisteredIn(i) \cup {t} /\ t \notin RegisteredIn(i)
    BY <1>0, <1>1, <1>3, <2>1 DEF RegisteredIn, Registered, Slot
  <2>4. \A j \in Slots \ {i} : RegisteredIn(j)' = RegisteredIn(j)
    BY <1>0, <1>1, <1>3, <2>1 DEF RegisteredIn, Registered, Slot
  <2>5. Cardinality(RegisteredIn(i)') = Cardinality(RegisteredIn(i)) + 1
    BY <1>1, <2>3, FiniteRegistered, FS_AddElement
  <2>6. ASSUME NEW j \in Slots
        PROVE  refcount'[j] = Cardinality(RegisteredIn(j)') + ListenerHolds(j)'
    <3>1. refcount[j] = Cardinality(RegisteredIn(j)) + ListenerHolds(j)
      BY DEF RefcountIsThreads
    <3>2. refcount'[j] = IF j = i THEN refcount[j] + 1 ELSE refcount[j]
      BY <1>1, <2>1 DEF SlotsTypeOK
    <3>3. Cardinality(RegisteredIn(j)) \in Nat /\ ListenerHolds(j) \in Nat
      BY <1>5, FiniteRegistered
    <3>4. CASE j = i
      <4>1. Cardinality(RegisteredIn(j)') = Cardinality(RegisteredIn(j)) + 1
        BY <2>5, <3>4 DEF RegisteredIn
      <4>2. ListenerHolds(j)' = ListenerHolds(j)
        BY <1>5
      <4>. QED  BY <3>1, <3>2, <3>3, <3>4, <4>1, <4>2
    <3>5. CASE j # i
      BY <1>5, <2>4, <3>1, <3>2, <3>3, <3>5
    <3>. QED  BY <3>4, <3>5
  <2>. QED  BY <1>4, <2>2, <2>6 DEF RefcountIsThreads
<1>7. CASE Unregister(t)
  <2>1. pc[t] = "leaving" /\ pc'[t] = "done" /\ refcount' = [refcount EXCEPT ![i] = @ - 1]
    BY <1>0, <1>7 DEF Unregister, Goes, SlotsTypeOK
  <2>2. RegisteredIn(i)' = RegisteredIn(i) \ {t} /\ t \in RegisteredIn(i)
    BY <1>0, <1>1, <1>3, <2>1 DEF RegisteredIn, Registered, Slot
  <2>3. \A j \in Slots \ {i} : RegisteredIn(j)' = RegisteredIn(j)
    BY <1>0, <1>1, <1>3, <2>1 DEF RegisteredIn, Registered, Slot
  <2>4. /\ Cardinality(RegisteredIn(i)') = Cardinality(RegisteredIn(i)) - 1
        /\ Cardinality(RegisteredIn(i)') \in Nat
    <3>1. IsFiniteSet(RegisteredIn(i)')
      BY <1>1, <2>2, FiniteRegistered, FS_RemoveElement
    <3>. QED  BY <1>1, <2>2, <3>1, FiniteRegistered, FS_RemoveElement, FS_CardinalityType
  <2>5. ASSUME NEW j \in Slots
        PROVE  refcount'[j] = Cardinality(RegisteredIn(j)') + ListenerHolds(j)'
    <3>1. refcount[j] = Cardinality(RegisteredIn(j)) + ListenerHolds(j)
      BY DEF RefcountIsThreads
    <3>2. refcount'[j] = IF j = i THEN refcount[j] - 1 ELSE refcount[j]
      BY <1>1, <2>1 DEF SlotsTypeOK
    <3>3. Cardinality(RegisteredIn(j)) \in Nat /\ ListenerHolds(j) \in Nat
      BY <1>5, FiniteRegistered
    <3>4. CASE j = i
      <4>1. Cardinality(RegisteredIn(j)') = Cardinality(RegisteredIn(j)) - 1
        BY <2>4, <3>4 DEF RegisteredIn
      <4>2. ListenerHolds(j)' = ListenerHolds(j)
        BY <1>5
      <4>. QED  BY <3>1, <3>2, <3>3, <3>4, <4>1, <4>2
    <3>5. CASE j # i
      BY <1>5, <2>3, <3>1, <3>2, <3>3, <3>5
    <3>. QED  BY <3>4, <3>5
  <2>6. refcount'[i] \in Nat
    <3>1. refcount[i] = Cardinality(RegisteredIn(i)) + ListenerHolds(i)
      BY <1>1 DEF RefcountIsThreads
    <3>2. refcount'[i] = refcount[i] - 1 /\ ListenerHolds(i) \in Nat
      BY <1>1, <1>5, <2>1 DEF SlotsTypeOK
    <3>. QED  BY <1>1, <2>4, <3>1, <3>2, FiniteRegistered
  <2>7. SlotsTypeOK'
    BY <1>1, <1>3, <1>7, <2>1, <2>6 DEF Unregister, SlotsTypeOK
  <2>. QED  BY <1>4, <2>5, <2>7 DEF RefcountIsThreads
<1>8. CASE Fail(t) \/ Close(t) \/ Reset(t) \/ Break(t)
  <2>1. pc[t] \in Registered /\ pc'[t] \in Registered /\ refcount' = refcount
    BY <1>8 DEF Fail, Close, Reset, Break, Goes, Registered, SlotsTypeOK
  <2>2. SlotsTypeOK'
    BY <1>1, <1>3, <1>8, <2>1 DEF Fail, Close, Reset, Break, SlotsTypeOK
  <2>3. \A j \in Slots : RegisteredIn(j)' = RegisteredIn(j)
    BY <1>1, <1>3, <2>1 DEF RegisteredIn, Slot
  <2>4. RefcountIsThreads'
    BY <1>5, <2>1, <2>3, CountsCarryOver
  <2>. QED  BY <1>4, <2>2, <2>4
<1>. QED  BY <1>6, <1>7, <1>8 DEF Thread

LEMMA InitHolds == Init => IInv
<1>. SUFFICES ASSUME Init PROVE IInv
  OBVIOUS
<1>1. SlotsTypeOK
  BY DEF Init, Accepting, SlotsTypeOK, Places
<1>2. PlacedThreads
  BY ThreadsOf DEF Init, Accepting, PlacedThreads
<1>3. ASSUME NEW i \in Slots PROVE refcount[i] = Cardinality(RegisteredIn(i)) + ListenerHolds(i)
  <2>1. RegisteredIn(i) = {} /\ ListenerHolds(i) = 0 /\ refcount[i] = 0
    BY DEF Init, Accepting, RegisteredIn, Registered, ListenerHolds
  <2>. QED  BY <2>1, FS_EmptySet
<1>. QED  BY <1>1, <1>2, <1>3 DEF IInv, RefcountIsThreads

LEMMA NextStep ==
  ASSUME IInv, [Next]_vars
  PROVE  IInv'
<1>1. CASE UNCHANGED vars
  BY <1>1 DEF vars, IInv, SlotsTypeOK, PlacedThreads, Slot, RefcountIsThreads, RegisteredIn,
              ListenerHolds
<1>. QED  BY <1>1, ListenerStep, ThreadStep DEF Next

(* IInv holds in every reachable state.                                       *)
THEOREM Inductive == Spec => []IInv
  BY InitHolds, NextStep, PTL DEF Spec

(* The count of an entry is the number of its users, for any number of        *)
(* connections, entries and descriptors.                                      *)
THEOREM CountsAreRight == Spec => []RefcountIsThreads
  BY Inductive, PTL DEF IInv

(* Every variable keeps its type; put_starsystem never takes refcount below   *)
(* zero.                                                                      *)
THEOREM SlotsTypeCorrect == Spec => []SlotsTypeOK
  BY Inductive, PTL DEF IInv

-----------------------------------------------------------------------------
(* The listener that waits for ever.                                          *)

(* Threads get their entry when they are created.                             *)
UnbornHaveNone == \A t \in Threads : pc[t] = "unborn" => Slot(t) = Nobody

LEMMA UnbornNext ==
  ASSUME IInv, UnbornHaveNone, [Next]_vars
  PROVE  UnbornHaveNone'
<1>. USE DEF UnbornHaveNone, Slot
<1>1. CASE UNCHANGED <<pc, slotOf>>
  BY <1>1
<1>2. CASE Claim
  <2>1. pc \in [Threads -> Places] /\ slotOf \in [Connections -> Slots \cup {Nobody}]
    BY DEF IInv, SlotsTypeOK
  <2>2. ASSUME NEW t \in Threads, pc'[t] = "unborn" PROVE slotOf'[t[1]] = Nobody
    <3>1. t[1] # listener.conn /\ pc[t] = "unborn"
      BY <1>2, <2>2 DEF Claim
    <3>. QED  BY <1>2, <2>1, <3>1, ThreadsOf DEF Claim
  <2>. QED  BY <2>2
<1>3. ASSUME NEW t \in Threads, Thread(t) PROVE UnbornHaveNone'
  <2>1. pc \in [Threads -> Places]
    BY DEF IInv, SlotsTypeOK
  <2>2. slotOf' = slotOf /\ \E to \in Places \ {"unborn"} : pc' = [pc EXCEPT ![t] = to]
    BY <1>3 DEF Thread, Register, Fail, Close, Reset, Break, Unregister, Goes, Places
  <2>. QED  BY <2>1, <2>2
<1>. QED
  BY <1>1, <1>2, <1>3 DEF Next, Listener, Accept, TurnAway, SeeThread, Release, vars

LEMMA UnbornHolds == Spec => [](IInv /\ UnbornHaveNone)
<1>1. Init => UnbornHaveNone
  BY ThreadsOf DEF Init, UnbornHaveNone, Slot
<1>. QED  BY <1>1, InitHolds, NextStep, UnbornNext, PTL DEF Spec

(* The listener waits in vain only for threads that have all come and gone,   *)
(* between two of its looks at the count (service_connection).                *)
THEOREM DeafnessOnly == Spec => []OnlyDeafWaits
<1>1. ASSUME IInv, UnbornHaveNone, listener.at = "wait", NEW t \in Threads,
             Slot(t) = listener.slot, pc[t] # "done", pc[t] # "born"
      PROVE  refcount[listener.slot] >= 2
  <2>1. listener.slot \in Slots /\ pc[t] \in Places
    BY <1>1 DEF IInv, PlacedThreads, SlotsTypeOK
  <2>2. pc[t] # "unborn"
    BY <1>1, <2>1, SlotsAssumption DEF UnbornHaveNone
  <2>3. t \in RegisteredIn(listener.slot)
    BY <1>1, <2>1, <2>2 DEF RegisteredIn, Registered, Places
  <2>4. /\ IsFiniteSet(RegisteredIn(listener.slot))
        /\ Cardinality(RegisteredIn(listener.slot)) \in Nat
    BY <2>1, FiniteRegistered
  <2>5. Cardinality(RegisteredIn(listener.slot)) # 0
    BY <2>3, <2>4, FS_EmptySet
  <2>6. refcount[listener.slot] = Cardinality(RegisteredIn(listener.slot)) + 1
    BY <1>1, <2>1 DEF IInv, RefcountIsThreads, ListenerHolds
  <2>. QED  BY <2>4, <2>5, <2>6
<1>2. IInv /\ UnbornHaveNone => OnlyDeafWaits
  BY <1>1 DEF OnlyDeafWaits, Deaf
<1>. QED  BY UnbornHolds, <1>2, PTL

(* ... and then for ever, with no more connections accepted.                  *)
THEOREM DeafnessIsForGood == Spec => DeafForGood
<1>1. ASSUME IInv, Next, Deaf
      PROVE  Deaf'
  <2>1. /\ listener.at = "wait" /\ listener.slot \in Slots
        /\ pc \in [Threads -> Places] /\ refcount \in [Slots -> Nat]
    BY <1>1 DEF Deaf, IInv, PlacedThreads, SlotsTypeOK
  <2>2. RegisteredIn(listener.slot) = {}
    BY <1>1 DEF Deaf, RegisteredIn, Registered
  <2>3. refcount[listener.slot] = 1
    <3>1. Cardinality(RegisteredIn(listener.slot)) = 0
      BY <2>1, <2>2, FiniteRegistered, FS_EmptySet
    <3>2. ListenerHolds(listener.slot) = 1
      BY <2>1 DEF ListenerHolds
    <3>. QED  BY <1>1, <2>1, <3>1, <3>2 DEF IInv, RefcountIsThreads
  <2>4. PICK t \in Threads : Thread(t)
    BY <1>1, <2>1, <2>3 DEF Next, Listener, Accept, TurnAway, Claim, SeeThread, Release
  <2>5. UNCHANGED <<listener, slotOf>> /\ pc[t] # "done" /\ \E to : pc' = [pc EXCEPT ![t] = to]
    BY <2>4 DEF Thread, Register, Fail, Close, Reset, Break, Unregister, Goes
  <2>6. Slot(t) # listener.slot
    BY <1>1, <2>5 DEF Deaf
  <2>. QED  BY <1>1, <2>1, <2>5, <2>6 DEF Deaf, Slot
<1>2. IInv /\ [Next]_vars => [Deaf => Deaf']_vars
  BY <1>1
<1>. QED  BY Inductive, <1>2, PTL DEF Spec, DeafForGood

-----------------------------------------------------------------------------
(* Descriptors.  An open one is in an entry none of whose threads is about to *)
(* forget its socket: a thread that has closed a socket and whose number has  *)
(* been given out again is a thread of another entry.                         *)
Keeps(i, fd) ==
    /\ socket[i] = fd
    /\ refcount[i] > 0
    /\ \A t \in RegisteredIn(i) : pc[t] # "resetting"

OpenIsKept ==
    \A fd \in Descriptors :
        open[fd] # Nobody =>
            \/ listener.at = "claim" /\ listener.fd = fd
            \/ \E i \in Slots : Keeps(i, fd)

(* A thread leaves when its entry's socket is closed, and the listener goes   *)
(* when it has seen a thread: the last to go leaves no socket behind.         *)
LeavingIsClosed == \A t \in Threads : pc[t] = "leaving" => socket[Slot(t)] = Nobody
ReleasedIsInUse ==
    listener.at = "release" =>
        socket[listener.slot] = Nobody \/ RegisteredIn(listener.slot) # {}

DInv == IInv /\ OpenIsKept /\ LeavingIsClosed /\ ReleasedIsInUse

LEMMA NobodyIsNoDescriptor == Nobody \notin Descriptors
  BY SlotsAssumption

LEMMA RegisteredCounts ==
  ASSUME IInv, NEW i \in Slots, RegisteredIn(i) # {}
  PROVE  refcount[i] > 0 /\ (ListenerHolds(i) = 1 => refcount[i] > 1)
<1>1. Cardinality(RegisteredIn(i)) # 0 /\ Cardinality(RegisteredIn(i)) \in Nat
  BY FiniteRegistered, FS_EmptySet
<1>2. refcount[i] = Cardinality(RegisteredIn(i)) + ListenerHolds(i) /\ ListenerHolds(i) \in {0, 1}
  BY DEF IInv, RefcountIsThreads, ListenerHolds
<1>. QED  BY <1>1, <1>2

LEMMA ListenerKeeps ==
  ASSUME DInv, Listener \/ \E c \in Connections : Accept(c)
  PROVE  OpenIsKept' /\ LeavingIsClosed' /\ ReleasedIsInUse'
<1>. USE DEF DInv
<1>1. ASSUME NEW c \in Connections, Accept(c)
      PROVE  OpenIsKept' /\ LeavingIsClosed' /\ ReleasedIsInUse'
  <2>. DEFINE new == Lowest(Closed)
  <2>1. /\ listener'.at = "claim" /\ listener'.fd = new
        /\ UNCHANGED <<refcount, socket, pc, slotOf>>
        /\ listener.at = "accept"
        /\ open' = [open EXCEPT ![new] = c]
    BY <1>1 DEF Accept, Accepting
  <2>2. \A i \in Slots, fd \in Descriptors : Keeps(i, fd) => Keeps(i, fd)'
    BY <2>1 DEF Keeps, RegisteredIn, Slot
  <2>3. OpenIsKept'
    <3>. HIDE DEF new
    <3>1. \A fd \in Descriptors : fd # new => open'[fd] = open[fd]
      BY <2>1 DEF IInv, SlotsTypeOK
    <3>. QED  BY <2>1, <2>2, <3>1 DEF OpenIsKept
  <2>. QED  BY <2>1, <2>3 DEF LeavingIsClosed, ReleasedIsInUse, Slot
<1>2. CASE TurnAway
  <2>1. /\ listener' = Accepting /\ UNCHANGED <<refcount, socket, pc, slotOf>>
        /\ open' = [open EXCEPT ![listener.fd] = Nobody]
    BY <1>2 DEF TurnAway
  <2>2. \A i \in Slots, fd \in Descriptors : Keeps(i, fd) => Keeps(i, fd)'
    BY <2>1 DEF Keeps, RegisteredIn, Slot
  <2>3. \A fd \in Descriptors : open'[fd] # Nobody => open[fd] # Nobody /\ fd # listener.fd
    BY <2>1 DEF IInv, SlotsTypeOK
  <2>. QED
    BY <2>1, <2>2, <2>3 DEF OpenIsKept, LeavingIsClosed, ReleasedIsInUse, Accepting, Slot
<1>3. CASE Claim
  <2>. DEFINE i == Lowest(Reapable)
              c == listener.conn
  <2>1. i \in Slots /\ refcount[i] = 0
    <3>1. Reapable # {} /\ Reapable \subseteq Nat
      BY <1>3, SlotsAssumption DEF Claim, Reapable
    <3>2. i \in Reapable
      BY <3>1, LowestOf
    <3>. QED  BY <3>2 DEF Reapable
  <2>2. /\ refcount' = [refcount EXCEPT ![i] = 1]
        /\ socket' = [socket EXCEPT ![i] = listener.fd]
        /\ slotOf' = [slotOf EXCEPT ![c] = i]
        /\ listener' = [listener EXCEPT !.at = "wait", !.slot = i]
        /\ pc' = [t \in Threads |-> IF t[1] = c THEN "born" ELSE pc[t]]
        /\ open' = open
        /\ listener.at = "claim" /\ c \in Connections
        /\ pc[<<c, "reader">>] = "unborn" /\ pc[<<c, "writer">>] = "unborn"
    BY <1>3 DEF Claim, IInv, PlacedThreads
  <2>. HIDE DEF i, c
  <2>3. RegisteredIn(i) = {}
    BY <2>1, RegisteredCounts
  <2>4. /\ \A j \in Slots : RegisteredIn(j)' = RegisteredIn(j)
        /\ \A t \in Threads : pc'[t] \in Registered => pc'[t] = pc[t] /\ Slot(t)' = Slot(t)
    BY <2>2, ThreadsOf DEF RegisteredIn, Registered, Slot, IInv, SlotsTypeOK
  <2>5. /\ socket'[i] = listener.fd /\ refcount'[i] = 1
        /\ \A j \in Slots \ {i} : socket'[j] = socket[j] /\ refcount'[j] = refcount[j]
    BY <2>1, <2>2 DEF IInv, SlotsTypeOK
  <2>6. ASSUME NEW k \in Slots, k = i, NEW fd, fd = listener.fd PROVE Keeps(k, fd)'
    BY <2>6, <2>1, <2>2, <2>3, <2>4, <2>5 DEF Keeps
  <2>7. ASSUME NEW j \in Slots, NEW fd \in Descriptors, Keeps(j, fd) PROVE Keeps(j, fd)'
    <3>1. j # i
      BY <2>1, <2>7 DEF Keeps
    <3>. QED  BY <2>4, <2>5, <2>7, <3>1 DEF Keeps, RegisteredIn
  <2>8. OpenIsKept'
    BY <2>1, <2>2, <2>6, <2>7 DEF OpenIsKept
  <2>9. LeavingIsClosed'
    <3>. SUFFICES ASSUME NEW t \in Threads, pc'[t] = "leaving" PROVE socket'[Slot(t)'] = Nobody
      BY DEF LeavingIsClosed
    <3>1. pc[t] = "leaving" /\ Slot(t)' = Slot(t) /\ Slot(t) \in Slots
      BY <2>4 DEF Registered, IInv, PlacedThreads
    <3>2. Slot(t) # i
      BY <2>3, <3>1 DEF RegisteredIn, Registered
    <3>. QED  BY <2>5, <3>1, <3>2 DEF LeavingIsClosed
  <2>10. ReleasedIsInUse'
    BY <2>2 DEF ReleasedIsInUse, IInv, SlotsTypeOK
  <2>. QED  BY <2>8, <2>9, <2>10
<1>4. CASE SeeThread
  <2>. DEFINE i == listener.slot
  <2>1. /\ listener' = [listener EXCEPT !.at = "release"] /\ listener.at = "wait"
        /\ UNCHANGED <<refcount, socket, open, pc, slotOf>>
        /\ i \in Slots /\ refcount[i] >= 2
    BY <1>4 DEF SeeThread, IInv, PlacedThreads
  <2>2. RegisteredIn(i) # {}
    <3>1. refcount[i] = Cardinality(RegisteredIn(i)) + 1
      BY <2>1 DEF IInv, RefcountIsThreads, ListenerHolds
    <3>2. Cardinality(RegisteredIn(i)) # 0
      BY <2>1, <3>1
    <3>. QED  BY <3>2, FS_EmptySet
  <2>3. listener'.at = "release" /\ listener'.slot = i /\ RegisteredIn(i)' = RegisteredIn(i)
    BY <2>1 DEF IInv, SlotsTypeOK, RegisteredIn, Slot
  <2>4. ReleasedIsInUse'
    BY <2>2, <2>3 DEF ReleasedIsInUse, RegisteredIn
  <2>5. OpenIsKept' /\ LeavingIsClosed'
    BY <2>1, <2>3 DEF OpenIsKept, LeavingIsClosed, Keeps, RegisteredIn, Slot
  <2>. QED  BY <2>4, <2>5
<1>5. CASE Release
  <2>. DEFINE i == listener.slot
  <2>1. /\ listener' = Accepting /\ listener.at = "release" /\ i \in Slots
        /\ UNCHANGED <<socket, open, pc, slotOf>>
        /\ refcount' = [refcount EXCEPT ![i] = @ - 1]
    BY <1>5 DEF Release, IInv, PlacedThreads
  <2>2. \A j \in Slots : RegisteredIn(j)' = RegisteredIn(j)
    BY <2>1 DEF RegisteredIn, Slot
  <2>3. ASSUME NEW j \in Slots, NEW fd \in Descriptors, Keeps(j, fd) PROVE Keeps(j, fd)'
    <3>1. CASE j # i
      BY <2>1, <2>2, <2>3, <3>1 DEF Keeps, RegisteredIn, IInv, SlotsTypeOK
    <3>2. CASE j = i
      <4>1. RegisteredIn(i) # {}
        BY <2>1, <2>3, <3>2, NobodyIsNoDescriptor DEF ReleasedIsInUse, Keeps
      <4>2. refcount[i] > 1
        BY <2>1, <4>1, RegisteredCounts DEF ListenerHolds
      <4>3. refcount'[i] > 0
        BY <2>1, <4>2 DEF IInv, SlotsTypeOK
      <4>. QED  BY <2>1, <2>2, <2>3, <3>2, <4>3 DEF Keeps, RegisteredIn
    <3>. QED  BY <3>1, <3>2
  <2>4. OpenIsKept'
    BY <2>1, <2>3 DEF OpenIsKept
  <2>. QED  BY <2>1, <2>4 DEF LeavingIsClosed, ReleasedIsInUse, Accepting, Slot
<1>. QED  BY <1>1, <1>2, <1>3, <1>4, <1>5 DEF Listener

LEMMA ThreadKeeps ==
  ASSUME DInv, NEW t \in Threads, Thread(t)
  PROVE  OpenIsKept' /\ LeavingIsClosed' /\ ReleasedIsInUse'
<1>. USE DEF DInv
<1>. DEFINE i == Slot(t)
<1>1. i \in Slots /\ UNCHANGED <<listener, slotOf>>
  BY DEF Thread, Register, Fail, Close, Reset, Break, Unregister, Goes, IInv, PlacedThreads
<1>2. \A u \in Threads : u # t => pc'[u] = pc[u]
  BY DEF Thread, Register, Fail, Close, Reset, Break, Unregister, Goes, IInv, SlotsTypeOK
<1>3. \A u \in Threads : Slot(u)' = Slot(u)
  BY <1>1 DEF Slot
<1>4. \A j \in Slots \ {i} : RegisteredIn(j)' = RegisteredIn(j)
  BY <1>2, <1>3 DEF RegisteredIn
<1>5. ASSUME NEW j \in Slots \ {i}, NEW fd \in Descriptors, Keeps(j, fd),
             socket'[j] = socket[j], refcount'[j] = refcount[j]
      PROVE  Keeps(j, fd)'
  BY <1>2, <1>4, <1>5 DEF Keeps, RegisteredIn
<1>6. CASE Register(t) \/ Fail(t) \/ Break(t)
  <2>1. /\ UNCHANGED <<socket, open>>
        /\ pc'[t] \in {"loop", "closing", "leaving"} /\ pc[t] # "leaving"
        /\ pc'[t] = "leaving" => socket[i] = Nobody
    BY <1>6 DEF Register, Fail, Break, Goes, IInv, SlotsTypeOK
  <2>2. \A j \in Slots : refcount[j] > 0 => refcount'[j] > 0
    BY <1>6 DEF Register, Fail, Break, IInv, SlotsTypeOK
  <2>3. \A j \in Slots, fd \in Descriptors : Keeps(j, fd) => Keeps(j, fd)'
    BY <1>2, <1>3, <2>1, <2>2 DEF Keeps, RegisteredIn
  <2>4. \A j \in Slots : RegisteredIn(j) \subseteq RegisteredIn(j)'
    BY <1>2, <1>3, <2>1 DEF RegisteredIn, Registered
  <2>5. OpenIsKept'
    BY <1>1, <2>1, <2>3 DEF OpenIsKept
  <2>6. LeavingIsClosed'
    BY <1>2, <1>3, <2>1 DEF LeavingIsClosed
  <2>7. ReleasedIsInUse'
    BY <1>1, <2>1, <2>4 DEF ReleasedIsInUse, IInv, PlacedThreads, RegisteredIn
  <2>. QED  BY <2>5, <2>6, <2>7
<1>7. CASE Close(t)
  <2>1. /\ UNCHANGED <<refcount, socket>> /\ pc[t] = "closing" /\ pc'[t] = "resetting"
        /\ \A fd \in Descriptors : open'[fd] # Nobody => open[fd] # Nobody /\ fd # socket[i]
    BY <1>7 DEF Close, Goes, IInv, SlotsTypeOK
  <2>2. ASSUME NEW fd \in Descriptors, open'[fd] # Nobody, NEW j \in Slots, Keeps(j, fd)
        PROVE  Keeps(j, fd)'
    BY <1>5, <2>1, <2>2 DEF Keeps
  <2>3. OpenIsKept'
    BY <1>1, <2>1, <2>2 DEF OpenIsKept
  <2>4. LeavingIsClosed'
    BY <1>2, <1>3, <2>1 DEF LeavingIsClosed
  <2>5. \A j \in Slots : RegisteredIn(j) \subseteq RegisteredIn(j)'
    BY <1>2, <1>3, <2>1 DEF RegisteredIn, Registered
  <2>6. ReleasedIsInUse'
    BY <1>1, <2>1, <2>5 DEF ReleasedIsInUse, IInv, PlacedThreads, RegisteredIn
  <2>. QED  BY <2>3, <2>4, <2>6
<1>8. CASE Reset(t)
  <2>1. /\ UNCHANGED <<refcount, open>> /\ pc[t] = "resetting" /\ pc'[t] = "loop"
        /\ socket'[i] = Nobody /\ \A j \in Slots \ {i} : socket'[j] = socket[j]
    BY <1>1, <1>8 DEF Reset, Goes, IInv, SlotsTypeOK
  <2>2. ASSUME NEW fd \in Descriptors, NEW j \in Slots, Keeps(j, fd)
        PROVE  Keeps(j, fd)'
    <3>1. t \in RegisteredIn(i)
      BY <2>1 DEF RegisteredIn, Registered
    <3>2. j # i
      BY <2>1, <2>2, <3>1 DEF Keeps
    <3>. QED  BY <1>5, <2>1, <2>2, <3>2
  <2>3. OpenIsKept'
    BY <1>1, <2>1, <2>2 DEF OpenIsKept
  <2>4. LeavingIsClosed'
    BY <1>2, <1>3, <2>1 DEF LeavingIsClosed, IInv, PlacedThreads
  <2>5. \A j \in Slots : RegisteredIn(j) \subseteq RegisteredIn(j)'
    BY <1>2, <1>3, <2>1 DEF RegisteredIn, Registered
  <2>6. ReleasedIsInUse'
    BY <1>1, <2>1, <2>5 DEF ReleasedIsInUse, IInv, PlacedThreads, RegisteredIn
  <2>. QED  BY <2>3, <2>4, <2>6
<1>9. CASE Unregister(t)
  <2>1. /\ UNCHANGED <<socket, open>> /\ pc[t] = "leaving" /\ pc'[t] = "done"
        /\ socket[i] = Nobody
        /\ \A j \in Slots \ {i} : refcount'[j] = refcount[j]
    BY <1>9 DEF Unregister, Goes, LeavingIsClosed, IInv, SlotsTypeOK
  <2>2. ASSUME NEW fd \in Descriptors, NEW j \in Slots, Keeps(j, fd)
        PROVE  Keeps(j, fd)'
    <3>1. j # i
      BY <2>1, <2>2, NobodyIsNoDescriptor DEF Keeps
    <3>. QED  BY <1>5, <2>1, <2>2, <3>1
  <2>3. OpenIsKept'
    BY <1>1, <2>1, <2>2 DEF OpenIsKept
  <2>4. LeavingIsClosed'
    BY <1>2, <1>3, <2>1 DEF LeavingIsClosed
  <2>5. ReleasedIsInUse'
    BY <1>1, <1>4, <2>1 DEF ReleasedIsInUse, IInv, PlacedThreads, RegisteredIn
  <2>. QED  BY <2>3, <2>4, <2>5
<1>. QED  BY <1>6, <1>7, <1>8, <1>9 DEF Thread

LEMMA DNext == DInv /\ [Next]_vars => DInv'
<1>. SUFFICES ASSUME DInv, [Next]_vars PROVE DInv'
  OBVIOUS
<1>1. IInv'
  BY NextStep DEF DInv
<1>2. CASE UNCHANGED vars
  BY <1>1, <1>2 DEF vars, DInv, OpenIsKept, LeavingIsClosed, ReleasedIsInUse, Keeps, RegisteredIn, Slot
<1>. QED  BY <1>1, <1>2, ListenerKeeps, ThreadKeeps DEF Next, DInv

(* No descriptor is forgotten, whatever number accept hands out again while   *)
(* threads are closing and forgetting others.                                 *)
THEOREM NothingLeaks == Spec => []NoDescriptorLeak
<1>1. Init => DInv
  BY InitHolds DEF Init, Accepting, DInv, OpenIsKept, LeavingIsClosed, ReleasedIsInUse
<1>2. DInv => NoDescriptorLeak
  BY DEF DInv, OpenIsKept, Keeps, NoDescriptorLeak
<1>. QED  BY <1>1, <1>2, DNext, PTL DEF Spec

-----------------------------------------------------------------------------
(* The wrangler.                                                              *)
LEMMA WranglerConstants ==
    /\ NSystems \in Nat /\ NSystems >= 1 /\ NEntries \in Nat /\ Countdown \in Nat
    /\ Lag \in Nat /\ Lag >= 1
    /\ Countdown > 2 * Lag /\ Systems = 1 .. NSystems /\ Entries = 1 .. NEntries
    /\ Nothing \notin Systems /\ Nothing \notin Fds
  BY WranglerAssumption DEF Systems, Entries

LEMMA LeastEntry ==
    ASSUME NEW S, S \subseteq Entries, S # {}
    PROVE  \E m \in S : \A n \in S : m <= n
<1>1. S \subseteq Nat
  BY WranglerConstants
<1> QED BY <1>1, LeastOf

(* service_connection finds a free entry if there is one, and the wrangler an *)
(* entry of the system's name.                                                *)
LEMMA FirstFreeIsFree ==
    ASSUME \E i \in Entries : slot[i].use = "free"
    PROVE  FirstFree \in Entries /\ slot[FirstFree].use = "free"
<1> DEFINE S == {i \in Entries : slot[i].use = "free"}
<1>1. PICK m \in S : \A n \in S : m <= n
  <2>1. S \subseteq Entries /\ S # {}
    OBVIOUS
  <2> HIDE DEF S
  <2> QED BY <2>1, LeastEntry
<1>2. ASSUME NEW j \in 1 .. m - 1 PROVE slot[j].use # "free"
  <2>1. j \in Entries /\ ~(m <= j)
    BY WranglerConstants
  <2> QED BY <1>1, <2>1
<1>3. \E i \in Entries : slot[i].use = "free" /\ \A j \in 1 .. i - 1 : slot[j].use # "free"
  BY <1>2
<1> QED BY <1>3 DEF FirstFree

LEMMA EntryIsKnown ==
    ASSUME NEW s, Known(s) # {}
    PROVE  Entry(s) \in Entries /\ slot[Entry(s)].name = s
<1>1. Known(s) \subseteq Entries
  BY DEF Known
<1>2. \E i \in Known(s) : \A j \in Known(s) : i <= j
  BY <1>1, LeastEntry
<1>3. Entry(s) \in Known(s)
  BY <1>2 DEF Entry
<1> QED BY <1>3 DEF Known

-----------------------------------------------------------------------------
(* The invariant.  The server of a system has one connection at most, in an   *)
(* entry of its name; ...                                                     *)

LiveIsConnected ==
    \A i \in Entries : slot[i].use = "live" =>
        /\ slot[i].fd \in Fds /\ slot[i].name \in Systems
        /\ peer[slot[i].fd] = slot[i].name

OneConnectionEach ==
    /\ \A d, e \in Fds : peer[d] = peer[e] /\ peer[d] # Nothing => d = e
    /\ \A i, j \in Entries :
          slot[i].use = "live" /\ slot[j].use = "live" /\ slot[i].fd = slot[j].fd => i = j

AboardIsCrew == \A s \in Systems : aboard[s] > 0 => crew[s]

(* ... and while it has a crew, a count of none may be under way, sent before *)
(* they came, or a count of them is awaited, or one has come, after which the *)
(* wrangler cannot have counted down for longer than it waits for counts.     *)

(* How often the wrangler has looked at entry i since a count came through.   *)
LooksAt(i) == quiet[i] + IF pass \in 1 .. slot[i].name THEN 0 ELSE 1
Fresh(i) == slot[i].countdown = -1 \/ slot[i].countdown >= Countdown - LooksAt(i)

Reported(i) ==
    LET s == slot[i].name IN
    \/ report[s] = 0 /\ aboard[s] <= quiet[i]
    \/ report[s] # 0 /\ aboard[s] <= Lag + quiet[i]
    \/ report[s] # 0 /\ Fresh(i)

CrewIsReported ==
    \A i \in Entries : slot[i].use = "live" /\ crew[slot[i].name] => Reported(i)

WranglerInvariant ==
    WranglerTypeOK /\ LiveIsConnected /\ OneConnectionEach /\ AboardIsCrew /\ CrewIsReported

LEMMA WranglerInvariantInit == WranglerInit => WranglerInvariant
<1> SUFFICES ASSUME WranglerInit PROVE WranglerInvariant
  OBVIOUS
<1> USE WranglerConstants DEF WranglerInit
<1>1. WranglerTypeOK
  BY DEF WranglerTypeOK, None
<1>2. LiveIsConnected /\ OneConnectionEach /\ AboardIsCrew /\ CrewIsReported
  BY DEF LiveIsConnected, OneConnectionEach, AboardIsCrew, CrewIsReported
<1> QED BY <1>1, <1>2 DEF WranglerInvariant

(* Types.                                                                     *)
UsesOf == {"free", "live", "closed", "reset"}
SlotsOf == [name : Systems \cup {Nothing}, fd : Fds \cup {Nothing}, use : UsesOf,
            countdown : -1 .. Countdown]

LEMMA SlotTypes ==
    ASSUME WranglerTypeOK, NEW i \in Entries
    PROVE  /\ slot[i] \in SlotsOf /\ slot[i].name \in Systems \cup {Nothing}
           /\ slot[i].fd \in Fds \cup {Nothing} /\ slot[i].use \in UsesOf
           /\ slot[i].countdown \in -1 .. Countdown /\ quiet[i] \in 0 .. Lag
  BY DEF WranglerTypeOK, SlotsOf, UsesOf

LEMMA WranglerTypeNext ==
    ASSUME WranglerTypeOK, LiveIsConnected, [WranglerNext]_wranglerVars
    PROVE  WranglerTypeOK'
<1> USE DEF multiverseVars, serverVars
<1>t. /\ slot \in [Entries -> SlotsOf]
      /\ peer \in [Fds -> Systems \cup {Nothing}] /\ quiet \in [Entries -> 0 .. Lag]
      /\ pass \in 0 .. NSystems /\ wanted \subseteq Systems
      /\ starting \in [Systems -> BOOLEAN] /\ lock \in [Systems -> BOOLEAN]
      /\ running \in [Systems -> BOOLEAN] /\ crew \in [Systems -> BOOLEAN]
      /\ doomed \in [Systems -> BOOLEAN] /\ wrong \in [Systems -> BOOLEAN]
      /\ report \in [Systems -> {-1, 0, 1}] /\ aboard \in [Systems -> 0 .. 2 * Lag + 1]
  BY DEF WranglerTypeOK, SlotsOf, UsesOf
<1>i. ASSUME /\ (slot \in [Entries -> SlotsOf])'
             /\ (peer \in [Fds -> Systems \cup {Nothing}] /\ quiet \in [Entries -> 0 .. Lag])'
             /\ (pass \in 0 .. NSystems /\ wanted \subseteq Systems)'
             /\ (starting \in [Systems -> BOOLEAN] /\ lock \in [Systems -> BOOLEAN])'
             /\ (running \in [Systems -> BOOLEAN] /\ crew \in [Systems -> BOOLEAN])'
             /\ (doomed \in [Systems -> BOOLEAN] /\ wrong \in [Systems -> BOOLEAN])'
             /\ (report \in [Systems -> {-1, 0, 1}] /\ aboard \in [Systems -> 0 .. 2 * Lag + 1])'
      PROVE  WranglerTypeOK'
  BY <1>i DEF WranglerTypeOK, SlotsOf, UsesOf
<1>1. ASSUME NEW s \in Systems, ServerStarts(s) PROVE WranglerTypeOK'
  BY <1>1, <1>t, <1>i DEF ServerStarts
<1>2. ASSUME NEW s \in Systems, NEW clean \in BOOLEAN, ServerEnds(s, clean) PROVE WranglerTypeOK'
  <2>1. 0 \in 0 .. 2 * Lag + 1
    BY WranglerConstants
  <2> QED BY <1>2, <1>t, <1>i, <2>1 DEF ServerEnds
<1>3. ASSUME NEW s \in Systems, CrewComes(s) PROVE WranglerTypeOK'
  BY <1>3, <1>t, <1>i DEF CrewComes
<1>4. ASSUME NEW s \in Systems, CrewLeaves(s) PROVE WranglerTypeOK'
  <2>1. 0 \in 0 .. 2 * Lag + 1
    BY WranglerConstants
  <2> QED BY <1>4, <1>t, <1>i, <2>1 DEF CrewLeaves
<1>5. ASSUME NEW s \in Systems, SendsCount(s) PROVE WranglerTypeOK'
  BY <1>5, <1>t, <1>i DEF SendsCount
<1>6. ASSUME NEW s \in Systems, NEW d \in Fds, Connects(s, d) PROVE WranglerTypeOK'
  <2>1. [name |-> s, fd |-> d, use |-> "live", countdown |-> -1] \in SlotsOf
    BY WranglerConstants DEF SlotsOf, UsesOf
  <2>2. 0 \in 0 .. Lag
    BY WranglerConstants
  <2> QED BY <1>6, <1>t, <1>i, <2>1, <2>2 DEF Connects
<1>7. ASSUME NEW i \in Entries, Closes(i) PROVE WranglerTypeOK'
  <2>1. slot' \in [Entries -> SlotsOf]
    BY <1>7, <1>t DEF Closes, SlotsOf, UsesOf
  <2> QED BY <1>7, <1>t, <1>i, <2>1 DEF Closes
<1>8. ASSUME NEW i \in Entries, Resets(i) PROVE WranglerTypeOK'
  <2>1. slot' \in [Entries -> SlotsOf]
    BY <1>8, <1>t DEF Resets, SlotsOf, UsesOf
  <2> QED BY <1>8, <1>t, <1>i, <2>1 DEF Resets
<1>9. ASSUME NEW i \in Entries, Frees(i) PROVE WranglerTypeOK'
  <2>1. slot' \in [Entries -> SlotsOf]
    BY <1>9, <1>t DEF Frees, SlotsOf, UsesOf
  <2> QED BY <1>9, <1>t, <1>i, <2>1 DEF Frees
<1>10. ASSUME NEW i \in Entries, CountArrives(i) PROVE WranglerTypeOK'
  <2>1. slot' \in [Entries -> SlotsOf]
    <3>1. CountdownAfter(i, report[slot[i].name]) \in -1 .. Countdown
      <4>1. slot[i].countdown \in -1 .. Countdown /\ -1 \in -1 .. Countdown
        BY SlotTypes, WranglerConstants
      <4> QED BY <4>1 DEF CountdownAfter
    <3> QED BY <1>10, <1>t, <3>1 DEF CountArrives, SlotsOf
  <2>2. 0 \in 0 .. Lag
    BY WranglerConstants
  <2> QED BY <1>10, <1>t, <1>i, <2>1, <2>2 DEF CountArrives
<1>11. ASSUME NEW S \in SUBSET Systems, BeginPass(S) PROVE WranglerTypeOK'
  <2>1. quiet' \in [Entries -> 0 .. Lag]
    <3>1. \A i \in Entries : slot[i].use = "live" => quiet[i] + 1 \in 0 .. Lag
      BY <1>11, <1>t, WranglerConstants DEF BeginPass
    <3>2. 0 \in 0 .. Lag
      BY WranglerConstants
    <3> QED BY <1>11, <3>1, <3>2 DEF BeginPass
  <2>2. aboard' \in [Systems -> 0 .. 2 * Lag + 1]
    <3>1. \A s \in Systems : aboard[s] <= 2 * Lag => aboard[s] + 1 \in 0 .. 2 * Lag + 1
      BY <1>t, WranglerConstants
    <3> QED BY <1>11, <1>t, <3>1 DEF BeginPass
  <2>3. pass' \in 0 .. NSystems
    BY <1>11, WranglerConstants DEF BeginPass
  <2> QED BY <1>11, <1>t, <1>i, <2>1, <2>2, <2>3 DEF BeginPass
<1>o. ASSUME Onward PROVE pass' \in 0 .. NSystems
  BY <1>o, <1>t, WranglerConstants DEF Onward
<1>12. CASE MaybeStartup
  <2>1. starting' \in [Systems -> BOOLEAN]
    BY <1>12, <1>t DEF MaybeStartup
  <2> QED BY <1>12, <1>t, <1>i, <1>o, <2>1 DEF MaybeStartup
<1>13. CASE NotStopped
  BY <1>13, <1>t, <1>i, <1>o DEF NotStopped
<1>14. CASE MaybeShutdown
  <2> DEFINE e == Entry(pass)
             start == IF slot[e].countdown = -1 THEN Countdown ELSE slot[e].countdown
             left == IF start > 0 THEN start - 1 ELSE start
  <2>1. e \in Entries
    BY <1>14, EntryIsKnown DEF MaybeShutdown, Stoppable, HasSocket
  <2>2. left \in -1 .. Countdown
    BY <2>1, SlotTypes, WranglerConstants
  <2>3. slot' = [slot EXCEPT ![e].countdown = left]
    BY <1>14 DEF MaybeShutdown
  <2> HIDE DEF e, left, start
  <2>4. slot' \in [Entries -> SlotsOf]
    <3>1. [slot[e] EXCEPT !.countdown = left] \in SlotsOf
      BY <1>t, <2>1, <2>2 DEF SlotsOf
    <3>2. slot' = [slot EXCEPT ![e] = [slot[e] EXCEPT !.countdown = left]]
      BY <2>3
    <3> QED BY <1>t, <2>1, <3>1, <3>2
  <2>5. doomed' \in [Systems -> BOOLEAN] /\ wrong' \in [Systems -> BOOLEAN]
    BY <1>14, <1>t DEF MaybeShutdown
  <2>6. Onward /\ UNCHANGED <<peer, quiet, wanted, serverVars>>
    BY <1>14 DEF MaybeShutdown
  <2> QED BY <1>t, <1>i, <1>o, <2>4, <2>5, <2>6
<1>15. CASE UNCHANGED wranglerVars
  BY <1>15, <1>t, <1>i DEF wranglerVars
<1> QED BY <1>1, <1>2, <1>3, <1>4, <1>5, <1>6, <1>7, <1>8, <1>9, <1>10, <1>11, <1>12, <1>13, <1>14,
           <1>15 DEF WranglerNext

(* Connections.                                                               *)
LEMMA ConnectionsNext ==
    ASSUME WranglerTypeOK, LiveIsConnected, OneConnectionEach, [WranglerNext]_wranglerVars
    PROVE  LiveIsConnected' /\ OneConnectionEach'
<1> USE DEF multiverseVars, serverVars
<1>t. /\ slot \in [Entries -> SlotsOf] /\ peer \in [Fds -> Systems \cup {Nothing}]
  BY DEF WranglerTypeOK, SlotsOf, UsesOf
<1>k. ASSUME peer' = peer, slot' \in [Entries -> SlotsOf],
             \A i \in Entries : slot'[i].use = "live" =>
                slot[i].use = "live" /\ slot'[i].name = slot[i].name /\ slot'[i].fd = slot[i].fd
      PROVE  LiveIsConnected' /\ OneConnectionEach'
  BY <1>k DEF LiveIsConnected, OneConnectionEach
<1>s. ASSUME UNCHANGED <<slot, peer>> PROVE LiveIsConnected' /\ OneConnectionEach'
  BY <1>s DEF LiveIsConnected, OneConnectionEach
<1>1. ASSUME NEW s \in Systems, ServerStarts(s) PROVE LiveIsConnected' /\ OneConnectionEach'
  BY <1>1, <1>s DEF ServerStarts
<1>2. ASSUME NEW s \in Systems, NEW clean \in BOOLEAN, ServerEnds(s, clean)
      PROVE  LiveIsConnected' /\ OneConnectionEach'
  BY <1>2, <1>s DEF ServerEnds
<1>3. ASSUME NEW s \in Systems, CrewComes(s) PROVE LiveIsConnected' /\ OneConnectionEach'
  BY <1>3, <1>s DEF CrewComes
<1>4. ASSUME NEW s \in Systems, CrewLeaves(s) PROVE LiveIsConnected' /\ OneConnectionEach'
  BY <1>4, <1>s DEF CrewLeaves
<1>5. ASSUME NEW s \in Systems, SendsCount(s) PROVE LiveIsConnected' /\ OneConnectionEach'
  BY <1>5, <1>s DEF SendsCount
<1>6. ASSUME NEW s \in Systems, NEW d \in Fds, Connects(s, d)
      PROVE  LiveIsConnected' /\ OneConnectionEach'
  <2> DEFINE f == FirstFree
  <2>1. f \in Entries /\ slot[f].use = "free"
    BY <1>6, FirstFreeIsFree DEF Connects
  <2>2. /\ slot' = [slot EXCEPT ![f] = [name |-> s, fd |-> d, use |-> "live", countdown |-> -1]]
        /\ peer' = [peer EXCEPT ![d] = s] /\ peer[d] = Nothing /\ \A e \in Fds : peer[e] # s
    BY <1>6 DEF Connects, Connected
  <2> HIDE DEF f
  <2>3. \A i \in Entries : slot[i].use = "live" => slot[i].fd # d
    BY <2>2, WranglerConstants DEF LiveIsConnected
  <2>4. /\ slot'[f] = [name |-> s, fd |-> d, use |-> "live", countdown |-> -1]
        /\ \A i \in Entries \ {f} : slot'[i] = slot[i]
        /\ peer'[d] = s /\ \A e \in Fds \ {d} : peer'[e] = peer[e]
    BY <1>t, <2>1, <2>2
  <2>5. LiveIsConnected'
    BY <2>1, <2>3, <2>4 DEF LiveIsConnected
  <2>6. OneConnectionEach'
    BY <2>1, <2>2, <2>3, <2>4 DEF OneConnectionEach
  <2> QED BY <2>5, <2>6
<1>7. ASSUME NEW i \in Entries, Closes(i) PROVE LiveIsConnected' /\ OneConnectionEach'
  <2> DEFINE d == slot[i].fd
  <2>1. d \in Fds /\ slot[i].use = "live"
    BY <1>7 DEF Closes, LiveIsConnected
  <2>2. /\ slot'[i].use = "closed" /\ \A j \in Entries \ {i} : slot'[j] = slot[j]
        /\ peer'[d] = Nothing /\ \A e \in Fds \ {d} : peer'[e] = peer[e]
    BY <1>7, <1>t, <2>1 DEF Closes, SlotsOf
  <2>3. \A j \in Entries \ {i} : slot[j].use = "live" => slot[j].fd # d
    BY <2>1 DEF OneConnectionEach
  <2> HIDE DEF d
  <2>4. LiveIsConnected'
    BY <2>2, <2>3 DEF LiveIsConnected
  <2>5. OneConnectionEach'
    BY <2>1, <2>2, <2>3 DEF OneConnectionEach
  <2> QED BY <2>4, <2>5
<1>8. ASSUME NEW i \in Entries, Resets(i) PROVE LiveIsConnected' /\ OneConnectionEach'
  <2>1. slot' \in [Entries -> SlotsOf] /\ peer' = peer
    BY <1>8, <1>t DEF Resets, SlotsOf, UsesOf
  <2>2. slot'[i].use # "live" /\ \A j \in Entries \ {i} : slot'[j] = slot[j]
    BY <1>8, <1>t DEF Resets, SlotsOf
  <2> QED BY <1>k, <2>1, <2>2
<1>9. ASSUME NEW i \in Entries, Frees(i) PROVE LiveIsConnected' /\ OneConnectionEach'
  <2>1. slot' \in [Entries -> SlotsOf] /\ peer' = peer
    BY <1>9, <1>t DEF Frees, SlotsOf, UsesOf
  <2>2. slot'[i].use # "live" /\ \A j \in Entries \ {i} : slot'[j] = slot[j]
    BY <1>9, <1>t DEF Frees, SlotsOf
  <2> QED BY <1>k, <2>1, <2>2
<1>c. ASSUME NEW i \in Entries, NEW n, slot' = [slot EXCEPT ![i].countdown = n], peer' = peer, WranglerTypeOK'
      PROVE  LiveIsConnected' /\ OneConnectionEach'
  <2>1. slot' \in [Entries -> SlotsOf]
    BY <1>c DEF WranglerTypeOK, SlotsOf, UsesOf
  <2>2. \A j \in Entries : slot'[j].use = slot[j].use /\ slot'[j].name = slot[j].name /\ slot'[j].fd = slot[j].fd
    BY <1>c, <1>t DEF SlotsOf
  <2> QED BY <1>c, <1>k, <2>1, <2>2
<1>0. WranglerTypeOK'
  BY WranglerTypeNext
<1>10. ASSUME NEW i \in Entries, CountArrives(i) PROVE LiveIsConnected' /\ OneConnectionEach'
  BY <1>0, <1>10, <1>c DEF CountArrives
<1>11. ASSUME NEW S \in SUBSET Systems, BeginPass(S) PROVE LiveIsConnected' /\ OneConnectionEach'
  BY <1>11, <1>s DEF BeginPass
<1>12. CASE MaybeStartup
  BY <1>12, <1>s DEF MaybeStartup
<1>13. CASE NotStopped
  BY <1>13, <1>s DEF NotStopped
<1>14. CASE MaybeShutdown
  <2>1. Entry(pass) \in Entries
    BY <1>14, EntryIsKnown DEF MaybeShutdown, Stoppable, HasSocket
  <2>2. \E n : slot' = [slot EXCEPT ![Entry(pass)].countdown = n]
    BY <1>14 DEF MaybeShutdown
  <2>3. peer' = peer
    BY <1>14 DEF MaybeShutdown
  <2> QED BY <1>0, <1>c, <2>1, <2>2, <2>3
<1>15. CASE UNCHANGED wranglerVars
  BY <1>15, <1>s DEF wranglerVars
<1> QED BY <1>1, <1>2, <1>3, <1>4, <1>5, <1>6, <1>7, <1>8, <1>9, <1>10, <1>11, <1>12, <1>13, <1>14,
           <1>15 DEF WranglerNext

(* Crews.                                                                     *)
LEMMA AboardNext ==
    ASSUME WranglerTypeOK, AboardIsCrew, [WranglerNext]_wranglerVars
    PROVE  AboardIsCrew'
<1> USE DEF multiverseVars, serverVars
<1>t. crew \in [Systems -> BOOLEAN] /\ aboard \in [Systems -> 0 .. 2 * Lag + 1]
  BY DEF WranglerTypeOK
<1>k. ASSUME UNCHANGED <<crew, aboard>> PROVE AboardIsCrew'
  BY <1>k DEF AboardIsCrew
<1>1. ASSUME NEW s \in Systems, NEW clean \in BOOLEAN, ServerEnds(s, clean) PROVE AboardIsCrew'
  BY <1>1, <1>t DEF ServerEnds, AboardIsCrew
<1>2. ASSUME NEW s \in Systems, CrewComes(s) PROVE AboardIsCrew'
  BY <1>2, <1>t DEF CrewComes, AboardIsCrew
<1>3. ASSUME NEW s \in Systems, CrewLeaves(s) PROVE AboardIsCrew'
  BY <1>3, <1>t DEF CrewLeaves, AboardIsCrew
<1>4. ASSUME NEW S \in SUBSET Systems, BeginPass(S) PROVE AboardIsCrew'
  <2>1. \A s \in Systems : aboard'[s] = aboard[s] \/ crew[s]
    BY <1>4 DEF BeginPass
  <2>2. crew' = crew
    BY <1>4 DEF BeginPass
  <2> QED BY <2>1, <2>2 DEF AboardIsCrew
<1>5. ASSUME NEW s \in Systems, ServerStarts(s) \/ SendsCount(s) \/ \E d \in Fds : Connects(s, d)
      PROVE  AboardIsCrew'
  BY <1>5, <1>k DEF ServerStarts, SendsCount, Connects
<1>6. ASSUME NEW i \in Entries, Closes(i) \/ Resets(i) \/ Frees(i) \/ CountArrives(i)
      PROVE  AboardIsCrew'
  BY <1>6, <1>k DEF Closes, Resets, Frees, CountArrives
<1>7. CASE MaybeStartup \/ NotStopped \/ MaybeShutdown \/ UNCHANGED wranglerVars
  BY <1>7, <1>k DEF MaybeStartup, NotStopped, MaybeShutdown, wranglerVars
<1> QED BY <1>1, <1>2, <1>3, <1>4, <1>5, <1>6, <1>7 DEF WranglerNext

(* Counts.                                                                    *)
LEMMA OnwardIs ==
    ASSUME Onward, pass \in 1 .. NSystems
    PROVE  pass' = IF pass = NSystems THEN 0 ELSE pass + 1
<1>1. pass' = (pass + 1) % (NSystems + 1) /\ NSystems \in Nat
  BY WranglerConstants DEF Onward
<1>2. CASE pass = NSystems
  BY <1>1, <1>2
<1>3. CASE pass # NSystems
  <2>1. pass + 1 \in 0 .. NSystems
    BY <1>1, <1>3
  <2> QED BY <1>1, <1>3, <2>1
<1> QED BY <1>2, <1>3

LEMMA ReportsNext ==
    ASSUME WranglerInvariant, WranglerTypeOK', LiveIsConnected', [WranglerNext]_wranglerVars
    PROVE  CrewIsReported'
<1> USE DEF multiverseVars, serverVars
<1>t. /\ slot \in [Entries -> SlotsOf] /\ peer \in [Fds -> Systems \cup {Nothing}]
      /\ quiet \in [Entries -> 0 .. Lag] /\ pass \in 0 .. NSystems
      /\ crew \in [Systems -> BOOLEAN] /\ report \in [Systems -> {-1, 0, 1}]
      /\ aboard \in [Systems -> 0 .. 2 * Lag + 1]
  BY DEF WranglerInvariant, WranglerTypeOK, SlotsOf, UsesOf
<1>l. \A i \in Entries : slot[i].use = "live" =>
          /\ slot[i].name \in Systems /\ slot[i].fd \in Fds /\ peer[slot[i].fd] = slot[i].name
  BY DEF WranglerInvariant, LiveIsConnected
<1>n. /\ Lag \in Nat /\ Countdown \in Nat
      /\ \A i \in Entries : quiet[i] \in Nat /\ slot[i].countdown \in Int
      /\ \A s \in Systems : aboard[s] \in Nat
  BY <1>t, SlotTypes, WranglerConstants DEF WranglerInvariant
<1>u. \A i, j \in Entries : slot[i].use = "live" /\ slot[j].use = "live" /\ slot[i].name = slot[j].name => i = j
  BY <1>l, WranglerConstants DEF WranglerInvariant, OneConnectionEach
<1>r. \A i \in Entries : slot[i].use = "live" /\ crew[slot[i].name] => Reported(i)
  BY DEF WranglerInvariant, CrewIsReported
(* What changes nothing that matters.                                         *)
<1>k. ASSUME UNCHANGED <<quiet, pass>>,
             \A i \in Entries : slot'[i].use = "live" => slot'[i] = slot[i],
             \A s \in Systems : crew'[s] => crew[s] /\ aboard'[s] = aboard[s]
                                            /\ (report'[s] = report[s] \/ (report'[s] = 1 /\ report[s] = -1))
      PROVE  CrewIsReported'
  <2> SUFFICES ASSUME NEW i \in Entries, slot'[i].use = "live", crew'[slot'[i].name]
               PROVE  Reported(i)'
    BY DEF CrewIsReported
  <2>1. slot'[i] = slot[i] /\ slot[i].use = "live" /\ slot[i].name \in Systems
    BY <1>k, <1>l
  <2>2. Reported(i)
    BY <1>k, <1>r, <2>1
  <2> QED BY <1>k, <2>1, <2>2 DEF Reported, Fresh, LooksAt
<1>1. ASSUME NEW s \in Systems, ServerStarts(s) PROVE CrewIsReported'
  BY <1>1, <1>k DEF ServerStarts
<1>2. ASSUME NEW s \in Systems, NEW clean \in BOOLEAN, ServerEnds(s, clean) PROVE CrewIsReported'
  <2>1. \A v \in Systems : crew'[v] => crew[v] /\ aboard'[v] = aboard[v] /\ report'[v] = report[v]
    BY <1>2, <1>t DEF ServerEnds
  <2> QED BY <1>2, <1>k, <2>1 DEF ServerEnds
<1>3. ASSUME NEW s \in Systems, CrewComes(s) PROVE CrewIsReported'
  <2> SUFFICES ASSUME NEW i \in Entries, slot'[i].use = "live", crew'[slot'[i].name]
               PROVE  Reported(i)'
    BY DEF CrewIsReported
  <2>1. /\ UNCHANGED <<slot, quiet, pass, report, aboard>> /\ ~crew[s]
        /\ \A v \in Systems \ {s} : crew'[v] = crew[v]
    BY <1>3, <1>t DEF CrewComes
  <2>2. CASE slot[i].name = s
    <3>1. ~(aboard[s] > 0)
      BY <2>1 DEF WranglerInvariant, AboardIsCrew
    <3>2. aboard[s] = 0 /\ 0 <= quiet[i] /\ 0 <= Lag + quiet[i]
      BY <1>n, <3>1
    <3> QED BY <1>n, <2>1, <2>2, <3>2 DEF Reported
  <2>3. CASE slot[i].name # s
    <3>1. crew[slot[i].name] /\ slot[i].use = "live"
      BY <1>l, <2>1, <2>3
    <3>2. Reported(i)
      BY <1>r, <3>1
    <3> QED BY <2>1, <3>2 DEF Reported, Fresh, LooksAt
  <2> QED BY <2>2, <2>3
<1>4. ASSUME NEW s \in Systems, CrewLeaves(s) PROVE CrewIsReported'
  <2>1. \A v \in Systems : crew'[v] => crew[v] /\ aboard'[v] = aboard[v] /\ report'[v] = report[v]
    BY <1>4, <1>t DEF CrewLeaves
  <2> QED BY <1>4, <1>k, <2>1 DEF CrewLeaves
<1>5. ASSUME NEW s \in Systems, SendsCount(s) PROVE CrewIsReported'
  <2>1. \A v \in Systems : crew'[v] => crew[v] /\ aboard'[v] = aboard[v]
                             /\ (report'[v] = report[v] \/ (report'[v] = 1 /\ report[v] = -1))
    BY <1>5, <1>t DEF SendsCount
  <2> QED BY <1>5, <1>k, <2>1 DEF SendsCount
<1>6. ASSUME NEW s \in Systems, NEW d \in Fds, Connects(s, d) PROVE CrewIsReported'
  <2> DEFINE f == FirstFree
  <2> SUFFICES ASSUME NEW i \in Entries, slot'[i].use = "live", crew'[slot'[i].name]
               PROVE  Reported(i)'
    BY DEF CrewIsReported
  <2>1. f \in Entries /\ slot[f].use = "free"
    BY <1>6, FirstFreeIsFree DEF Connects
  <2>2. /\ slot' = [slot EXCEPT ![f] = [name |-> s, fd |-> d, use |-> "live", countdown |-> -1]]
        /\ quiet' = [quiet EXCEPT ![f] = 0] /\ report' = [report EXCEPT ![s] = -1]
        /\ UNCHANGED <<pass, crew, aboard>> /\ \A e \in Fds : peer[e] # s
    BY <1>6 DEF Connects, Connected
  <2> HIDE DEF f
  <2>3. CASE i = f
    <3>1. slot'[i].name = s /\ slot'[i].countdown = -1 /\ report'[s] = -1
      BY <1>t, <2>1, <2>2, <2>3
    <3> QED BY <3>1 DEF Reported, Fresh
  <2>4. CASE i # f
    <3>1. slot'[i] = slot[i] /\ quiet'[i] = quiet[i]
      BY <1>t, <2>1, <2>2, <2>4
    <3>2. slot[i].name # s /\ slot[i].name \in Systems
      BY <1>l, <2>2, <3>1
    <3>3. report'[slot[i].name] = report[slot[i].name]
      BY <1>t, <2>2, <3>2
    <3>4. Reported(i)
      BY <1>r, <2>2, <3>1
    <3> QED BY <2>2, <3>1, <3>3, <3>4 DEF Reported, Fresh, LooksAt
  <2> QED BY <2>3, <2>4
<1>7. ASSUME NEW i \in Entries, Closes(i) \/ Resets(i) \/ Frees(i) PROVE CrewIsReported'
  <2>1. slot'[i].use # "live" /\ \A j \in Entries \ {i} : slot'[j] = slot[j]
    BY <1>7, <1>t DEF Closes, Resets, Frees, SlotsOf
  <2>2. UNCHANGED <<quiet, pass, crew, aboard, report>>
    BY <1>7 DEF Closes, Resets, Frees
  <2> QED BY <1>k, <2>1, <2>2
<1>8. ASSUME NEW i \in Entries, CountArrives(i) PROVE CrewIsReported'
  <2> DEFINE s == slot[i].name
  <2> SUFFICES ASSUME NEW j \in Entries, slot'[j].use = "live", crew'[slot'[j].name]
               PROVE  Reported(j)'
    BY DEF CrewIsReported
  <2>1. /\ slot[i].use = "live" /\ report[s] # -1 /\ s \in Systems
        /\ slot' = [slot EXCEPT ![i].countdown = CountdownAfter(i, report[s])]
        /\ quiet' = [quiet EXCEPT ![i] = 0] /\ report' = [report EXCEPT ![s] = -1]
        /\ UNCHANGED <<pass, crew, aboard>>
    BY <1>8, <1>l DEF CountArrives
  <2>2. CASE j = i
    <3>1. slot'[i].name = s /\ slot'[i].countdown = CountdownAfter(i, report[s])
      BY <1>t, <2>1 DEF SlotsOf
    <3>2. quiet'[i] = 0 /\ report'[s] = -1
      BY <1>t, <2>1
    <3>3. CASE report[s] = 1
      <4>1. slot'[i].countdown = -1
        BY <3>1, <3>3 DEF CountdownAfter
      <4> QED BY <2>2, <3>1, <3>2, <4>1 DEF Reported, Fresh
    <3>4. CASE report[s] = 0
      <4>1. aboard[s] <= quiet[i]
        BY <1>r, <2>1, <2>2, <3>1, <3>4 DEF Reported
      <4>2. aboard[s] <= Lag + 0
        BY <1>n, <1>t, <2>1, <4>1
      <4> QED BY <2>1, <2>2, <3>1, <3>2, <4>2 DEF Reported
    <3> QED BY <1>t, <2>1, <3>3, <3>4
  <2>3. CASE j # i
    <3>1. slot'[j] = slot[j] /\ quiet'[j] = quiet[j]
      BY <1>t, <2>1, <2>3
    <3>2. slot[j].name # s /\ slot[j].name \in Systems
      BY <1>l, <1>u, <2>1, <2>3, <3>1
    <3>3. report'[slot[j].name] = report[slot[j].name]
      BY <1>t, <2>1, <3>2
    <3>4. Reported(j)
      BY <1>r, <2>1, <3>1
    <3> QED BY <2>1, <3>1, <3>3, <3>4 DEF Reported, Fresh, LooksAt
  <2> QED BY <2>2, <2>3
<1>9. ASSUME NEW S \in SUBSET Systems, BeginPass(S) PROVE CrewIsReported'
  <2> SUFFICES ASSUME NEW i \in Entries, slot'[i].use = "live", crew'[slot'[i].name]
               PROVE  Reported(i)'
    BY DEF CrewIsReported
  <2> DEFINE s == slot[i].name
  <2>1. /\ UNCHANGED <<slot, crew, report>> /\ pass = 0 /\ pass' = 1
        /\ quiet'[i] = quiet[i] + 1
    BY <1>9 DEF BeginPass
  <2>2. slot[i].use = "live" /\ crew[s] /\ s \in Systems /\ s \in 1 .. NSystems
    BY <1>l, <2>1, WranglerConstants
  <2>3. aboard'[s] <= aboard[s] + 1
    BY <1>9, <1>n, <2>2 DEF BeginPass
  <2>4. Reported(i)
    BY <1>r, <2>2
  <2>5. LooksAt(i)' = LooksAt(i)
    BY <1>n, <2>1, <2>2 DEF LooksAt
  <2>6. aboard'[s] \in Nat
    <3>1. (aboard \in [Systems -> 0 .. 2 * Lag + 1])'
      BY Zenon DEF WranglerTypeOK
    <3>2. aboard'[s] \in 0 .. 2 * Lag + 1
      BY <2>2, <3>1
    <3> QED BY <3>2, WranglerConstants
  <2>7. Fresh(i)' = Fresh(i)
    BY <2>1, <2>5 DEF Fresh
  <2>8. /\ aboard[s] <= quiet[i] => aboard'[s] <= quiet'[i]
        /\ aboard[s] <= Lag + quiet[i] => aboard'[s] <= Lag + quiet'[i]
    BY <1>n, <2>1, <2>2, <2>3, <2>6
  <2> QED BY <2>1, <2>4, <2>7, <2>8 DEF Reported
(* The wrangler goes on to the next system.                                   *)
<1>o. ASSUME Onward, pass \in 1 .. NSystems, UNCHANGED <<quiet, crew, report, aboard>>, NEW i \in Entries,
             slot[i].use = "live", slot'[i].name = slot[i].name, crew[slot[i].name],
             slot'[i].countdown = slot[i].countdown
             \/ /\ pass = slot[i].name
                /\ Fresh(i) => Fresh(i)'
      PROVE  Reported(i)'
  <2> DEFINE s == slot[i].name
  <2>1. Reported(i)
    BY <1>o, <1>r
  <2>2. s \in 1 .. NSystems /\ NSystems \in Nat
    BY <1>o, <1>l, WranglerConstants
  <2>3. pass' = IF pass = NSystems THEN 0 ELSE pass + 1
    BY <1>o, OnwardIs
  <2>4. LooksAt(i) \in Int /\ LooksAt(i)' \in Int /\ LooksAt(i)' >= LooksAt(i)
    BY <1>o, <1>n, <2>2, <2>3 DEF LooksAt
  <2>5. Fresh(i) => Fresh(i)'
    BY <1>o, <1>n, <2>4 DEF Fresh
  <2> QED BY <1>o, <2>1, <2>5 DEF Reported
<1>10. CASE MaybeStartup \/ NotStopped
  <2> SUFFICES ASSUME NEW i \in Entries, slot'[i].use = "live", crew'[slot'[i].name]
               PROVE  Reported(i)'
    BY DEF CrewIsReported
  <2>1. Onward /\ UNCHANGED <<slot, quiet, crew, report, aboard>>
    BY <1>10 DEF MaybeStartup, NotStopped
  <2>2. pass \in 1 .. NSystems
    BY <1>10, WranglerConstants DEF MaybeStartup, NotStopped, WranglerInvariant, WranglerTypeOK
  <2> QED BY <1>o, <2>1, <2>2
<1>11. CASE MaybeShutdown
  <2> SUFFICES ASSUME NEW i \in Entries, slot'[i].use = "live", crew'[slot'[i].name]
               PROVE  Reported(i)'
    BY DEF CrewIsReported
  <2> DEFINE e == Entry(pass)
             start == IF slot[e].countdown = -1 THEN Countdown ELSE slot[e].countdown
             left == IF start > 0 THEN start - 1 ELSE start
  <2>1. e \in Entries /\ slot[e].name = pass
    BY <1>11, EntryIsKnown DEF MaybeShutdown, Stoppable, HasSocket
  <2>2. /\ slot' = [slot EXCEPT ![e].countdown = left]
        /\ Onward /\ UNCHANGED <<quiet, crew, report, aboard>>
    BY <1>11 DEF MaybeShutdown
  <2>3. pass \in 1 .. NSystems
    BY <1>11, WranglerConstants DEF MaybeShutdown
  <2> HIDE DEF e, left
  <2>4. /\ slot'[e].countdown = left /\ \A j \in Entries \ {e} : slot'[j] = slot[j]
        /\ slot'[e].name = slot[e].name /\ slot'[e].use = slot[e].use
    BY <1>t, <2>1, <2>2 DEF SlotsOf
  <2>5. CASE i # e
    BY <1>o, <2>2, <2>3, <2>4, <2>5
  <2>6. CASE i = e
    <3>1. slot[i].use = "live" /\ slot[i].name = pass /\ crew[pass]
      BY <2>1, <2>2, <2>4, <2>6
    <3>2. LooksAt(i) = quiet[i] /\ LooksAt(i)' = quiet[i] + 1
      <4>1. pass' \notin 1 .. pass
        BY <2>2, <2>3, OnwardIs, WranglerConstants
      <4> QED BY <1>n, <2>1, <2>2, <2>3, <2>4, <2>6, <3>1, <4>1 DEF LooksAt
    <3>3. Fresh(i) => Fresh(i)'
      <4> SUFFICES ASSUME Fresh(i) PROVE Fresh(i)'
        OBVIOUS
      <4>1. start \in Int /\ start >= Countdown - quiet[i]
        BY <1>n, <2>1, <2>6, <3>2 DEF Fresh
      <4>2. left >= Countdown - (quiet[i] + 1)
        BY <1>n, <4>1 DEF left
      <4> QED BY <2>4, <2>6, <3>2, <4>2 DEF Fresh
    <3> QED BY <1>o, <2>2, <2>3, <2>4, <2>6, <3>1, <3>3
  <2> QED BY <2>5, <2>6
<1>12. CASE UNCHANGED wranglerVars
  BY <1>12, <1>k DEF wranglerVars
<1> QED BY <1>1, <1>2, <1>3, <1>4, <1>5, <1>6, <1>7, <1>8, <1>9, <1>10, <1>11, <1>12 DEF WranglerNext

LEMMA WranglerInvariantHolds == WranglerSpec => []WranglerInvariant
<1>1. WranglerInvariant /\ [WranglerNext]_wranglerVars => WranglerInvariant'
  BY WranglerTypeNext, ConnectionsNext, AboardNext, ReportsNext DEF WranglerInvariant
<1> QED BY <1>1, WranglerInvariantInit, PTL DEF WranglerSpec

(* The step that tells a server to go.                                        *)
LEMMA CrewIsSafeStep ==
    ASSUME WranglerInvariant, [WranglerNext]_wranglerVars,
           NEW s \in Systems, doomed'[s], ~doomed[s], ~wrong'[s]
    PROVE  aboard[s] <= 2 * Lag
<1> USE DEF multiverseVars, serverVars
<1>t. /\ doomed \in [Systems -> BOOLEAN] /\ wrong \in [Systems -> BOOLEAN]
      /\ aboard \in [Systems -> 0 .. 2 * Lag + 1] /\ crew \in [Systems -> BOOLEAN]
  BY DEF WranglerInvariant, WranglerTypeOK
<1>1. MaybeShutdown
  <2>1. ASSUME NEW v \in Systems, NEW clean \in BOOLEAN, ServerEnds(v, clean) PROVE FALSE
    BY <1>t, <2>1 DEF ServerEnds
  <2>2. ASSUME NEW v \in Systems,
               ServerStarts(v) \/ CrewComes(v) \/ CrewLeaves(v) \/ SendsCount(v) \/ \E d \in Fds : Connects(v, d)
        PROVE  FALSE
    BY <2>2 DEF ServerStarts, CrewComes, CrewLeaves, SendsCount, Connects
  <2>3. ASSUME NEW i \in Entries, Closes(i) \/ Resets(i) \/ Frees(i) \/ CountArrives(i) PROVE FALSE
    BY <2>3 DEF Closes, Resets, Frees, CountArrives
  <2>4. ASSUME NEW S \in SUBSET Systems, BeginPass(S) PROVE FALSE
    BY <2>4 DEF BeginPass
  <2>5. CASE MaybeStartup \/ NotStopped \/ UNCHANGED wranglerVars
    BY <2>5 DEF MaybeStartup, NotStopped, wranglerVars
  <2> QED BY <2>1, <2>2, <2>3, <2>4, <2>5 DEF WranglerNext
<1> DEFINE e == Entry(pass)
           start == IF slot[e].countdown = -1 THEN Countdown ELSE slot[e].countdown
           left == IF start > 0 THEN start - 1 ELSE start
<1>2. e \in Entries /\ slot[e].name = pass /\ pass \in Systems
  BY <1>1, EntryIsKnown DEF MaybeShutdown, Stoppable, HasSocket
<1>3. left = 0 /\ peer[slot[e].fd] = s /\ slot[e].use = "live"
  BY <1>1, <1>t DEF MaybeShutdown
<1> HIDE DEF e
<1>4. s = pass
  BY <1>2, <1>3 DEF WranglerInvariant, LiveIsConnected
<1> SUFFICES ASSUME ~(aboard[s] <= 2 * Lag) PROVE FALSE
  OBVIOUS
<1>5. quiet[e] \in 0 .. Lag /\ slot[e].countdown \in -1 .. Countdown
  BY <1>2, SlotTypes DEF WranglerInvariant
<1>6. crew[s] /\ aboard[s] \in Nat /\ aboard[s] > 2 * Lag
  <2>1. aboard[s] \in Nat /\ aboard[s] > 2 * Lag /\ aboard[s] > 0
    BY <1>t, WranglerConstants
  <2> QED BY <2>1 DEF WranglerInvariant, AboardIsCrew
<1>7. Reported(e)
  BY <1>2, <1>3, <1>4, <1>6 DEF WranglerInvariant, CrewIsReported
<1>8. Fresh(e)
  BY <1>2, <1>4, <1>5, <1>6, <1>7, WranglerConstants DEF Reported
<1>9. LooksAt(e) = quiet[e]
  BY <1>2, <1>5, WranglerConstants DEF LooksAt
<1>10. start \in Int /\ start >= Countdown - quiet[e]
  BY <1>5, <1>8, <1>9, WranglerConstants DEF Fresh
<1> HIDE DEF start
<1>11. start > 1
  BY <1>5, <1>10, WranglerConstants
<1> QED BY <1>3, <1>10, <1>11

(* The state of the wrangler stays what it is, whatever servers and           *)
(* connections come and go (wrangle_snis_server_processes).                   *)
THEOREM WranglerTypes == WranglerSpec => []WranglerTypeOK
<1>1. WranglerInvariant => WranglerTypeOK
  BY DEF WranglerInvariant
<1> QED BY <1>1, WranglerInvariantHolds, PTL

(* maybe_shutdown_snis_server never tells a server to go whose crew has been  *)
(* aboard for more than two delays of a count, if its countdown is longer     *)
(* than that: for any number of systems and entries and any such delay.       *)
THEOREM CrewsAreSafe == WranglerSpec => CrewIsSafe
<1>1. WranglerInvariant /\ [WranglerNext]_wranglerVars
          => [\A s \in Systems : doomed'[s] /\ ~doomed[s] /\ ~wrong'[s] => aboard[s] <= 2 * Lag]_wranglerVars
  BY CrewIsSafeStep
<1> QED BY <1>1, WranglerInvariantHolds, PTL DEF WranglerSpec, CrewIsSafe

-----------------------------------------------------------------------------
(* The lobby: entries are forgotten in time, and only entries nobody renews,  *)
(* for all periods that LobbyAssumption allows.                               *)

(* An entry that is renewed is as old as its registration thread has slept,   *)
(* and no entry is older than the time-out by more than the time since the    *)
(* last run of expire_game_servers.                                           *)
LobbyInv ==
    /\ LobbyTypeOK
    /\ renewing \subseteq listed
    /\ \A s \in renewing : thread[s] = "runs" /\ age[s] <= Period - due[s]
    /\ \A s \in listed : age[s] <= Timeout + SweepEvery - sweep

LEMMA Constants ==
    /\ MaxGameServers \in Nat /\ Timeout \in Nat /\ Period \in Nat
    /\ MaxLate \in Nat /\ SweepEvery \in Nat
    /\ Period + MaxLate <= Timeout
  BY LobbyAssumption

LEMMA LobbyInvInit == LobbyInit => LobbyInv
  BY Constants DEF LobbyInit, LobbyInv, LobbyTypeOK, TooOld

LEMMA LobbyInvNext == LobbyInv /\ [LobbyNext]_lobbyVars => LobbyInv'
<1> SUFFICES ASSUME LobbyInv, [LobbyNext]_lobbyVars PROVE LobbyInv'
  OBVIOUS
<1> USE Constants DEF LobbyInv, LobbyTypeOK, TooOld
<1>1. ASSUME NEW s \in Servers, Start(s) PROVE LobbyInv'
  BY <1>1 DEF Start
<1>2. ASSUME NEW s \in Servers, Stop(s) PROVE LobbyInv'
  BY <1>2 DEF Stop
<1>3. ASSUME NEW s \in Servers, Renew(s) PROVE LobbyInv'
  <2>1. CASE s \in listed \/ Cardinality(listed) < MaxGameServers
    BY <1>3, <2>1 DEF Renew, AgeOnRegistering
  <2>2. CASE ~(s \in listed \/ Cardinality(listed) < MaxGameServers)
    <3>1. s \notin renewing
      BY <2>2
    <3> QED BY <1>3, <2>2, <3>1 DEF Renew
  <2> QED BY <2>1, <2>2
<1>4. ASSUME NEW s \in Servers, RenewFails(s) PROVE LobbyInv'
  BY <1>4 DEF RenewFails
<1>5. CASE Sweep
  BY <1>5 DEF Sweep, Expired
<1>6. CASE LobbyRestart
  BY <1>6 DEF LobbyRestart
<1>7. CASE Tick
  <2>1. LobbyTypeOK'
    BY <1>7 DEF Tick
  <2>2. (\A s \in renewing : thread[s] = "runs" /\ age[s] <= Period - due[s])'
    BY <1>7 DEF Tick
  <2>3. (\A s \in listed : age[s] <= Timeout + SweepEvery - sweep)'
    BY <1>7 DEF Tick
  <2> QED BY <1>7, <2>1, <2>2, <2>3 DEF Tick
<1>8. CASE UNCHANGED lobbyVars
  BY <1>8 DEF lobbyVars
<1> QED BY <1>1, <1>2, <1>3, <1>4, <1>5, <1>6, <1>7, <1>8 DEF LobbyNext

LEMMA LobbyInvariant == LobbySpec => []LobbyInv
  BY LobbyInvInit, LobbyInvNext, PTL DEF LobbySpec

(* The variables of Lobby keep their types: the sweep comes before an entry   *)
(* can be older than the time-out and one period of the sweep.                *)
THEOREM LobbyTypes == LobbySpec => []LobbyTypeOK
  BY LobbyInvariant, PTL DEF LobbyInv

(* A server that is gone is in the directory for the time-out and one period  *)
(* of expire_game_servers at most.                                            *)
THEOREM Forgotten == LobbySpec => []DeadAreForgotten
<1>1. LobbyInv => DeadAreForgotten
  BY Constants DEF LobbyInv, LobbyTypeOK, DeadAreForgotten
<1> QED BY <1>1, LobbyInvariant, PTL

(* The sweep spares every entry that is being renewed.                        *)
LEMMA SweepSpares ==
    LobbyInv => \A s \in renewing : ~Expired(s)
  BY Constants DEF LobbyInv, LobbyTypeOK, Expired

LEMMA StepRefines ==
    LobbyInv /\ [LobbyNext]_lobbyVars => [D!DirectoryNext]_(D!directoryVars)
<1> SUFFICES ASSUME LobbyInv, [LobbyNext]_lobbyVars
             PROVE  [D!DirectoryNext]_(D!directoryVars)
  OBVIOUS
<1> USE DEF D!directoryVars
<1>1. ASSUME NEW s \in Servers, Start(s) PROVE UNCHANGED <<listed, renewing>>
  BY <1>1 DEF Start
<1>2. ASSUME NEW s \in Servers, Stop(s) PROVE D!Lapse(s)
  BY <1>2 DEF Stop, D!Lapse
<1>3. ASSUME NEW s \in Servers, Renew(s)
      PROVE  D!Enter(s) \/ UNCHANGED <<listed, renewing>>
  BY <1>3 DEF Renew, D!Enter
<1>4. ASSUME NEW s \in Servers, RenewFails(s) PROVE D!Lapse(s)
  BY <1>4 DEF RenewFails, D!Lapse
<1>5. ASSUME Sweep PROVE \E S \in SUBSET Servers : D!Forget(S)
  <2> DEFINE gone == {s \in listed : Expired(s)}
  <2>1. gone \subseteq listed \ renewing
    BY SweepSpares
  <2>2. gone \in SUBSET Servers
    BY DEF LobbyInv, LobbyTypeOK
  <2>3. listed' = listed \ gone
    BY <1>5 DEF Sweep
  <2>4. D!Forget(gone)
    BY <1>5, <2>1, <2>3 DEF D!Forget, Sweep
  <2> QED BY <2>2, <2>4
<1>6. ASSUME LobbyRestart PROVE D!Reset
  BY <1>6 DEF LobbyRestart, D!Reset
<1>7. ASSUME Tick PROVE UNCHANGED <<listed, renewing>>
  BY <1>7 DEF Tick
<1>8. ASSUME UNCHANGED lobbyVars PROVE UNCHANGED <<listed, renewing>>
  BY <1>8 DEF lobbyVars
<1> QED
  BY <1>1, <1>2, <1>3, <1>4, <1>5, <1>6, <1>7, <1>8 DEF LobbyNext, D!DirectoryNext

(* Lobby implements Directory: registrations, sweeps and the clock in any     *)
(* order, nothing that is renewed is forgotten.                               *)
THEOREM Refinement == LobbySpec => ImplementsDirectory
<1>1. LobbyInit => D!DirectoryInit
  BY DEF LobbyInit, D!DirectoryInit
<1> QED
  BY <1>1, StepRefines, LobbyInvariant, PTL
  DEF LobbySpec, ImplementsDirectory, D!DirectorySpec
=============================================================================
