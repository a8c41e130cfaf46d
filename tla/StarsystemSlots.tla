--------------------------- MODULE StarsystemSlots ---------------------------
(* How snis_multiverse serves its connections: the listener thread claims an  *)
(* entry of starsystem[] for each, starts a reader and a writer thread on it, *)
(* waits until it sees one of them holding a reference, and goes back to      *)
(* accept.  An entry with refcount 0 may be claimed again.                    *)
(*                                                                            *)
(* service_mutex makes each step on refcount atomic; the descriptor in an     *)
(* entry is read, closed and reset with no mutex at all.                      *)
EXTENDS Naturals, FiniteSets

CONSTANTS
    Connections,    \* connections the snis_servers open
    Slots,          \* entries of starsystem[], MAX_STARSYSTEMS of them
    Descriptors,    \* numbers accept can return, smallest first
    Nobody          \* neither a connection nor a slot nor a descriptor

ASSUME SlotsAssumption ==
    /\ IsFiniteSet(Connections) /\ IsFiniteSet(Slots)
    /\ Slots \subseteq Nat /\ Descriptors \subseteq Nat
    /\ Nobody \notin Connections \cup Slots \cup Descriptors

Threads == Connections \X {"reader", "writer"}

VARIABLES
    refcount,   \* refcount[i]
    socket,     \* socket[i], Nobody for -1
    open,       \* open[fd]: the connection behind a descriptor
    listener,   \* service_connection: where it is, with which fd and slot
    pc,         \* pc[t]: where a thread is
    slotOf      \* slotOf[c]: the slot the threads of a connection were given

vars == <<refcount, socket, open, listener, pc, slotOf>>

-----------------------------------------------------------------------------
(* "born": create_thread has returned and lock_get_starsystem has not.        *)
(* "loop": registered.  "closing", "resetting": before close, and before      *)
(* ss->socket = -1.  "leaving": before lock_put_starsystem.                   *)
Places == {"unborn", "born", "loop", "closing", "resetting", "leaving", "done"}
Registered == {"loop", "closing", "resetting", "leaving"}

SlotsTypeOK ==
    /\ refcount \in [Slots -> Nat]
    /\ socket \in [Slots -> Descriptors \cup {Nobody}]
    /\ open \in [Descriptors -> Connections \cup {Nobody}]
    /\ listener \in [at : {"accept", "claim", "wait", "release"},
                     conn : Connections \cup {Nobody},
                     fd : Descriptors \cup {Nobody},
                     slot : Slots \cup {Nobody}]
    /\ pc \in [Threads -> Places]
    /\ slotOf \in [Connections -> Slots \cup {Nobody}]

Accepting == [at |-> "accept", conn |-> Nobody, fd |-> Nobody, slot |-> Nobody]

Init ==
    /\ refcount = [i \in Slots |-> 0]
    /\ socket = [i \in Slots |-> Nobody]
    /\ open = [fd \in Descriptors |-> Nobody]
    /\ listener = Accepting
    /\ pc = [t \in Threads |-> "unborn"]
    /\ slotOf = [c \in Connections |-> Nobody]

-----------------------------------------------------------------------------
(* The listener: listener_thread_fn and service_connection.                   *)

Lowest(S) == CHOOSE x \in S : \A y \in S : x <= y
Closed == {fd \in Descriptors : open[fd] = Nobody}
(* Mutant: an entry is free as soon as its socket is closed.                  *)
Disconnected == {i \in Slots : socket[i] = Nobody}

Reapable == {i \in Slots : refcount[i] = 0}

(* accept: the kernel hands out the lowest free number.                       *)
Accept(c) ==
    /\ listener.at = "accept"
    /\ pc[<<c, "reader">>] = "unborn"
    /\ Closed # {}
    /\ open' = [open EXCEPT ![Lowest(Closed)] = c]
    /\ listener' = [Accepting EXCEPT !.at = "claim", !.conn = c, !.fd = Lowest(Closed)]
    /\ UNCHANGED <<refcount, socket, pc, slotOf>>

(* Mutant: the connection is refused and not closed.                          *)
TurnAwayOpen ==
    /\ listener.at = "claim"
    /\ listener' = Accepting
    /\ UNCHANGED <<refcount, socket, open, pc, slotOf>>

(* verify_client_protocol or the name fails, or starsystem[] is full.         *)
TurnAway ==
    /\ listener.at = "claim"
    /\ open' = [open EXCEPT ![listener.fd] = Nobody]
    /\ listener' = Accepting
    /\ UNCHANGED <<refcount, socket, pc, slotOf>>

(* The entry is set up and both threads are created, all under service_mutex. *)
Claim ==
    /\ listener.at = "claim"
    /\ Reapable # {}
    /\ LET i == Lowest(Reapable) IN
       /\ refcount' = [refcount EXCEPT ![i] = 1]
       /\ socket' = [socket EXCEPT ![i] = listener.fd]
       /\ slotOf' = [slotOf EXCEPT ![listener.conn] = i]
       /\ listener' = [listener EXCEPT !.at = "wait", !.slot = i]
    /\ pc' = [t \in Threads |-> IF t[1] = listener.conn THEN "born" ELSE pc[t]]
    /\ UNCHANGED open

(* One look at the reference count; it looks again after a millisecond.       *)
SeeThread ==
    /\ listener.at = "wait"
    /\ refcount[listener.slot] >= 2
    /\ listener' = [listener EXCEPT !.at = "release"]
    /\ UNCHANGED <<refcount, socket, open, pc, slotOf>>

Release ==
    /\ listener.at = "release"
    /\ refcount' = [refcount EXCEPT ![listener.slot] = @ - 1]
    /\ listener' = Accepting
    /\ UNCHANGED <<socket, open, pc, slotOf>>

Listener == TurnAway \/ Claim \/ SeeThread \/ Release

-----------------------------------------------------------------------------
(* starsystem_read_thread and starsystem_write_thread.                        *)

Slot(t) == slotOf[t[1]]
Goes(t, from, to) == pc[t] = from /\ pc' = [pc EXCEPT ![t] = to]

Register(t) ==
    /\ Goes(t, "born", "loop")
    /\ refcount' = [refcount EXCEPT ![Slot(t)] = @ + 1]
    /\ UNCHANGED <<socket, open, listener, slotOf>>

(* The read fails, or what it reads is not an opcode; the write fails.        *)
Fail(t) ==
    /\ Goes(t, "loop", "closing")
    /\ UNCHANGED <<refcount, socket, open, listener, slotOf>>

(* shutdown and close of whatever ss->socket is by now, -1 included.          *)
Close(t) ==
    /\ Goes(t, "closing", "resetting")
    /\ open' = [fd \in Descriptors |-> IF fd = socket[Slot(t)] THEN Nobody ELSE open[fd]]
    /\ UNCHANGED <<refcount, socket, listener, slotOf>>

Reset(t) ==
    /\ Goes(t, "resetting", "loop")
    /\ socket' = [socket EXCEPT ![Slot(t)] = Nobody]
    /\ UNCHANGED <<refcount, open, listener, slotOf>>

(* The loop ends when it finds ss->socket < 0, whoever closed it.             *)
Break(t) ==
    /\ Goes(t, "loop", "leaving")
    /\ socket[Slot(t)] = Nobody
    /\ UNCHANGED <<refcount, socket, open, listener, slotOf>>

(* Mutant: the thread gives its reference back, and goes round again.         *)
UnregisterAgain(t) ==
    /\ pc[t] = "leaving"
    /\ pc' = [pc EXCEPT ![t] = "loop"]
    /\ refcount' = [refcount EXCEPT ![Slot(t)] = @ - 1]
    /\ UNCHANGED <<socket, open, listener, slotOf>>

Unregister(t) ==
    /\ Goes(t, "leaving", "done")
    /\ refcount' = [refcount EXCEPT ![Slot(t)] = @ - 1]
    /\ UNCHANGED <<socket, open, listener, slotOf>>

Thread(t) == Register(t) \/ Fail(t) \/ Close(t) \/ Reset(t) \/ Break(t) \/ Unregister(t)

Next ==
    \/ \E c \in Connections : Accept(c)
    \/ Listener
    \/ \E t \in Threads : Thread(t)

Spec == Init /\ [][Next]_vars

(* The scheduler runs every thread.  A thread need not ever fail: Fail is not *)
(* required, but once it has failed it goes on to the end.                    *)
Fairness ==
    /\ WF_vars(Listener)
    /\ \A t \in Threads :
          WF_vars(Register(t) \/ Close(t) \/ Reset(t) \/ Break(t) \/ Unregister(t))

FairSpec == Spec /\ Fairness

-----------------------------------------------------------------------------
(* Properties.                                                                *)

RegisteredIn(i) == {t \in Threads : pc[t] \in Registered /\ Slot(t) = i}
ListenerHolds(i) ==
    IF listener.at \in {"wait", "release"} /\ listener.slot = i THEN 1 ELSE 0

(* The reference count is the number of threads using the entry, the listener *)
(* among them: claiming an entry again, which overwrites the count, takes     *)
(* away nobody's reference, and put_starsystem's assertion holds, even when a *)
(* thread of the former connection comes late.                                *)
RefcountIsThreads ==
    \A i \in Slots : refcount[i] = Cardinality(RegisteredIn(i)) + ListenerHolds(i)

(* No descriptor is forgotten: each open one is in some entry or in the       *)
(* listener's hands, although two threads may close the same entry's socket   *)
(* and the number may be in use again by then.                                *)
NoDescriptorLeak ==
    \A fd \in Descriptors :
        open[fd] # Nobody =>
            \/ listener.at = "claim" /\ listener.fd = fd
            \/ \E i \in Slots : socket[i] = fd /\ (refcount[i] > 0)

(* The listener goes back to accept: it "enters a loop in which it accepts    *)
(* connections" (hacking-space-nerds-in-space.html).                          *)
ListenerReturns == listener.at # "accept" ~> listener.at = "accept"

(* What keeps it from that: it waits for a second reference to an entry, and  *)
(* all threads that were ever given the entry have come and gone.             *)
Deaf ==
    /\ listener.at = "wait"
    /\ \A t \in Threads : Slot(t) = listener.slot => pc[t] = "done"

(* Nothing else does: as long as it waits and is not deaf, a thread of the    *)
(* entry (a late one of a former connection will do) has yet to register, or  *)
(* is there to be seen.                                                       *)
OnlyDeafWaits ==
    listener.at = "wait" /\ ~Deaf =>
        \/ refcount[listener.slot] >= 2
        \/ \E t \in Threads : Slot(t) = listener.slot /\ pc[t] = "born"

(* Deaf it stays: no thread and no other connection brings it back.           *)
DeafForGood == [][Deaf => Deaf']_vars
=============================================================================
