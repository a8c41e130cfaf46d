------------------------------- MODULE Clients -------------------------------
(* The clients of a snis_server: client[] with its reference counts, the      *)
(* reader and writer thread of each entry, and bridgelist[], whose entries    *)
(* the clients name by index.                                                 *)
(*                                                                            *)
(* All that is done to client[] and bridgelist[] here is done under the       *)
(* client lock, so each critical section is one step.  Whether universe_mutex *)
(* is held as well, as it should be, is another question.                     *)
EXTENDS Integers, Sequences, FiniteSets, SequencesExt

CONSTANTS
    Connections,    \* connections that snis_clients open
    Roles,          \* the two threads of a connection
    Ships,          \* ship names with their passwords
    MaxClients,     \* MAXCLIENTS
    Nobody          \* no connection, no ship

ASSUME ClientsAssumption ==
    /\ MaxClients \in Nat \ {0}
    /\ IsFiniteSet(Connections) /\ IsFiniteSet(Roles)
    /\ Nobody \notin Connections \cup Ships

Slots == 1 .. MaxClients
Threads == Connections \X Roles

VARIABLES
    alive,      \* the process has not failed an assertion
    nclients,   \* entries of client[] in use, holes among them
    refcount,   \* refcount[i]
    socket,     \* socket[i]: the connection, Nobody for -1
    bridge,     \* bridge[i]: index into bridgelist[]
    shipid,     \* shipid[i]: the ship of the client
    bridgelist, \* bridgelist[0 .. nbridges-1]
    listener,   \* service_connection: where it is, with which entry
    pc,         \* pc[t]: where a thread is
    slotOf,     \* slotOf[c]: the entry the threads of c were given
    moved,      \* a bridge has been deleted that was not the last (history)
    reaped      \* an entry was freed before all its threads had come (history)

vars == <<alive, nclients, refcount, socket, bridge, shipid, bridgelist,
          listener, pc, slotOf, moved, reaped>>

-----------------------------------------------------------------------------
Places == {"unborn", "born", "loop", "done"}
BridgeData == [ship : Ships, nclients : Int]

ClientsTypeOK ==
    /\ alive \in BOOLEAN
    /\ nclients \in 0 .. MaxClients
    /\ refcount \in [Slots -> Nat]
    /\ socket \in [Slots -> Connections \cup {Nobody}]
    /\ bridge \in [Slots -> Nat]
    /\ shipid \in [Slots -> Ships \cup {Nobody}]
    /\ bridgelist \in Seq(BridgeData)
    /\ listener \in [at : {"accept", "wait", "release"}, slot : Slots]
    /\ pc \in [Threads -> Places]
    /\ slotOf \in [Connections -> Slots]
    /\ moved \in BOOLEAN
    /\ reaped \in BOOLEAN

Init ==
    /\ alive = TRUE
    /\ nclients = 0
    /\ refcount = [i \in Slots |-> 0]
    /\ socket = [i \in Slots |-> Nobody]
    /\ bridge = [i \in Slots |-> 1]
    /\ shipid = [i \in Slots |-> Nobody]
    /\ bridgelist = <<>>
    /\ listener = [at |-> "accept", slot |-> 1]
    /\ pc = [t \in Threads |-> "unborn"]
    /\ slotOf = [c \in Connections |-> 1]
    /\ moved = FALSE
    /\ reaped = FALSE

-----------------------------------------------------------------------------
(* The listener thread: service_connection and add_new_player.                *)

Smallest(S) == CHOOSE x \in S : \A y \in S : x <= y

(* Mutant: an entry is free as soon as its socket is closed.                  *)
FirstClosed == Smallest({i \in 1 .. nclients : socket[i] = Nobody} \cup {nclients + 1})

(* The first hole in client[], or the entry behind the last.                  *)
FreeSlot == Smallest({i \in 1 .. nclients : refcount[i] = 0} \cup {nclients + 1})

Aboard(ship) == {b \in DOMAIN bridgelist : bridgelist[b].ship = ship}

CanServe(c) ==
    /\ alive
    /\ listener.at = "accept"
    /\ nclients < MaxClients
    /\ \A r \in Roles : pc[<<c, r>>] = "unborn"

(* The entry is filled in and its two threads are created.                    *)
Enter(c, i, b, ship) ==
    /\ nclients' = IF i > nclients THEN i ELSE nclients
    /\ refcount' = [refcount EXCEPT ![i] = 1]
    /\ socket' = [socket EXCEPT ![i] = c]
    /\ bridge' = [bridge EXCEPT ![i] = b]
    /\ shipid' = [shipid EXCEPT ![i] = ship]
    /\ listener' = [at |-> "wait", slot |-> i]
    /\ pc' = [t \in Threads |-> IF t[1] = c THEN "born" ELSE pc[t]]
    /\ slotOf' = [slotOf EXCEPT ![c] = i]

(* lookup_bridge finds nobody aboard that ship.                               *)
Found(c, ship) ==
    /\ CanServe(c)
    /\ Aboard(ship) = {}
    /\ Enter(c, FreeSlot, Len(bridgelist) + 1, ship)
    /\ bridgelist' = Append(bridgelist, [ship |-> ship, nclients |-> 1])
    /\ UNCHANGED <<alive, moved, reaped>>

(* Mutant: the new member of the crew is not counted.                         *)
JoinUncounted(c, ship) ==
    /\ CanServe(c)
    /\ Aboard(ship) # {}
    /\ Enter(c, FreeSlot, Smallest(Aboard(ship)), ship)
    /\ UNCHANGED <<alive, bridgelist, moved, reaped>>

(* The first bridge of that name is joined.                                   *)
Join(c, ship) ==
    /\ CanServe(c)
    /\ Aboard(ship) # {}
    /\ LET b == Smallest(Aboard(ship)) IN
       /\ Enter(c, FreeSlot, b, bridgelist[b].ship)
       /\ bridgelist' = [bridgelist EXCEPT ![b].nclients = @ + 1]
    /\ UNCHANGED <<alive, moved, reaped>>

(* Mutant: the entry is given back and was never counted.                     *)
GiveUncountedBack(i) == nclients' = nclients - 1

(* Mutant: the last entry is given back though the refused one was a hole.    *)
GiveLastBack(i) == nclients' = IF i > nclients THEN nclients ELSE nclients - 1

(* The entry is given back if it was added on the end.                        *)
GiveBack(i) == nclients' = IF i > nclients \/ i # nclients THEN nclients ELSE nclients - 1

(* A packet that makes no sense, or a ship to be created that is there: the   *)
(* entry has its socket, and in the second case its bridge, but no threads.   *)
(* In that case the client is sent an error, which may fail.                  *)
Refuse(c) ==
    /\ CanServe(c)
    /\ LET i == FreeSlot IN
       /\ GiveBack(i)
       /\ \/ /\ socket' = [socket EXCEPT ![i] = c]
             /\ UNCHANGED bridge
          \/ \E ship \in Ships, s \in {c, Nobody} :
                /\ Aboard(ship) # {}
                /\ bridge' = [bridge EXCEPT ![i] = Smallest(Aboard(ship))]
                /\ socket' = [socket EXCEPT ![i] = s]
    /\ pc' = [t \in Threads |-> IF t[1] = c THEN "done" ELSE pc[t]]
    /\ UNCHANGED <<alive, refcount, shipid, bridgelist, listener, slotOf, moved, reaped>>

SeeThread ==
    /\ alive
    /\ listener.at = "wait"
    /\ refcount[listener.slot] >= 2
    /\ listener' = [listener EXCEPT !.at = "release"]
    /\ UNCHANGED <<alive, nclients, refcount, socket, bridge, shipid, bridgelist,
                   pc, slotOf, moved, reaped>>

-----------------------------------------------------------------------------
(* put_client, remove_client, delete_bridge.                                  *)

(* put_client takes one reference from entry i.                               *)
LastReference(i) == refcount[i] = 1

(* remove_client drops free entries from the end of client[].                 *)
Shrunk(i) ==
    IF i = nclients
    THEN CHOOSE n \in 0 .. nclients :
             /\ n > 0 => n # i /\ refcount[n] > 0
             /\ \A j \in n + 1 .. nclients : j = i \/ refcount[j] = 0
    ELSE nclients

(* delete_bridge: some client in use still names this bridge.                 *)
StillActive(i, b) ==
    \E j \in 1 .. Shrunk(i) : j # i /\ refcount[j] > 0 /\ bridge[j] = b

(* Mutant: a bridge goes when one client is left on it.                       *)
LeaveBridgeEarly(i, b) ==
    LET left == bridgelist[b].nclients - 1 IN
    IF left <= 1
    THEN /\ bridgelist' = RemoveAt(bridgelist, b)
         /\ moved' = (moved \/ b < Len(bridgelist))
    ELSE /\ bridgelist' = [bridgelist EXCEPT ![b].nclients = left]
         /\ UNCHANGED moved

(* One client fewer on bridge b, and no bridge without clients.               *)
LeaveBridge(i, b) ==
    LET left == bridgelist[b].nclients - 1 IN
    IF bridgelist[b].nclients <= 1 /\ ~StillActive(i, b)
    THEN /\ bridgelist' = RemoveAt(bridgelist, b)
         /\ moved' = (moved \/ b < Len(bridgelist))
    ELSE /\ bridgelist' = [bridgelist EXCEPT ![b].nclients = left]
         /\ UNCHANGED moved

RemoveClient(i) ==
    /\ nclients' = Shrunk(i)
    /\ reaped' = (reaped \/ \E t \in Threads : pc[t] = "born" /\ slotOf[t[1]] = i)
    /\ IF bridge[i] \in DOMAIN bridgelist
       THEN LeaveBridge(i, bridge[i])
       ELSE UNCHANGED <<bridgelist, moved>>

(* The assertions of put_client and of remove_client.                         *)
AssertionsHold(i) == refcount[i] > 0 /\ (LastReference(i) => i <= nclients)

PutClient(i) ==
    /\ alive' = AssertionsHold(i)
    /\ IF alive' THEN refcount' = [refcount EXCEPT ![i] = @ - 1] ELSE UNCHANGED refcount
    /\ IF alive' /\ LastReference(i)
       THEN RemoveClient(i)
       ELSE UNCHANGED <<nclients, bridgelist, moved, reaped>>

Release ==
    /\ alive
    /\ listener.at = "release"
    /\ PutClient(listener.slot)
    /\ listener' = [listener EXCEPT !.at = "accept"]
    /\ UNCHANGED <<socket, bridge, shipid, pc, slotOf>>

-----------------------------------------------------------------------------
(* per_client_read_thread and per_client_write_thread.                        *)

Slot(t) == slotOf[t[1]]

(* get_client                                                                 *)
Register(t) ==
    /\ alive
    /\ pc[t] = "born"
    /\ pc' = [pc EXCEPT ![t] = "loop"]
    /\ refcount' = [refcount EXCEPT ![Slot(t)] = @ + 1]
    /\ UNCHANGED <<alive, nclients, socket, bridge, shipid, bridgelist, listener,
                   slotOf, moved, reaped>>

(* A thread's read or write fails, its client's bridge is refused, or the     *)
(* demon console disconnects an entry.                                        *)
Disconnect(i) ==
    /\ alive
    /\ socket[i] # Nobody
    /\ i <= nclients \/ \E t \in Threads : pc[t] = "loop" /\ Slot(t) = i
    /\ socket' = [socket EXCEPT ![i] = Nobody]
    /\ UNCHANGED <<alive, nclients, refcount, bridge, shipid, bridgelist, listener,
                   pc, slotOf, moved, reaped>>

(* The loop has found socket < 0.                                             *)
Exit(t) ==
    /\ alive
    /\ pc[t] = "loop"
    /\ socket[Slot(t)] = Nobody
    /\ pc' = [pc EXCEPT ![t] = "done"]
    /\ PutClient(Slot(t))
    /\ UNCHANGED <<socket, bridge, shipid, listener, slotOf>>

Next ==
    \/ \E c \in Connections :
          \/ \E ship \in Ships : Found(c, ship) \/ Join(c, ship)
          \/ Refuse(c)
    \/ SeeThread
    \/ Release
    \/ \E t \in Threads : Register(t) \/ Exit(t)
    \/ \E i \in Slots : Disconnect(i)

Spec == Init /\ [][Next]_vars

-----------------------------------------------------------------------------
(* Properties.                                                                *)

Users(i) == {t \in Threads : pc[t] = "loop" /\ Slot(t) = i}
ListenerHolds(i) == IF listener.at # "accept" /\ listener.slot = i THEN 1 ELSE 0
InUse == {i \in Slots : refcount[i] > 0}
Crew(b) == {i \in InUse : bridge[i] = b}
OnOwnBridge(i) == bridge[i] \in DOMAIN bridgelist /\ bridgelist[bridge[i]].ship = shipid[i]

(* refcount is the "count of threads using this client structure", the        *)
(* listener among them, until an entry is freed before both of its threads    *)
(* have come: then a new client may get it while the late thread uses it.     *)
RefcountIsUsers ==
    ~reaped => \A i \in Slots : refcount[i] = Cardinality(Users(i)) + ListenerHolds(i)

(* Until a bridge is deleted from the middle of bridgelist[], or an entry of  *)
(* client[] freed too early: each client is on the bridge of its ship, each   *)
(* ship has one bridge, each bridge has the clients it counts, at least one,  *)
(* and nothing in use lies beyond nclients.  (add_new_player, put_client,     *)
(* remove_client, delete_bridge)                                              *)
CrewsAreRight ==
    ~moved /\ ~reaped =>
        /\ \A i \in InUse : OnOwnBridge(i) /\ i <= nclients
        /\ \A b \in DOMAIN bridgelist : bridgelist[b].nclients = Cardinality(Crew(b)) /\ Crew(b) # {}
        /\ \A a, b \in DOMAIN bridgelist : bridgelist[a].ship = bridgelist[b].ship => a = b

(* remove_client's assertion, client_index < nclients, fails only for an      *)
(* entry that was freed before its second thread had come: "Wait for at least *)
(* one of the threads to prevent premature reaping" waits for one of two.     *)
AbortsOnlyAfterEarlyReaping == ~alive => reaped

(* The listener waits for a second reference to an entry whose threads have   *)
(* all come and gone.                                                         *)
Deaf ==
    /\ listener.at = "wait"
    /\ \A t \in Threads : Slot(t) = listener.slot => pc[t] \in {"unborn", "done"}

(* As long as it waits and is not deaf, a thread has yet to come or is there  *)
(* to be seen, until an entry is freed too early.  (service_connection)       *)
OnlyDeafWaits ==
    ~reaped /\ listener.at = "wait" /\ ~Deaf =>
        \/ refcount[listener.slot] >= 2
        \/ \E t \in Threads : Slot(t) = listener.slot /\ pc[t] = "born"

(* Deaf it stays, and no other client is served: none that is leaving, and no *)
(* other entry, brings it back.                                               *)
DeafForGood == [][~reaped /\ Deaf => Deaf']_vars

(* Crews seen through the index: a client flies the ship of the bridge that   *)
(* game_client.bridge names.                                                  *)
CrewSeen(ship) ==
    {i \in InUse : bridge[i] \in DOMAIN bridgelist /\ bridgelist[bridge[i]].ship = ship}

Promise == INSTANCE Crews WITH
    Members <- Slots,
    aboard <- {bridgelist[b].ship : b \in DOMAIN bridgelist},
    crew <- [ship \in Ships |-> CrewSeen(ship)],
    astray <- moved \/ reaped

(* Until a bridge is deleted from the middle, or an entry freed too early,    *)
(* the server keeps its crews as Multiverse assumes: one ship comes or goes   *)
(* at a time, with the first and the last of its crew, and no client is moved *)
(* to another ship by the coming and going of others.  (add_new_player,       *)
(* put_client, delete_bridge)                                                 *)
ImplementsCrews == Promise!CrewsSpec

(* game_client.bridge is the "index into bridgelist[] for the bridge this     *)
(* client is on".                                                             *)
IndexNamesBridge == alive /\ ~reaped => \A i \in InUse : OnOwnBridge(i)
=============================================================================
