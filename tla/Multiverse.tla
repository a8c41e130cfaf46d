------------------------------ MODULE Multiverse ------------------------------
(* snis_multiverse and the snis_servers of the solar systems: which ships     *)
(* exist (ShipTable), which crews are aboard where (the bridgelist[] of each  *)
(* server), the connection between each server and the multiverse, and the    *)
(* packets on it, through crashes of either end and broken connections.       *)
(*                                                                            *)
(* A queue stands for the packet queue of the sender, the socket and what is  *)
(* buffered in between; what is lost of it when a connection goes down is the *)
(* part that is never read.                                                   *)
EXTENDS ShipTable, Sequences

CONSTANTS
    Nobody,     \* no ship
    MaxQueue,   \* bound: packets on their way to the multiverse, per server
    MaxBoards,  \* bound: how often a crew boards a ship
    MaxFaults   \* bound: crashes and broken connections

ASSUME NobodyAssumption == Nobody \notin Hashes
ASSUME BoundsAssumption == MaxQueue \in Nat /\ MaxBoards \in Nat /\ MaxFaults \in Nat

Protocol == INSTANCE MvProtocol

VARIABLES
    aboard,     \* aboard[s]: hashes in the bridgelist[] of server s
    bridge,     \* bridge[s][h]: the bridgelist[] entry
    link,       \* link[s]: the server's side of its connection
    up,         \* up[s]: packets from s that the multiverse has not read
    oldUp,      \* oldUp[s]: packets on a connection that s has given up
    down,       \* down[s]: packets to s that the server has not read
    owed,       \* owed[s]: the ship whose state follows a verdict just queued
    garbled,    \* garbled[s]: the multiverse has lost the packet boundaries
    oldGarbled, \* the same on a connection that s has given up
    boards,     \* crews boarded so far
    faults      \* crashes and broken connections so far

serverVars == <<aboard, bridge, boards>>
linkVars == <<link, up, oldUp, down, owed, garbled, oldGarbled>>
vars == <<tableVars, serverVars, linkVars, faults>>

-----------------------------------------------------------------------------
VerifiedCodes == {"unverified", "verified", "failed", "refused", "wrong_solarsystem"}

(* "none": sock is -1.  "dialing": connect_to_multiverse has set sock and not *)
(* yet initialised mverse_queue.  "dead": the multiverse has closed its end   *)
(* and the server has not noticed.                                            *)
Links == {"none", "dialing", "up", "dead"}

Bridge == [verified : VerifiedCodes, requested : BOOLEAN, create : BOOLEAN,
           enforce : BOOLEAN, state : States]

NewBridge(create, enforce) ==
    [verified |-> "unverified", requested |-> FALSE, create |-> create,
     enforce |-> enforce, state |-> Fresh]

BridgesTypeOK ==
    /\ aboard \in [Systems -> SUBSET Hashes]
    /\ bridge \in [Systems -> [Hashes -> Bridge]]
    /\ boards \in Nat

LinksTypeOK ==
    /\ link \in [Systems -> Links]
    /\ up \in [Systems -> Seq(Protocol!ToMultiverse)]
    /\ oldUp \in [Systems -> Seq(Protocol!ToMultiverse)]
    /\ down \in [Systems -> Seq(Protocol!ToServer)]
    /\ owed \in [Systems -> Hashes \cup {Nobody}]
    /\ garbled \in [Systems -> BOOLEAN]
    /\ oldGarbled \in [Systems -> BOOLEAN]

MultiverseTypeOK ==
    /\ TypeOK
    /\ BridgesTypeOK
    /\ LinksTypeOK
    /\ faults \in Nat

Init ==
    /\ TableInit
    /\ aboard = [s \in Systems |-> {}]
    /\ bridge = [s \in Systems |-> [h \in Hashes |-> NewBridge(FALSE, FALSE)]]
    /\ link = [s \in Systems |-> "none"]
    /\ up = [s \in Systems |-> <<>>]
    /\ oldUp = [s \in Systems |-> <<>>]
    /\ down = [s \in Systems |-> <<>>]
    /\ owed = [s \in Systems |-> Nobody]
    /\ garbled = [s \in Systems |-> FALSE]
    /\ oldGarbled = [s \in Systems |-> FALSE]
    /\ boards = 0
    /\ faults = 0

-----------------------------------------------------------------------------
(* snis_server: the crews.                                                    *)

(* add_new_player, when lookup_bridge finds nobody aboard that ship.  Later   *)
(* members of the crew find the bridge and change nothing modelled here.      *)
Board(s, h, create, enforce) ==
    /\ boards < MaxBoards
    /\ h \notin aboard[s]
    /\ aboard' = [aboard EXCEPT ![s] = @ \cup {h}]
    /\ bridge' = [bridge EXCEPT ![s][h] = NewBridge(create, enforce)]
    /\ boards' = boards + 1
    /\ UNCHANGED <<tableVars, linkVars, faults>>

(* put_client for the last member of the crew, and delete_bridge: the ship is *)
(* gone from this server, and nothing is sent to the multiverse.              *)
Leave(s, h) ==
    /\ h \in aboard[s]
    /\ aboard' = [aboard EXCEPT ![s] = @ \ {h}]
    /\ bridge' = [bridge EXCEPT ![s][h] = NewBridge(FALSE, FALSE)]
    /\ UNCHANGED <<tableVars, boards, linkVars, faults>>

(* move_objects: the crew plays, verified or not.                             *)
Play(s, h) ==
    /\ h \in aboard[s]
    /\ bridge[s][h].state < MaxState
    /\ bridge' = [bridge EXCEPT ![s][h].state = @ + 1]
    /\ UNCHANGED <<tableVars, aboard, boards, linkVars, faults>>

(* queue_to_multiverse: on a connection that is not "up" the packets are      *)
(* lost, thrown away by packed_buffer_queue_init or written to a dead socket. *)
Queue(s, msgs) ==
    IF link[s] = "up"
    THEN /\ Len(up[s]) + Len(msgs) <= MaxQueue
         /\ up' = [up EXCEPT ![s] = @ \o msgs]
    ELSE UNCHANGED up

(* update_multiverse for a bridge nobody has asked about.                     *)
RequestVerification(s, h) ==
    /\ h \in aboard[s]
    /\ bridge[s][h].verified = "unverified"
    /\ ~bridge[s][h].requested
    /\ link[s] # "none"
    /\ bridge' = [bridge EXCEPT ![s][h].requested = TRUE]
    /\ Queue(s, <<Protocol!VerifyMsg(bridge[s][h].create, bridge[s][h].enforce, h)>>)
    /\ UNCHANGED <<tableVars, aboard, boards, link, oldUp, down, owed, garbled, oldGarbled, faults>>

(* Mutant: the state of a bridge is sent before it has been verified.         *)
ReportUnverified(s, h) ==
    /\ h \in aboard[s]
    /\ link[s] = "up"
    /\ Queue(s, <<Protocol!BridgeMsg(h, bridge[s][h].state), Protocol!GoodsMsg(h)>>)
    /\ UNCHANGED <<tableVars, serverVars, link, oldUp, down, owed, garbled, oldGarbled, faults>>

(* update_multiverse for a verified bridge, every ten seconds.                *)
ReportBridge(s, h) ==
    /\ h \in aboard[s]
    /\ bridge[s][h].verified = "verified"
    /\ link[s] = "up"
    /\ Queue(s, <<Protocol!BridgeMsg(h, bridge[s][h].state), Protocol!GoodsMsg(h)>>)
    /\ UNCHANGED <<tableVars, serverVars, link, oldUp, down, owed, garbled, oldGarbled, faults>>

-----------------------------------------------------------------------------
(* snis_multiverse: starsystem_read_thread of one connection.                 *)

(* The verdict of verify_existence on a request, before create_new_ship.  A   *)
(* ship last seen elsewhere is refused while its last save is recent enough,  *)
(* which the clock decides.                                                   *)
VerdictsOn(m, s) ==
    IF m.op = "verify_create"
    THEN IF m.hash \in known THEN {"fail"}
         ELSE IF TableFull THEN {"too_many_bridges"} ELSE {"pass"}
    ELSE IF m.hash \notin known THEN {"fail"}
         ELSE IF m.enforce /\ ship[m.hash].stamped /\ ship[m.hash].home # s
              THEN {"pass", "wrong_solarsystem"} ELSE {"pass"}

(* Mutant: the two opcodes are mixed up, and the ship is not created.         *)
CreatesExisting(m, verdict) == m.op = "verify_exists" /\ verdict = "pass"

Creates(m, verdict) == m.op = "verify_create" /\ verdict = "pass"
Resumes(m, verdict) == m.op = "verify_exists" /\ verdict = "pass"

IsVerify(m) == m.op \in {"verify_create", "verify_exists"}

CanRead(s) == mvUp /\ ~garbled[s] /\ owed[s] = Nobody /\ up[s] # <<>>
(* Mutant: what else has been received is thrown away with the packet read.   *)
ConsumeAll(s) == up' = [up EXCEPT ![s] = <<>>]

Consume(s) == up' = [up EXCEPT ![s] = Tail(@)]

(* verify_existence: the verdict is taken and the ship created under          *)
(* data_mutex; the response is queued, and the ship's state is looked up      *)
(* again and queued behind it, after data_mutex was given back (SendOwed).    *)
MvVerify(s) ==
    /\ CanRead(s)
    /\ LET m == Head(up[s]) IN
       /\ IsVerify(m)
       /\ \E verdict \in VerdictsOn(m, s) :
          /\ IF Creates(m, verdict) THEN Create(m.hash) ELSE UNCHANGED tableVars
          /\ down' = [down EXCEPT ![s] = Append(@, Protocol!VerdictMsg(m.hash, verdict))]
          /\ owed' = [owed EXCEPT ![s] = IF Resumes(m, verdict) THEN m.hash ELSE @]
    /\ Consume(s)
    /\ UNCHANGED <<serverVars, link, oldUp, garbled, oldGarbled, faults>>

(* send_bridge_update_to_snis_server                                          *)
SendOwed(s) ==
    /\ mvUp
    /\ owed[s] # Nobody
    /\ down' = [down EXCEPT ![s] =
                   @ \o <<Protocol!BridgeMsg(owed[s], ship[owed[s]].state),
                          Protocol!GoodsMsg(owed[s])>>]
    /\ owed' = [owed EXCEPT ![s] = Nobody]
    /\ UNCHANGED <<tableVars, serverVars, link, up, oldUp, garbled, oldGarbled, faults>>

(* update_bridge: all of the packet is read before the ship is looked up, so  *)
(* an unknown hash is skipped.                                                *)
MvUpdateBridge(s) ==
    /\ CanRead(s)
    /\ LET m == Head(up[s]) IN
       /\ m.op = "update_bridge"
       /\ IF m.hash \in known THEN Apply(m.hash, m.state, s) ELSE UNCHANGED tableVars
    /\ Consume(s)
    /\ UNCHANGED <<serverVars, link, oldUp, down, owed, garbled, oldGarbled, faults>>

(* update_bridge_cargo and update_bridge_passengers: for an unknown hash they *)
(* return before the length and the payload are read.                         *)
MvUpdateGoods(s) ==
    /\ CanRead(s)
    /\ LET m == Head(up[s]) IN
       /\ m.op = "update_goods"
       /\ garbled' = [garbled EXCEPT ![s] = m.hash \notin known]
    /\ Consume(s)
    /\ UNCHANGED <<tableVars, serverVars, link, oldUp, down, owed, oldGarbled, faults>>

(* What is left unread is then read as opcodes.  Zero, the first bytes of any *)
(* length, is SNISMV_OPCODE_NOOP, and other small numbers are requests, which *)
(* take as many of the following bytes as they need, be they another packet's *)
(* (n packets, the last perhaps in part).  A hash read so is nobody's: an     *)
(* update of it is skipped, what is answered names no crew, but a request to  *)
(* create it fills an entry.  The reader may meet a boundary again by chance. *)
Misread(s, queue, lost) ==
    /\ mvUp
    /\ lost[s]
    /\ \E n \in 0 .. Len(queue[s]) : queue' = [queue EXCEPT ![s] = SubSeq(@, n + 1, Len(@))]
    /\ \E still \in BOOLEAN : lost' = [lost EXCEPT ![s] = still]
    /\ CreateStrays \/ UNCHANGED tableVars

MvMisreads(s) ==
    /\ Misread(s, up, garbled)
    /\ UNCHANGED <<serverVars, link, oldUp, down, owed, oldGarbled, faults>>

(* process_instructions_from_snis_server meets a byte that is no opcode: the  *)
(* connection is closed, whatever was still to be read.                       *)
MvHangUp(s) ==
    /\ mvUp
    /\ garbled[s]
    /\ garbled' = [garbled EXCEPT ![s] = FALSE]
    /\ link' = [link EXCEPT ![s] = "dead"]
    /\ up' = [up EXCEPT ![s] = <<>>]
    /\ UNCHANGED <<tableVars, serverVars, oldUp, down, owed, oldGarbled, faults>>

-----------------------------------------------------------------------------
(* A connection the server has given up still has its threads in the          *)
(* multiverse, and what is in its socket is read like anything else.  The     *)
(* answers go nowhere.                                                        *)
OldRead(s) ==
    /\ mvUp
    /\ ~oldGarbled[s]
    /\ oldUp[s] # <<>>
    /\ LET m == Head(oldUp[s]) IN
       /\ \/ /\ IsVerify(m)
             /\ \E verdict \in VerdictsOn(m, s) :
                   IF Creates(m, verdict) THEN Create(m.hash) ELSE UNCHANGED tableVars
          \/ /\ m.op = "update_bridge"
             /\ IF m.hash \in known THEN Apply(m.hash, m.state, s) ELSE UNCHANGED tableVars
          \/ /\ m.op = "update_goods"
             /\ UNCHANGED tableVars
       /\ oldGarbled' = [oldGarbled EXCEPT ![s] = m.op = "update_goods" /\ m.hash \notin known]
    /\ oldUp' = [oldUp EXCEPT ![s] = Tail(@)]
    /\ UNCHANGED <<serverVars, link, up, down, owed, garbled, faults>>

OldMisreads(s) ==
    /\ Misread(s, oldUp, oldGarbled)
    /\ UNCHANGED <<serverVars, link, up, down, owed, garbled, faults>>

(* The end of a given-up connection: the rest of it never arrives, or is not  *)
(* read after a byte that is no opcode.                                       *)
OldEnds(s) ==
    /\ oldUp[s] # <<>> \/ oldGarbled[s]
    /\ oldUp' = [oldUp EXCEPT ![s] = <<>>]
    /\ oldGarbled' = [oldGarbled EXCEPT ![s] = FALSE]
    /\ UNCHANGED <<tableVars, serverVars, link, up, down, owed, garbled, faults>>

-----------------------------------------------------------------------------
(* snis_server: multiverse_reader and the connection.                         *)

(* The server shuts its socket down and sets sock to -1.  bound: if an older  *)
(* connection is still being read, the two are read one after the other, and  *)
(* like one whose boundaries are lost if those of either are.                 *)
GiveUp(s) ==
    /\ link' = [link EXCEPT ![s] = "none"]
    /\ oldUp' = [oldUp EXCEPT ![s] = @ \o up[s]]
    /\ oldGarbled' = [oldGarbled EXCEPT ![s] = @ \/ garbled[s]]
    /\ up' = [up EXCEPT ![s] = <<>>]
    /\ down' = [down EXCEPT ![s] = <<>>]
    /\ owed' = [owed EXCEPT ![s] = Nobody]
    /\ garbled' = [garbled EXCEPT ![s] = FALSE]

(* The process is gone, and everybody aboard with it.                         *)
ServerDies(s) ==
    /\ aboard' = [aboard EXCEPT ![s] = {}]
    /\ bridge' = [bridge EXCEPT ![s] = [h \in Hashes |-> NewBridge(FALSE, FALSE)]]
    /\ GiveUp(s)

CanReceive(s) == link[s] \in {"up", "dead"} /\ down[s] # <<>>

(* Mutant: the code "fail" is not told from "pass".                           *)
VerifiedByAnyAnswer(b, verdict) ==
    CASE verdict = "too_many_bridges" -> "refused"
      [] verdict = "wrong_solarsystem" -> IF b.enforce THEN "wrong_solarsystem" ELSE b.verified
      [] OTHER -> "verified"

(* What process_multiverse_verification makes of a verdict.                   *)
VerifiedAfter(b, verdict) ==
    CASE verdict = "pass" -> "verified"
      [] verdict = "too_many_bridges" -> "refused"
      [] verdict = "wrong_solarsystem" -> IF b.enforce THEN "wrong_solarsystem" ELSE b.verified
      [] verdict = "fail" -> "failed"

(* process_multiverse_verification for a bridge it finds, and for one it does *)
(* not: then the name that follows a "wrong_solarsystem" stays unread.        *)
ServerVerdict(s) ==
    /\ CanReceive(s)
    /\ LET m == Head(down[s]) IN
       /\ m.op = "verification_response"
       /\ m.hash \in aboard[s] \/ m.verdict # "wrong_solarsystem"
       /\ bridge' = IF m.hash \in aboard[s]
                    THEN [bridge EXCEPT ![s][m.hash].verified =
                                            VerifiedAfter(bridge[s][m.hash], m.verdict)]
                    ELSE bridge
    /\ down' = [down EXCEPT ![s] = Tail(@)]
    /\ UNCHANGED <<tableVars, aboard, boards, link, up, oldUp, owed, garbled, oldGarbled, faults>>

(* process_update_bridge, process_multiverse_update_bridge_cargo and          *)
(* _passengers for a bridge that is aboard: the ship becomes what the         *)
(* multiverse says, whatever its crew did in the meantime.                    *)
ServerUpdate(s) ==
    /\ CanReceive(s)
    /\ LET m == Head(down[s]) IN
       /\ m.op \in {"update_bridge", "update_goods"}
       /\ m.hash \in aboard[s]
       /\ bridge' = IF m.op = "update_bridge"
                    THEN [bridge EXCEPT ![s][m.hash].state = m.state]
                    ELSE bridge
    /\ down' = [down EXCEPT ![s] = Tail(@)]
    /\ UNCHANGED <<tableVars, aboard, boards, link, up, oldUp, owed, garbled, oldGarbled, faults>>

(* The three cases multiverse_reader takes for a protocol error: an update or *)
(* the unread rest of a verdict for a crew that has left.                     *)
ServerConfused(s) ==
    /\ CanReceive(s)
    /\ LET m == Head(down[s]) IN
       /\ m.hash \notin aboard[s]
       /\ m.op = "verification_response" => m.verdict = "wrong_solarsystem"
    /\ GiveUp(s)
    /\ UNCHANGED <<tableVars, serverVars, faults>>

(* The unread rest of a "wrong_solarsystem" is the length and the name of a   *)
(* solar system.  Read as opcodes, the length of a name of six letters is     *)
(* SNISMV_OPCODE_SHUTDOWN_SNIS_SERVER.                                        *)
ServerMisled(s) ==
    /\ CanReceive(s)
    /\ LET m == Head(down[s]) IN
       /\ m.hash \notin aboard[s]
       /\ m.op = "verification_response"
       /\ m.verdict = "wrong_solarsystem"
    /\ ServerDies(s)
    /\ UNCHANGED <<tableVars, boards, faults>>

(* multiverse_reader or write_queued_packets_to_mvserver fails on a socket    *)
(* whose other end is gone; what was still unread is lost with it.            *)
ServerNotices(s) ==
    /\ link[s] = "dead"
    /\ GiveUp(s)
    /\ UNCHANGED <<tableVars, serverVars, faults>>

(* connect_to_multiverse, up to the assignment of sock and from there on.     *)
Dial(s) ==
    /\ mvUp
    /\ link[s] = "none"
    /\ link' = [link EXCEPT ![s] = "dialing"]
    /\ UNCHANGED <<tableVars, serverVars, up, oldUp, down, owed, garbled, oldGarbled, faults>>

Connect(s) ==
    /\ link[s] = "dialing"
    /\ link' = [link EXCEPT ![s] = "up"]
    /\ UNCHANGED <<tableVars, serverVars, up, oldUp, down, owed, garbled, oldGarbled, faults>>

-----------------------------------------------------------------------------
(* Faults.                                                                    *)

(* The network, or servers_changed_cb through disconnect_from_multiverse.     *)
Break(s) ==
    /\ faults < MaxFaults
    /\ link[s] = "up"
    /\ GiveUp(s)
    /\ faults' = faults + 1
    /\ UNCHANGED <<tableVars, serverVars>>

(* snis_server dies, by SNISMV_OPCODE_SHUTDOWN_SNIS_SERVER or otherwise.      *)
ServerCrash(s) ==
    /\ faults < MaxFaults
    /\ ServerDies(s)
    /\ faults' = faults + 1
    /\ UNCHANGED <<tableVars, boards>>

(* snis_multiverse dies: what it has written can still be read, and the       *)
(* servers have yet to find out.                                              *)
MvCrash ==
    /\ faults < MaxFaults
    /\ Crash
    /\ link' = [s \in Systems |-> IF link[s] = "none" THEN "none" ELSE "dead"]
    /\ up' = [s \in Systems |-> <<>>]
    /\ oldUp' = [s \in Systems |-> <<>>]
    /\ owed' = [s \in Systems |-> Nobody]
    /\ garbled' = [s \in Systems |-> FALSE]
    /\ oldGarbled' = [s \in Systems |-> FALSE]
    /\ faults' = faults + 1
    /\ UNCHANGED <<serverVars, down>>

MvRestart ==
    /\ Restart
    /\ UNCHANGED <<serverVars, linkVars, faults>>

(* checkpoint_data                                                            *)
MvCheckpoint(h) ==
    /\ Save(h) \/ SaveShort(h) \/ SaveFails(h)
    /\ UNCHANGED <<serverVars, linkVars, faults>>

-----------------------------------------------------------------------------
Crew(s, h) ==
    \/ \E create, enforce \in BOOLEAN : Board(s, h, create, enforce)
    \/ Leave(s, h)
    \/ Play(s, h)
    \/ RequestVerification(s, h)
    \/ ReportBridge(s, h)

MvReader(s) ==
    \/ MvVerify(s)
    \/ SendOwed(s)
    \/ MvUpdateBridge(s)
    \/ MvUpdateGoods(s)

ServerReader(s) ==
    \/ ServerVerdict(s)
    \/ ServerUpdate(s)
    \/ ServerConfused(s)
    \/ ServerMisled(s)
    \/ ServerNotices(s)

Next ==
    \/ \E s \in Systems :
          \/ \E h \in Hashes : Crew(s, h)
          \/ MvReader(s)
          \/ MvMisreads(s) \/ MvHangUp(s)
          \/ OldRead(s) \/ OldMisreads(s) \/ OldEnds(s)
          \/ ServerReader(s)
          \/ Dial(s) \/ Connect(s)
          \/ Break(s) \/ ServerCrash(s)
    \/ \E h \in Hashes : MvCheckpoint(h)
    \/ MvCrash
    \/ MvRestart

Spec == Init /\ [][Next]_vars

(* Each thread of a running process keeps going: the reader thread of a       *)
(* connection in the multiverse, multiverse_reader in a server, and           *)
(* connect_to_multiverse once it has a socket.  Nothing is assumed of a       *)
(* reader that has lost the packet boundaries: it may wait for ever for the   *)
(* rest of a packet that nobody has sent.                                     *)
Fairness ==
    \A s \in Systems :
        /\ WF_vars(MvReader(s))
        /\ WF_vars(ServerReader(s))
        /\ WF_vars(Connect(s))

FairSpec == Spec /\ Fairness

-----------------------------------------------------------------------------
(* Properties.                                                                *)

(* The ships a crash has taken: a former run knew them and left no file of    *)
(* them, so no restart brings them back.                                      *)
Lost == forgotten \ (saved \cup leftover)

(* The ships the multiverse knows, or would but for a crash before their      *)
(* first checkpoint.  A multiverse that is down knows nothing: then it is all *)
(* the ships of former runs.                                                  *)
Recorded == IF mvUp THEN known \cup Lost ELSE forgotten

InFlight(q) == {q[i] : i \in DOMAIN q}

(* A crew that a server takes for verified flies a ship the multiverse has an *)
(* entry for, and so does one whose "pass" is still on its way: whatever the  *)
(* order of boarding, leaving, verdicts and broken connections, only a crash  *)
(* of the multiverse before the first checkpoint comes between the two.       *)
(* (verify_existence, process_multiverse_verification)                        *)
VerifiedMeansRecorded ==
    \A s \in Systems :
        /\ \A h \in aboard[s] : bridge[s][h].verified = "verified" => h \in Recorded
        /\ \A m \in InFlight(down[s]) :
              m.op = "verification_response" /\ m.verdict = "pass" => m.hash \in Recorded

(* Nobody reports a ship the multiverse never had, on a connection in use or  *)
(* on one given up: update_multiverse reports verified bridges only.          *)
UpdatesNameRecordedShips ==
    \A s \in Systems : \A m \in InFlight(up[s]) \cup InFlight(oldUp[s]) :
        ~IsVerify(m) => m.hash \in Recorded

(* The multiverse loses the packet boundaries of a connection (the early      *)
(* return of update_bridge_cargo) only after it has lost a ship in a crash,   *)
(* which it had never tried to save.  Giving a connection up adds none: it    *)
(* takes the loss with it.                                                    *)
DesyncOnlyAfterLoss ==
    [][\A s \in Systems :
          \/ garbled'[s] /\ ~garbled[s]
          \/ oldGarbled'[s] /\ ~oldGarbled[s] /\ ~garbled[s]
          => Lost # {}]_vars

(* restore_data and create_new_ship together never overfill ship[], although  *)
(* a ship whose save was interrupted takes two entries after a restart.       *)
TableFits == Cardinality(known) <= slots /\ slots <= MaxShips

(* A request that has reached the connection is answered, unless the crew     *)
(* leaves, the connection fails or the reader loses the packet boundaries     *)
(* first (then it may be taken for the payload of some packet): no verdict is *)
(* lost or swallowed by the packets of other ships, of an earlier crew or of  *)
(* the state that follows a verdict.                                          *)
Waiting(s, h) ==
    /\ link[s] = "up"
    /\ h \in aboard[s]
    /\ bridge[s][h].verified = "unverified"

Answered ==
    \A s \in Systems, h \in Hashes :
        (Waiting(s, h) /\ \E m \in InFlight(up[s]) : IsVerify(m) /\ m.hash = h)
            ~> ~Waiting(s, h) \/ garbled[s]

(* Once a crew has created a ship, no other crew creates it too: "for         *)
(* ensuring that players don't create a new ship with the same name and       *)
(* password as an existing ship" (hacking-space-nerds-in-space.html).         *)
NoSecondCreate ==
    \A s, t \in Systems, h \in Hashes :
        /\ h \in aboard[s] /\ bridge[s][h].create /\ bridge[s][h].verified = "verified"
        /\ h \in aboard[t] /\ bridge[t][h].create /\ bridge[t][h].verified = "verified"
        => s = t

(* A ship that some crew flies as its own, or is about to be told it may, is  *)
(* created a second time only when a crash took it before anything of it was  *)
(* written: a checkpoint, even one that failed halfway, is enough to have     *)
(* every later creation answered "fail" (verify_existence, restore_data).     *)
Promised(h) ==
    \E s \in Systems :
        \/ h \in aboard[s] /\ bridge[s][h].verified = "verified"
        \/ \E m \in InFlight(down[s]) :
              m.op = "verification_response" /\ m.verdict = "pass" /\ m.hash = h

SecondCreateNeedsLoss ==
    [][\A h \in Hashes : mvUp /\ Promised(h) /\ h \in known' \ known => h \in Lost]_vars

(* A bridge state the multiverse holds is carried over to the server that the *)
(* crew enters; it is never replaced by the freshly spawned ship that server  *)
(* holds until the state arrives (hacking-space-nerds-in-space.html).         *)
StateCarriedOver ==
    [][\A h \in known \cap known' :
          ship[h].state # Fresh => ship'[h].state # Fresh]_vars
=============================================================================
