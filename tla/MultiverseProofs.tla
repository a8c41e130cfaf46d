--------------------------- MODULE MultiverseProofs ---------------------------
(* Proofs about Multiverse, for any number of systems and ships and any       *)
(* bounds.                                                                    *)
EXTENDS Multiverse, FiniteSetTheorems, TLAPS

-----------------------------------------------------------------------------
(* Queues.                                                                    *)

LEMMA InFlightEmpty == InFlight(<<>>) = {}
  BY DEF InFlight

LEMMA InFlightAppend ==
  ASSUME NEW S, NEW q \in Seq(S), NEW m \in S
  PROVE  /\ Append(q, m) \in Seq(S)
         /\ InFlight(Append(q, m)) = InFlight(q) \cup {m}
<1>1. Append(q, m) \in Seq(S) /\ Len(Append(q, m)) = Len(q) + 1 /\ Len(q) \in Nat
  OBVIOUS
<1>2. DOMAIN Append(q, m) = 1 .. Len(q) + 1 /\ DOMAIN q = 1 .. Len(q)
  BY <1>1
<1>3. Append(q, m)[Len(q) + 1] = m /\ \A i \in 1 .. Len(q) : Append(q, m)[i] = q[i]
  OBVIOUS
<1>4. \A i \in 1 .. Len(q) + 1 : i \in 1 .. Len(q) \/ i = Len(q) + 1
  BY <1>1
<1>5. Len(q) + 1 \in 1 .. Len(q) + 1 /\ 1 .. Len(q) \subseteq 1 .. Len(q) + 1
  BY <1>1
<1>6. InFlight(Append(q, m)) \subseteq InFlight(q) \cup {m}
  BY <1>2, <1>3, <1>4 DEF InFlight
<1>7. InFlight(q) \cup {m} \subseteq InFlight(Append(q, m))
  BY <1>2, <1>3, <1>5 DEF InFlight
<1>. QED  BY <1>1, <1>6, <1>7

LEMMA InFlightConcat ==
  ASSUME NEW S, NEW q \in Seq(S), NEW r \in Seq(S)
  PROVE  /\ q \o r \in Seq(S)
         /\ InFlight(q \o r) = InFlight(q) \cup InFlight(r)
<1>1. q \o r \in Seq(S) /\ Len(q \o r) = Len(q) + Len(r)
  OBVIOUS
<1>2. InFlight(q \o r) \subseteq InFlight(q) \cup InFlight(r)
  BY <1>1 DEF InFlight
<1>3. InFlight(q) \subseteq InFlight(q \o r)
  BY <1>1 DEF InFlight
<1>4. ASSUME NEW m \in InFlight(r) PROVE m \in InFlight(q \o r)
  <2>1. PICK i \in DOMAIN r : m = r[i]
    BY DEF InFlight
  <2>2. Len(q) + i \in DOMAIN (q \o r) /\ (q \o r)[Len(q) + i] = r[i]
    BY <1>1
  <2>. QED  BY <2>1, <2>2 DEF InFlight
<1>. QED  BY <1>1, <1>2, <1>3, <1>4

LEMMA InFlightTail ==
  ASSUME NEW S, NEW q \in Seq(S), q # <<>>
  PROVE  /\ Tail(q) \in Seq(S)
         /\ InFlight(Tail(q)) \subseteq InFlight(q)
         /\ Head(q) \in InFlight(q)
         /\ Head(q) \in S
  BY DEF InFlight

LEMMA InFlightRest ==
  ASSUME NEW S, NEW q \in Seq(S), NEW n \in 0 .. Len(q)
  PROVE  /\ SubSeq(q, n + 1, Len(q)) \in Seq(S)
         /\ InFlight(SubSeq(q, n + 1, Len(q))) \subseteq InFlight(q)
<1>. DEFINE r == SubSeq(q, n + 1, Len(q))
<1>1. r \in Seq(S) /\ Len(r) = Len(q) - n /\ Len(q) \in Nat
  OBVIOUS
<1>2. ASSUME NEW i \in 1 .. Len(q) - n PROVE r[i] = q[n + i] /\ n + i \in 1 .. Len(q)
  OBVIOUS
<1>3. DOMAIN r = 1 .. Len(q) - n /\ DOMAIN q = 1 .. Len(q)
  BY <1>1
<1>. HIDE DEF r
<1>4. InFlight(r) \subseteq InFlight(q)
  BY <1>2, <1>3 DEF InFlight
<1>. QED  BY <1>1, <1>4 DEF r

LEMMA InFlightOneMore ==
  ASSUME NEW S, NEW q \in Seq(S), NEW m \in S
  PROVE  q \o <<m>> \in Seq(S) /\ InFlight(q \o <<m>>) = InFlight(q) \cup {m}
<1>. DEFINE r == <<m>>
<1>1. r \in Seq(S) /\ InFlight(r) = {m}
  BY DEF InFlight
<1>. HIDE DEF r
<1>2. q \o r \in Seq(S) /\ InFlight(q \o r) = InFlight(q) \cup {m}
  BY <1>1, InFlightConcat
<1>. QED  BY <1>2 DEF r

LEMMA InFlightTwoMore ==
  ASSUME NEW S, NEW q \in Seq(S), NEW m \in S, NEW n \in S
  PROVE  q \o <<m, n>> \in Seq(S) /\ InFlight(q \o <<m, n>>) = InFlight(q) \cup {m, n}
<1>. DEFINE r == <<m, n>>
<1>1. r \in Seq(S) /\ InFlight(r) = {m, n}
  BY DEF InFlight
<1>. HIDE DEF r
<1>2. q \o r \in Seq(S) /\ InFlight(q \o r) = InFlight(q) \cup {m, n}
  BY <1>1, InFlightConcat
<1>. QED  BY <1>2 DEF r

LEMMA MessageTypes ==
  ASSUME NEW h \in Hashes, NEW state \in States, NEW create \in BOOLEAN,
         NEW enforce \in BOOLEAN, NEW verdict \in Protocol!Verdicts
  PROVE  /\ Protocol!VerifyMsg(create, enforce, h) \in Protocol!ToMultiverse
         /\ Protocol!BridgeMsg(h, state) \in Protocol!ToMultiverse \cap Protocol!ToServer
         /\ Protocol!GoodsMsg(h) \in Protocol!ToMultiverse \cap Protocol!ToServer
         /\ Protocol!VerdictMsg(h, verdict) \in Protocol!ToServer
         /\ IsVerify(Protocol!VerifyMsg(create, enforce, h))
         /\ Protocol!BridgeMsg(h, state).hash = h
         /\ Protocol!GoodsMsg(h).hash = h
         /\ Protocol!BridgeMsg(h, state).op # "verification_response"
         /\ Protocol!GoodsMsg(h).op # "verification_response"
  BY DEF Protocol!VerifyMsg, Protocol!BridgeMsg, Protocol!GoodsMsg, Protocol!VerdictMsg,
         Protocol!ToMultiverse, Protocol!ToServer, Protocol!VerifyMsgs, Protocol!BridgeMsgs,
         Protocol!GoodsMsgs, Protocol!VerdictMsgs, IsVerify

LEMMA MessageFields ==
  /\ \A m \in Protocol!ToMultiverse :
        /\ m.hash \in Hashes
        /\ m.op = "update_bridge" => m.state \in States
        /\ IsVerify(m) => m.enforce \in BOOLEAN
  /\ \A m \in Protocol!ToServer :
        /\ m.hash \in Hashes
        /\ m.op = "update_bridge" => m.state \in States
        /\ m.op = "verification_response" => m.verdict \in Protocol!Verdicts
  BY DEF Protocol!ToMultiverse, Protocol!ToServer, Protocol!VerifyMsgs, Protocol!BridgeMsgs,
         Protocol!GoodsMsgs, Protocol!VerdictMsgs, IsVerify

-----------------------------------------------------------------------------
(* The table of ships.                                                        *)

LEMMA TableEntries ==
  /\ BlankEntry \in Entry /\ BlankContent \in Content
  /\ \A e \in Entry : /\ ContentOf(e) \in Content
                        /\ CutShort(e) \subseteq Content /\ Scraps(e) \subseteq Content
  /\ \A c \in Content : EntryOf(c) \in Entry
<1>1. Fresh \in States
  BY MaxStateAssumption DEF States, Fresh
<1>2. BlankEntry \in Entry /\ BlankContent \in Content
  BY <1>1 DEF BlankEntry, BlankContent, Entry, Content, Homes
<1>3. ASSUME NEW e \in Entry PROVE ContentOf(e) \in Content
  BY DEF ContentOf, Entry, Content
<1>4. ASSUME NEW c \in Content PROVE [c EXCEPT !.state = Fresh] \in Content
  BY <1>1 DEF Content
<1>5. ASSUME NEW e \in Entry PROVE CutShort(e) \subseteq Content /\ Scraps(e) \subseteq Content
  BY <1>2, <1>3, <1>4 DEF CutShort, Scraps
<1>6. ASSUME NEW c \in Content PROVE EntryOf(c) \in Entry
  BY DEF EntryOf, Entry, Content
<1>. QED  BY <1>2, <1>3, <1>5, <1>6

LEMMA AbandonType ==
  ASSUME TypeOK, NEW h \in Hashes, Abandon(h)
  PROVE  leftover' \in SUBSET Hashes /\ file' \in [Hashes -> Content]
  BY TableEntries DEF TypeOK, Abandon

(* A multiverse that runs knows every ship it has a file of, and has          *)
(* forgotten none of those it knows; one that does not run knows nothing, and *)
(* every file is of a ship some run knew.                                     *)
FilesAreKept ==
    IF mvUp THEN saved \cup leftover \subseteq known /\ known \cap forgotten = {}
    ELSE known = {} /\ saved \cup leftover \subseteq forgotten

LEMMA RecordedIs == FilesAreKept => Recorded = known \cup forgotten
  BY DEF FilesAreKept, Recorded, Lost

LEMMA TableTypeStep ==
  ASSUME TypeOK, TableNext \/ UNCHANGED tableVars
  PROVE  TypeOK'
<1>1. ASSUME NEW h \in Hashes, Create(h) PROVE TypeOK'
  BY <1>1, TableEntries DEF TypeOK, Create
<1>2. ASSUME NEW h \in Hashes, NEW state \in States, NEW home \in Systems, Apply(h, state, home)
      PROVE TypeOK'
  <2>1. PICK d \in BOOLEAN :
          ship' = [ship EXCEPT ![h] = [@ EXCEPT !.state = state, !.home = home, !.dirty = d]]
    BY <1>2 DEF Apply, TypeOK, Entry
  <2>2. ship' \in [Hashes -> Entry]
    BY <2>1 DEF TypeOK, Entry, Homes
  <2>. QED  BY <1>2, <2>2 DEF TypeOK, Apply
<1>3. ASSUME NEW h \in Hashes, Save(h) PROVE TypeOK'
  <2>1. ship' \in [Hashes -> Entry]
    BY <1>3 DEF TypeOK, Save, Entry
  <2>2. file' \in [Hashes -> Content]
    BY <1>3, TableEntries DEF TypeOK, Save
  <2>. QED  BY <1>3, <2>1, <2>2 DEF TypeOK, Save
<1>4. ASSUME NEW h \in Hashes, SaveFails(h) PROVE TypeOK'
  <2>1. ship' \in [Hashes -> Entry]
    BY <1>4 DEF TypeOK, SaveFails, Entry
  <2>2. leftover' \in SUBSET Hashes /\ file' \in [Hashes -> Content]
    BY <1>4, AbandonType DEF TypeOK, SaveFails
  <2>. QED  BY <1>4, <2>1, <2>2 DEF TypeOK, SaveFails
<1>5. ASSUME Crash PROVE TypeOK'
  <2>1. leftover' \in SUBSET Hashes /\ file' \in [Hashes -> Content]
    BY <1>5, AbandonType DEF TypeOK, Crash
  <2>. QED  BY <1>5, <2>1, TableEntries DEF TypeOK, Crash
<1>6. ASSUME Restart PROVE TypeOK'
  <2>1. Cardinality(saved) \in Nat /\ Cardinality(leftover) \in Nat
    BY HashesAssumption, FS_Subset, FS_CardinalityType DEF TypeOK
  <2>2. ship' \in [Hashes -> Entry]
    BY <1>6, TableEntries DEF TypeOK, Restart
  <2>. QED  BY <1>6, <2>1, <2>2 DEF TypeOK, Restart
<1>7. ASSUME UNCHANGED tableVars PROVE TypeOK'
  BY <1>7 DEF TypeOK, tableVars
<1>8. ASSUME NEW h \in Hashes, SaveShort(h) PROVE TypeOK'
  <2>1. ship' \in [Hashes -> Entry]
    BY <1>8 DEF TypeOK, SaveShort, Entry
  <2>2. PICK c \in CutShort(ship[h]) : file' = [file EXCEPT ![h] = c]
    BY <1>8 DEF SaveShort
  <2>3. file' \in [Hashes -> Content]
    BY <2>2, TableEntries DEF TypeOK
  <2>. QED  BY <1>8, <2>1, <2>3 DEF TypeOK, SaveShort
<1>9. ASSUME CreateStrays PROVE TypeOK'
  <2>1. slots' \in Nat
    BY <1>9, MaxShipsAssumption DEF TypeOK, CreateStrays
  <2>. QED  BY <1>9, <2>1 DEF TypeOK, CreateStrays
<1>. QED  BY <1>1, <1>2, <1>3, <1>4, <1>5, <1>6, <1>7, <1>8, <1>9 DEF TableNext

(* A file is written for a known ship only, and a restart reads them all.     *)
LEMMA FilesKeptStep ==
  ASSUME FilesAreKept, TableNext \/ UNCHANGED tableVars
  PROVE  FilesAreKept' /\ known \cup forgotten \subseteq known' \cup forgotten'
<1>1. ASSUME NEW h \in Hashes, Create(h)
      PROVE  FilesAreKept' /\ known \cup forgotten \subseteq known' \cup forgotten'
  BY <1>1 DEF Create, FilesAreKept
<1>2. CASE UNCHANGED <<mvUp, known, saved, leftover, forgotten>>
  BY <1>2 DEF FilesAreKept
<1>3. ASSUME NEW h \in Hashes, Save(h) \/ SaveShort(h) \/ SaveFails(h)
      PROVE  FilesAreKept' /\ known \cup forgotten \subseteq known' \cup forgotten'
  BY <1>3 DEF Save, SaveShort, SaveFails, Abandon, FilesAreKept
<1>4. CASE Crash
  <2>1. /\ mvUp /\ ~mvUp' /\ known' = {} /\ forgotten' = forgotten \cup known
        /\ saved' = saved /\ leftover' \subseteq leftover \cup known
    BY <1>4 DEF Crash, Abandon
  <2>. QED  BY <2>1 DEF FilesAreKept
<1>5. CASE Restart
  BY <1>5 DEF Restart, FilesAreKept
<1>. QED  BY <1>1, <1>2, <1>3, <1>4, <1>5 DEF TableNext, Apply, CreateStrays, tableVars

LEMMA TableStep ==
  ASSUME TypeOK, FilesAreKept, TableNext \/ UNCHANGED tableVars
  PROVE  TypeOK' /\ Recorded \subseteq Recorded' /\ FilesAreKept'
<1>1. FilesAreKept' /\ known \cup forgotten \subseteq known' \cup forgotten'
  BY FilesKeptStep
<1>2. Recorded = known \cup forgotten
  BY RecordedIs
<1>3. Recorded' = known' \cup forgotten'
  BY <1>1 DEF FilesAreKept, Recorded, Lost
<1>. QED  BY <1>1, <1>2, <1>3, TableTypeStep

-----------------------------------------------------------------------------
(* The inductive invariant.  A crew becomes verified by a "pass" in flight, a *)
(* report is sent by a verified crew: the two invariants need each other, and *)
(* both need that no step makes the multiverse lose a record without trace.   *)
IInv ==
    /\ MultiverseTypeOK
    /\ FilesAreKept
    /\ VerifiedMeansRecorded
    /\ UpdatesNameRecordedShips

(* What a step must leave alone for the invariants to carry over.             *)
SameTraffic ==
    \A s \in Systems :
        /\ InFlight(up'[s]) \cup InFlight(oldUp'[s]) \subseteq InFlight(up[s]) \cup InFlight(oldUp[s])
        /\ InFlight(down'[s]) \subseteq InFlight(down[s])

NobodyNewlyVerified ==
    \A s \in Systems : \A h \in aboard'[s] :
        bridge'[s][h].verified = "verified" =>
            h \in aboard[s] /\ bridge[s][h].verified = "verified"

LEMMA CarryOver ==
  ASSUME IInv, Recorded \subseteq Recorded', SameTraffic, NobodyNewlyVerified
  PROVE  VerifiedMeansRecorded' /\ UpdatesNameRecordedShips'
  BY DEF IInv, SameTraffic, NobodyNewlyVerified, VerifiedMeansRecorded, UpdatesNameRecordedShips

LEMMA TableUnchanged ==
  ASSUME IInv, UNCHANGED tableVars
  PROVE  TypeOK' /\ FilesAreKept' /\ Recorded' = Recorded
<1>1. TypeOK' /\ FilesAreKept'
  BY TableStep DEF IInv, MultiverseTypeOK
<1>2. Recorded' = Recorded
  BY DEF Recorded, Lost, tableVars
<1>. QED  BY <1>1, <1>2

LEMMA NewBridgeType ==
  ASSUME NEW create \in BOOLEAN, NEW enforce \in BOOLEAN
  PROVE  NewBridge(create, enforce) \in Bridge /\ NewBridge(create, enforce).verified = "unverified"
<1>1. Fresh \in States
  BY MaxStateAssumption DEF States, Fresh
<1>. QED  BY <1>1 DEF NewBridge, Bridge, VerifiedCodes

(* Giving up a connection moves its packets, and drops those to the server.   *)
LEMMA GiveUpStep ==
  ASSUME IInv, NEW s \in Systems, GiveUp(s)
  PROVE  LinksTypeOK' /\ SameTraffic
<1>. USE DEF IInv, MultiverseTypeOK, LinksTypeOK
<1>1. oldUp'[s] \in Seq(Protocol!ToMultiverse)
      /\ InFlight(oldUp'[s]) \subseteq InFlight(up[s]) \cup InFlight(oldUp[s])
  BY InFlightConcat DEF GiveUp
<1>2. /\ up' = [up EXCEPT ![s] = <<>>] /\ down' = [down EXCEPT ![s] = <<>>]
      /\ link' = [link EXCEPT ![s] = "none"] /\ owed' = [owed EXCEPT ![s] = Nobody]
      /\ garbled' = [garbled EXCEPT ![s] = FALSE]
      /\ oldUp' = [oldUp EXCEPT ![s] = oldUp'[s]]
      /\ oldGarbled' = [oldGarbled EXCEPT ![s] = @ \/ garbled[s]]
  BY DEF GiveUp
<1>3. LinksTypeOK'
  <2>1. /\ link' \in [Systems -> Links] /\ garbled' \in [Systems -> BOOLEAN]
        /\ oldGarbled' \in [Systems -> BOOLEAN]
    BY <1>2 DEF Links
  <2>2. owed' \in [Systems -> Hashes \cup {Nobody}]
    BY <1>2
  <2>3. up' \in [Systems -> Seq(Protocol!ToMultiverse)] /\ down' \in [Systems -> Seq(Protocol!ToServer)]
    <3>1. <<>> \in Seq(Protocol!ToMultiverse) /\ <<>> \in Seq(Protocol!ToServer)
      OBVIOUS
    <3>. QED  BY <1>2, <3>1
  <2>4. oldUp' \in [Systems -> Seq(Protocol!ToMultiverse)]
    BY <1>1, <1>2
  <2>. QED  BY <2>1, <2>2, <2>3, <2>4
<1>4. SameTraffic
  BY <1>1, <1>2, InFlightEmpty DEF SameTraffic
<1>. QED  BY <1>3, <1>4

-----------------------------------------------------------------------------
(* One lemma for each kind of step.                                           *)

LEMMA CrewStep ==
  ASSUME IInv, NEW s \in Systems, NEW h \in Hashes, Crew(s, h)
  PROVE  IInv'
<1>. USE DEF IInv, MultiverseTypeOK
<1>1. UNCHANGED tableVars /\ UNCHANGED faults
  BY DEF Crew, Board, Leave, Play, RequestVerification, ReportBridge
<1>2. TypeOK' /\ FilesAreKept' /\ Recorded' = Recorded /\ faults' \in Nat
  BY <1>1, TableUnchanged
<1>3. ASSUME NEW create \in BOOLEAN, NEW enforce \in BOOLEAN, Board(s, h, create, enforce)
      PROVE IInv'
  <2>1. BridgesTypeOK' /\ NobodyNewlyVerified
    BY <1>3, NewBridgeType DEF Board, BridgesTypeOK, NobodyNewlyVerified
  <2>2. LinksTypeOK' /\ SameTraffic
    BY <1>3 DEF Board, linkVars, LinksTypeOK, SameTraffic
  <2>. QED  BY <1>2, <2>1, <2>2, CarryOver
<1>4. ASSUME Leave(s, h) PROVE IInv'
  <2>1. BridgesTypeOK' /\ NobodyNewlyVerified
    BY <1>4, NewBridgeType DEF Leave, BridgesTypeOK, NobodyNewlyVerified
  <2>2. LinksTypeOK' /\ SameTraffic
    BY <1>4 DEF Leave, linkVars, LinksTypeOK, SameTraffic
  <2>. QED  BY <1>2, <2>1, <2>2, CarryOver
<1>5. ASSUME Play(s, h) PROVE IInv'
  <2>1. bridge[s][h] \in Bridge
    BY DEF BridgesTypeOK
  <2>2. bridge[s][h].state + 1 \in States
    BY <1>5, <2>1, MaxStateAssumption DEF Play, Bridge, States, Fresh
  <2>3. BridgesTypeOK' /\ NobodyNewlyVerified
    BY <1>5, <2>1, <2>2 DEF Play, BridgesTypeOK, NobodyNewlyVerified, Bridge
  <2>4. LinksTypeOK' /\ SameTraffic
    BY <1>5 DEF Play, linkVars, LinksTypeOK, SameTraffic
  <2>. QED  BY <1>2, <2>3, <2>4, CarryOver
<1>6. ASSUME RequestVerification(s, h) PROVE IInv'
  <2>. DEFINE msg == Protocol!VerifyMsg(bridge[s][h].create, bridge[s][h].enforce, h)
  <2>1. bridge[s][h] \in Bridge
    BY DEF BridgesTypeOK
  <2>2. msg \in Protocol!ToMultiverse /\ IsVerify(msg)
    <3>1. bridge[s][h].create \in BOOLEAN /\ bridge[s][h].enforce \in BOOLEAN
      BY <2>1 DEF Bridge
    <3>. QED  BY <3>1, MessageTypes DEF Protocol!VerifyMsg, Protocol!ToMultiverse,
                Protocol!VerifyMsgs, IsVerify
  <2>3. BridgesTypeOK' /\ NobodyNewlyVerified
    BY <1>6, <2>1 DEF RequestVerification, BridgesTypeOK, NobodyNewlyVerified, Bridge
  <2>4. up' = up \/ up' = [up EXCEPT ![s] = @ \o <<msg>>]
    BY <1>6 DEF RequestVerification, Queue
  <2>. HIDE DEF msg
  <2>5. /\ up[s] \o <<msg>> \in Seq(Protocol!ToMultiverse)
        /\ InFlight(up[s] \o <<msg>>) = InFlight(up[s]) \cup {msg}
    BY <2>2, InFlightOneMore DEF LinksTypeOK
  <2>6. up' \in [Systems -> Seq(Protocol!ToMultiverse)]
        /\ \A t \in Systems : InFlight(up'[t]) \subseteq InFlight(up[t]) \cup {msg}
    BY <2>4, <2>5 DEF LinksTypeOK
  <2>7. LinksTypeOK' /\ down' = down /\ oldUp' = oldUp
    BY <1>6, <2>6 DEF RequestVerification, LinksTypeOK
  <2>8. UpdatesNameRecordedShips'
    BY <1>2, <2>2, <2>6, <2>7 DEF UpdatesNameRecordedShips
  <2>9. VerifiedMeansRecorded'
    BY <1>2, <2>3, <2>7 DEF VerifiedMeansRecorded, NobodyNewlyVerified
  <2>. QED  BY <1>2, <2>3, <2>7, <2>8, <2>9
<1>7. ASSUME ReportBridge(s, h) PROVE IInv'
  <2>. DEFINE msg == Protocol!BridgeMsg(h, bridge[s][h].state)
              goods == Protocol!GoodsMsg(h)
  <2>1. bridge[s][h].state \in States
    BY DEF BridgesTypeOK, Bridge
  <2>2. msg \in Protocol!ToMultiverse /\ goods \in Protocol!ToMultiverse
        /\ msg.hash = h /\ goods.hash = h
    BY <2>1 DEF Protocol!BridgeMsg, Protocol!GoodsMsg, Protocol!ToMultiverse,
                Protocol!BridgeMsgs, Protocol!GoodsMsgs
  <2>3. h \in Recorded
    BY <1>7 DEF ReportBridge, VerifiedMeansRecorded
  <2>4. up' = [up EXCEPT ![s] = @ \o <<msg, goods>>]
    BY <1>7 DEF ReportBridge, Queue
  <2>. HIDE DEF msg, goods
  <2>5. /\ up[s] \o <<msg, goods>> \in Seq(Protocol!ToMultiverse)
        /\ InFlight(up[s] \o <<msg, goods>>) = InFlight(up[s]) \cup {msg, goods}
    BY <2>2, InFlightTwoMore DEF LinksTypeOK
  <2>6. up' \in [Systems -> Seq(Protocol!ToMultiverse)]
        /\ \A t \in Systems : InFlight(up'[t]) \subseteq InFlight(up[t]) \cup {msg, goods}
    BY <2>4, <2>5 DEF LinksTypeOK
  <2>7. LinksTypeOK' /\ BridgesTypeOK' /\ down' = down /\ oldUp' = oldUp
        /\ aboard' = aboard /\ bridge' = bridge
    BY <1>7, <2>6 DEF ReportBridge, LinksTypeOK, BridgesTypeOK, serverVars
  <2>8. UpdatesNameRecordedShips'
    BY <1>2, <2>2, <2>3, <2>6, <2>7 DEF UpdatesNameRecordedShips
  <2>9. VerifiedMeansRecorded'
    BY <1>2, <2>7 DEF VerifiedMeansRecorded
  <2>. QED  BY <1>2, <2>7, <2>8, <2>9
<1>. QED  BY <1>3, <1>4, <1>5, <1>6, <1>7 DEF Crew

(* A verdict, and what creating the ship does to the table.                   *)
LEMMA VerdictStep ==
  ASSUME IInv, NEW s \in Systems, NEW m \in Protocol!ToMultiverse, IsVerify(m),
         NEW verdict \in VerdictsOn(m, s),
         IF Creates(m, verdict) THEN Create(m.hash) ELSE UNCHANGED tableVars
  PROVE  /\ TypeOK' /\ FilesAreKept' /\ Recorded \subseteq Recorded'
         /\ verdict \in Protocol!Verdicts
         /\ verdict = "pass" => m.hash \in Recorded'
<1>1. m.hash \in Hashes
  BY MessageFields
<1>2. TypeOK' /\ FilesAreKept' /\ Recorded \subseteq Recorded'
  BY <1>1, TableStep DEF TableNext, IInv, MultiverseTypeOK
<1>3. verdict \in Protocol!Verdicts
  BY DEF VerdictsOn, Protocol!Verdicts
<1>4. ASSUME verdict = "pass" PROVE m.hash \in Recorded'
  <2>1. CASE m.op = "verify_create"
    <3>1. mvUp' /\ m.hash \in known'
      BY <1>4, <2>1 DEF Creates, Create
    <3>. QED  BY <3>1 DEF Recorded
  <2>2. CASE m.op # "verify_create"
    <3>1. m.hash \in known
      BY <1>4, <2>2 DEF VerdictsOn
    <3>2. m.hash \in Recorded
      BY <3>1, RecordedIs DEF IInv
    <3>. QED  BY <1>2, <3>2
  <2>. QED  BY <2>1, <2>2
<1>. QED  BY <1>2, <1>3, <1>4

(* An update of a known ship, or of an unknown one, which is skipped.         *)
LEMMA UpdateStep ==
  ASSUME IInv, NEW s \in Systems, NEW m \in Protocol!ToMultiverse, m.op = "update_bridge",
         IF m.hash \in known THEN Apply(m.hash, m.state, s) ELSE UNCHANGED tableVars
  PROVE  TypeOK' /\ FilesAreKept' /\ Recorded \subseteq Recorded'
<1>1. m.hash \in Hashes /\ m.state \in States
  BY MessageFields
<1>. QED  BY <1>1, TableStep DEF TableNext, IInv, MultiverseTypeOK

LEMMA ServersUnchanged ==
  ASSUME IInv, UNCHANGED serverVars
  PROVE  BridgesTypeOK' /\ NobodyNewlyVerified
  BY DEF IInv, MultiverseTypeOK, BridgesTypeOK, serverVars, NobodyNewlyVerified

LEMMA MvReaderStep ==
  ASSUME IInv, NEW s \in Systems, MvReader(s)
  PROVE  IInv'
<1>. USE DEF IInv, MultiverseTypeOK
<1>1. UNCHANGED serverVars /\ UNCHANGED faults
  BY DEF MvReader, MvVerify, SendOwed, MvUpdateBridge, MvUpdateGoods
<1>2. BridgesTypeOK' /\ NobodyNewlyVerified /\ faults' \in Nat
      /\ aboard' = aboard /\ bridge' = bridge
  BY <1>1, ServersUnchanged DEF serverVars
<1>3. ASSUME CanRead(s), Consume(s)
      PROVE  /\ Head(up[s]) \in Protocol!ToMultiverse
             /\ Head(up[s]) \in InFlight(up[s])
             /\ up' \in [Systems -> Seq(Protocol!ToMultiverse)]
             /\ \A t \in Systems : InFlight(up'[t]) \subseteq InFlight(up[t])
  <2>1. up[s] \in Seq(Protocol!ToMultiverse) /\ up[s] # <<>>
    BY <1>3 DEF CanRead, LinksTypeOK
  <2>. QED  BY <1>3, <2>1, InFlightTail DEF Consume, LinksTypeOK
<1>4. ASSUME MvVerify(s) PROVE IInv'
  <2>. DEFINE m == Head(up[s])
  <2>1. CanRead(s) /\ Consume(s) /\ IsVerify(m)
        /\ UNCHANGED <<link, oldUp, garbled, oldGarbled>>
    BY <1>4 DEF MvVerify
  <2>2. PICK verdict \in VerdictsOn(m, s) :
          /\ IF Creates(m, verdict) THEN Create(m.hash) ELSE UNCHANGED tableVars
          /\ down' = [down EXCEPT ![s] = Append(@, Protocol!VerdictMsg(m.hash, verdict))]
          /\ owed' = [owed EXCEPT ![s] = IF Resumes(m, verdict) THEN m.hash ELSE @]
    BY <1>4 DEF MvVerify
  <2>3. m \in Protocol!ToMultiverse /\ m.hash \in Hashes
    BY <1>3, <2>1, MessageFields
  <2>4. /\ TypeOK' /\ FilesAreKept' /\ Recorded \subseteq Recorded'
        /\ verdict \in Protocol!Verdicts
        /\ verdict = "pass" => m.hash \in Recorded'
    <3>. HIDE DEF m
    <3>. QED  BY <2>1, <2>2, <2>3, VerdictStep
  <2>. DEFINE v == Protocol!VerdictMsg(m.hash, verdict)
  <2>5. v \in Protocol!ToServer /\ v.hash = m.hash /\ v.verdict = verdict
    BY <2>3, <2>4 DEF Protocol!VerdictMsg, Protocol!ToServer, Protocol!VerdictMsgs
  <2>6. down' = [down EXCEPT ![s] = Append(@, v)]
    BY <2>2
  <2>7. owed' \in [Systems -> Hashes \cup {Nobody}]
    BY <2>2, <2>3 DEF LinksTypeOK
  <2>. HIDE DEF v, m
  <2>8. /\ down' \in [Systems -> Seq(Protocol!ToServer)]
        /\ \A t \in Systems : InFlight(down'[t]) \subseteq InFlight(down[t]) \cup {v}
    <3>1. /\ Append(down[s], v) \in Seq(Protocol!ToServer)
          /\ InFlight(Append(down[s], v)) = InFlight(down[s]) \cup {v}
      BY <2>5, InFlightAppend DEF LinksTypeOK
    <3>. QED  BY <2>6, <3>1 DEF LinksTypeOK
  <2>9. LinksTypeOK'
    BY <1>3, <2>1, <2>7, <2>8 DEF LinksTypeOK
  <2>10. VerifiedMeansRecorded'
    BY <1>2, <2>4, <2>5, <2>8 DEF VerifiedMeansRecorded
  <2>11. UpdatesNameRecordedShips'
    BY <1>3, <2>1, <2>4 DEF UpdatesNameRecordedShips
  <2>. QED  BY <1>2, <2>4, <2>9, <2>10, <2>11
<1>5. ASSUME SendOwed(s) PROVE IInv'
  <2>. DEFINE msg == Protocol!BridgeMsg(owed[s], ship[owed[s]].state)
              goods == Protocol!GoodsMsg(owed[s])
  <2>1. TypeOK' /\ FilesAreKept' /\ Recorded' = Recorded
    BY <1>5, TableUnchanged DEF SendOwed
  <2>2. owed[s] \in Hashes /\ ship[owed[s]].state \in States
    BY <1>5 DEF SendOwed, LinksTypeOK, TypeOK, Entry
  <2>3. /\ msg \in Protocol!ToServer /\ goods \in Protocol!ToServer
        /\ msg.op # "verification_response" /\ goods.op # "verification_response"
    BY <2>2 DEF Protocol!BridgeMsg, Protocol!GoodsMsg, Protocol!ToServer,
                Protocol!BridgeMsgs, Protocol!GoodsMsgs
  <2>4. down' = [down EXCEPT ![s] = @ \o <<msg, goods>>]
    BY <1>5 DEF SendOwed
  <2>. HIDE DEF msg, goods
  <2>5. /\ down' \in [Systems -> Seq(Protocol!ToServer)]
        /\ \A t \in Systems : InFlight(down'[t]) \subseteq InFlight(down[t]) \cup {msg, goods}
    <3>1. /\ down[s] \o <<msg, goods>> \in Seq(Protocol!ToServer)
          /\ InFlight(down[s] \o <<msg, goods>>) = InFlight(down[s]) \cup {msg, goods}
      BY <2>3, InFlightTwoMore DEF LinksTypeOK
    <3>. QED  BY <2>4, <3>1 DEF LinksTypeOK
  <2>6. LinksTypeOK' /\ up' = up /\ oldUp' = oldUp
    BY <1>5, <2>5 DEF SendOwed, LinksTypeOK
  <2>7. VerifiedMeansRecorded'
    BY <1>2, <2>1, <2>3, <2>5 DEF VerifiedMeansRecorded
  <2>8. UpdatesNameRecordedShips'
    BY <2>1, <2>6 DEF UpdatesNameRecordedShips
  <2>. QED  BY <1>2, <2>1, <2>6, <2>7, <2>8
<1>6. ASSUME MvUpdateBridge(s) PROVE IInv'
  <2>. DEFINE m == Head(up[s])
  <2>1. CanRead(s) /\ Consume(s) /\ UNCHANGED <<link, oldUp, down, owed, garbled, oldGarbled>>
    BY <1>6 DEF MvUpdateBridge
  <2>2. m \in Protocol!ToMultiverse
    BY <1>3, <2>1
  <2>3. TypeOK' /\ FilesAreKept' /\ Recorded \subseteq Recorded'
    <3>1. /\ m.op = "update_bridge"
          /\ IF m.hash \in known THEN Apply(m.hash, m.state, s) ELSE UNCHANGED tableVars
      BY <1>6 DEF MvUpdateBridge
    <3>. HIDE DEF m
    <3>. QED  BY <2>2, <3>1, UpdateStep
  <2>4. LinksTypeOK' /\ SameTraffic
    BY <1>3, <2>1 DEF LinksTypeOK, SameTraffic
  <2>. QED  BY <1>2, <2>3, <2>4, CarryOver
<1>7. ASSUME MvUpdateGoods(s) PROVE IInv'
  <2>1. CanRead(s) /\ Consume(s) /\ UNCHANGED <<link, oldUp, down, owed, oldGarbled>>
        /\ garbled' \in [Systems -> BOOLEAN]
    BY <1>7 DEF MvUpdateGoods, LinksTypeOK
  <2>2. TypeOK' /\ FilesAreKept' /\ Recorded' = Recorded
    BY <1>7, TableUnchanged DEF MvUpdateGoods
  <2>3. LinksTypeOK' /\ SameTraffic
    BY <1>3, <2>1 DEF LinksTypeOK, SameTraffic
  <2>. QED  BY <1>2, <2>2, <2>3, CarryOver
<1>. QED  BY <1>4, <1>5, <1>6, <1>7 DEF MvReader

(* A reader that has lost the boundaries.                                     *)
LEMMA ConnectionLostStep ==
  ASSUME IInv, NEW s \in Systems, MvMisreads(s) \/ MvHangUp(s)
  PROVE  IInv'
<1>. USE DEF IInv, MultiverseTypeOK
<1>1. /\ UNCHANGED serverVars /\ UNCHANGED faults
      /\ UNCHANGED <<oldUp, down, owed, oldGarbled>>
  BY DEF MvMisreads, MvHangUp
<1>2. BridgesTypeOK' /\ NobodyNewlyVerified /\ faults' \in Nat
  BY <1>1, ServersUnchanged
<1>3. up \in [Systems -> Seq(Protocol!ToMultiverse)]
  BY DEF LinksTypeOK
<1>4. PICK q \in Seq(Protocol!ToMultiverse) :
          up' = [up EXCEPT ![s] = q] /\ InFlight(q) \subseteq InFlight(up[s])
  <2>1. CASE MvMisreads(s)
    <3>1. PICK n \in 0 .. Len(up[s]) :
              up' = [up EXCEPT ![s] = SubSeq(up[s], n + 1, Len(up[s]))]
      BY <2>1 DEF MvMisreads, Misread
    <3>. QED  BY <1>3, <3>1, InFlightRest
  <2>2. CASE MvHangUp(s)
    <3>1. <<>> \in Seq(Protocol!ToMultiverse) /\ InFlight(<<>>) \subseteq InFlight(up[s])
      BY InFlightEmpty
    <3>. QED  BY <2>2, <3>1 DEF MvHangUp
  <2>. QED  BY <2>1, <2>2
<1>5. LinksTypeOK' /\ SameTraffic
  <2>1. link' \in [Systems -> Links] /\ garbled' \in [Systems -> BOOLEAN]
    BY DEF MvMisreads, Misread, MvHangUp, LinksTypeOK, Links
  <2>. QED  BY <1>1, <1>3, <1>4, <2>1 DEF LinksTypeOK, SameTraffic
<1>6. TypeOK' /\ FilesAreKept' /\ Recorded \subseteq Recorded'
  <2>1. CreateStrays \/ UNCHANGED tableVars
    BY DEF MvMisreads, Misread, MvHangUp
  <2>. QED  BY <2>1, TableStep DEF TableNext
<1>. QED  BY <1>2, <1>5, <1>6, CarryOver

LEMMA OldStep ==
  ASSUME IInv, NEW s \in Systems, OldRead(s) \/ OldMisreads(s) \/ OldEnds(s)
  PROVE  IInv'
<1>. USE DEF IInv, MultiverseTypeOK
<1>1. UNCHANGED serverVars /\ UNCHANGED faults /\ UNCHANGED <<link, up, down, owed, garbled>>
  BY DEF OldRead, OldMisreads, OldEnds
<1>2. BridgesTypeOK' /\ NobodyNewlyVerified /\ faults' \in Nat
  BY <1>1, ServersUnchanged
<1>3. oldUp[s] \in Seq(Protocol!ToMultiverse)
  BY DEF LinksTypeOK
<1>4. PICK q \in Seq(Protocol!ToMultiverse) :
          oldUp' = [oldUp EXCEPT ![s] = q] /\ InFlight(q) \subseteq InFlight(oldUp[s])
  <2>1. CASE OldRead(s)
    BY <1>3, <2>1, InFlightTail DEF OldRead
  <2>2. CASE OldMisreads(s)
    <3>1. PICK n \in 0 .. Len(oldUp[s]) :
              oldUp' = [oldUp EXCEPT ![s] = SubSeq(oldUp[s], n + 1, Len(oldUp[s]))]
      BY <2>2 DEF OldMisreads, Misread
    <3>. QED  BY <1>3, <3>1, InFlightRest
  <2>3. CASE OldEnds(s)
    <3>1. <<>> \in Seq(Protocol!ToMultiverse) /\ InFlight(<<>>) \subseteq InFlight(oldUp[s])
      BY InFlightEmpty
    <3>. QED  BY <2>3, <3>1 DEF OldEnds
  <2>. QED  BY <2>1, <2>2, <2>3
<1>5. oldGarbled' \in [Systems -> BOOLEAN]
  <2>1. PICK b \in BOOLEAN : oldGarbled' = [oldGarbled EXCEPT ![s] = b]
    BY DEF OldRead, OldMisreads, Misread, OldEnds
  <2>. QED  BY <2>1 DEF LinksTypeOK
<1>6. LinksTypeOK' /\ SameTraffic
  BY <1>1, <1>4, <1>5 DEF LinksTypeOK, SameTraffic
<1>7. TypeOK' /\ FilesAreKept' /\ Recorded \subseteq Recorded'
  <2>1. CASE OldEnds(s)
    BY <2>1, TableUnchanged DEF OldEnds
  <2>2. CASE OldRead(s)
    <3>. DEFINE m == Head(oldUp[s])
    <3>1. m \in Protocol!ToMultiverse
      BY <1>3, <2>2, InFlightTail DEF OldRead
    <3>2. \/ /\ IsVerify(m)
             /\ \E verdict \in VerdictsOn(m, s) :
                   IF Creates(m, verdict) THEN Create(m.hash) ELSE UNCHANGED tableVars
          \/ /\ m.op = "update_bridge"
             /\ IF m.hash \in known THEN Apply(m.hash, m.state, s) ELSE UNCHANGED tableVars
          \/ UNCHANGED tableVars
      BY <2>2 DEF OldRead
    <3>. HIDE DEF m
    <3>. QED  BY <3>1, <3>2, VerdictStep, UpdateStep, TableUnchanged
  <2>3. CASE OldMisreads(s)
    <3>1. CreateStrays \/ UNCHANGED tableVars
      BY <2>3 DEF OldMisreads, Misread
    <3>. QED  BY <3>1, TableStep DEF TableNext
  <2>. QED  BY <2>1, <2>2, <2>3
<1>. QED  BY <1>2, <1>6, <1>7, CarryOver

(* Nobody is aboard a server that has died.                                   *)
LEMMA ServerDiesStep ==
  ASSUME IInv, NEW s \in Systems, ServerDies(s), UNCHANGED boards
  PROVE  BridgesTypeOK' /\ NobodyNewlyVerified /\ LinksTypeOK' /\ SameTraffic
<1>1. LinksTypeOK' /\ SameTraffic
  BY GiveUpStep DEF ServerDies
<1>2. NewBridge(FALSE, FALSE) \in Bridge
  BY NewBridgeType
<1>3. BridgesTypeOK' /\ NobodyNewlyVerified
  BY <1>2 DEF ServerDies, IInv, MultiverseTypeOK, BridgesTypeOK, NobodyNewlyVerified
<1>. QED  BY <1>1, <1>3

LEMMA ServerReaderStep ==
  ASSUME IInv, NEW s \in Systems, ServerReader(s)
  PROVE  IInv'
<1>. USE DEF IInv, MultiverseTypeOK
<1>1. UNCHANGED tableVars /\ UNCHANGED faults
  BY DEF ServerReader, ServerVerdict, ServerUpdate, ServerConfused, ServerMisled, ServerNotices
<1>2. TypeOK' /\ FilesAreKept' /\ Recorded' = Recorded /\ faults' \in Nat
  BY <1>1, TableUnchanged
<1>3. ASSUME CanReceive(s), down' = [down EXCEPT ![s] = Tail(@)],
             UNCHANGED <<link, up, oldUp, owed, garbled, oldGarbled>>
      PROVE  /\ Head(down[s]) \in Protocol!ToServer
             /\ Head(down[s]) \in InFlight(down[s])
             /\ LinksTypeOK' /\ SameTraffic
  <2>1. down[s] \in Seq(Protocol!ToServer) /\ down[s] # <<>>
    BY <1>3 DEF CanReceive, LinksTypeOK
  <2>. QED  BY <1>3, <2>1, InFlightTail DEF LinksTypeOK, SameTraffic
<1>4. ASSUME ServerVerdict(s) PROVE IInv'
  <2>. DEFINE m == Head(down[s])
  <2>1. /\ m \in Protocol!ToServer /\ m \in InFlight(down[s])
        /\ LinksTypeOK' /\ SameTraffic
    BY <1>3, <1>4 DEF ServerVerdict
  <2>2. /\ m.op = "verification_response"
        /\ aboard' = aboard /\ boards' = boards
        /\ bridge' = IF m.hash \in aboard[s]
                     THEN [bridge EXCEPT ![s][m.hash].verified =
                                             VerifiedAfter(bridge[s][m.hash], m.verdict)]
                     ELSE bridge
    BY <1>4 DEF ServerVerdict
  <2>. HIDE DEF m
  <2>3. m.hash \in Hashes /\ m.verdict \in Protocol!Verdicts
    BY <2>1, <2>2, MessageFields
  <2>4. bridge[s][m.hash] \in Bridge
    BY <2>3 DEF BridgesTypeOK
  <2>5. VerifiedAfter(bridge[s][m.hash], m.verdict) \in VerifiedCodes
    BY <2>3, <2>4 DEF VerifiedAfter, VerifiedCodes, Protocol!Verdicts, Bridge
  <2>6. BridgesTypeOK'
    BY <2>2, <2>3, <2>4, <2>5 DEF BridgesTypeOK, Bridge
  <2>7. ASSUME VerifiedAfter(bridge[s][m.hash], m.verdict) = "verified", m.hash \in aboard[s]
        PROVE  m.hash \in Recorded
    <3>1. m.verdict = "pass" \/ bridge[s][m.hash].verified = "verified"
      BY <2>3, <2>7 DEF VerifiedAfter, Protocol!Verdicts
    <3>. QED  BY <2>1, <2>2, <2>7, <3>1 DEF VerifiedMeansRecorded
  <2>8. \A t \in Systems : \A h \in aboard'[t] :
            bridge'[t][h].verified = "verified" => h \in Recorded
    <3>1. SUFFICES ASSUME NEW t \in Systems, NEW h \in aboard[t],
                          bridge'[t][h].verified = "verified"
                   PROVE  h \in Recorded
      BY <2>2
    <3>2. CASE t = s /\ h = m.hash
      BY <2>2, <2>3, <2>4, <2>7, <3>1, <3>2 DEF BridgesTypeOK, Bridge
    <3>3. CASE ~(t = s /\ h = m.hash)
      <4>1. bridge'[t][h] = bridge[t][h]
        BY <2>2, <2>3, <3>3 DEF BridgesTypeOK
      <4>. QED  BY <3>1, <4>1 DEF VerifiedMeansRecorded
    <3>. QED  BY <3>2, <3>3
  <2>9. VerifiedMeansRecorded' /\ UpdatesNameRecordedShips'
    BY <1>2, <2>1, <2>8 DEF VerifiedMeansRecorded, UpdatesNameRecordedShips, SameTraffic
  <2>. QED  BY <1>2, <2>1, <2>6, <2>9
<1>5. ASSUME ServerUpdate(s) PROVE IInv'
  <2>. DEFINE m == Head(down[s])
  <2>1. m \in Protocol!ToServer /\ LinksTypeOK' /\ SameTraffic
    BY <1>3, <1>5 DEF ServerUpdate
  <2>2. /\ aboard' = aboard /\ boards' = boards
        /\ bridge' = IF m.op = "update_bridge"
                     THEN [bridge EXCEPT ![s][m.hash].state = m.state]
                     ELSE bridge
    BY <1>5 DEF ServerUpdate
  <2>. HIDE DEF m
  <2>3. m.hash \in Hashes /\ (m.op = "update_bridge" => m.state \in States)
    BY <2>1, MessageFields
  <2>4. CASE m.op # "update_bridge"
    <3>1. BridgesTypeOK' /\ NobodyNewlyVerified
      BY <2>2, <2>4 DEF BridgesTypeOK, NobodyNewlyVerified
    <3>. QED  BY <1>2, <2>1, <3>1, CarryOver
  <2>5. CASE m.op = "update_bridge"
    <3>1. bridge[s][m.hash] \in Bridge /\ m.state \in States
      BY <2>3, <2>5 DEF BridgesTypeOK
    <3>2. bridge' = [bridge EXCEPT ![s][m.hash].state = m.state]
      BY <2>2, <2>5
    <3>3. /\ [bridge[s][m.hash] EXCEPT !.state = m.state] \in Bridge
          /\ [bridge[s][m.hash] EXCEPT !.state = m.state].verified
                = bridge[s][m.hash].verified
      BY <3>1 DEF Bridge
    <3>4. BridgesTypeOK'
      BY <2>2, <2>3, <3>2, <3>3 DEF BridgesTypeOK
    <3>5. NobodyNewlyVerified
      BY <2>2, <2>3, <3>2, <3>3 DEF BridgesTypeOK, NobodyNewlyVerified
    <3>. QED  BY <1>2, <2>1, <3>4, <3>5, CarryOver
  <2>. QED  BY <2>4, <2>5
<1>6. ASSUME ServerConfused(s) \/ ServerNotices(s) PROVE IInv'
  <2>1. BridgesTypeOK' /\ NobodyNewlyVerified
    BY <1>6, ServersUnchanged DEF ServerConfused, ServerNotices
  <2>2. LinksTypeOK' /\ SameTraffic
    BY <1>6, GiveUpStep DEF ServerConfused, ServerNotices
  <2>. QED  BY <1>2, <2>1, <2>2, CarryOver
<1>7. ASSUME ServerMisled(s) PROVE IInv'
  <2>1. BridgesTypeOK' /\ NobodyNewlyVerified /\ LinksTypeOK' /\ SameTraffic
    BY <1>7, ServerDiesStep DEF ServerMisled
  <2>. QED  BY <1>2, <2>1, CarryOver
<1>. QED  BY <1>4, <1>5, <1>6, <1>7 DEF ServerReader

(* Connecting changes the state of the link and nothing else.                 *)
LEMMA ConnectStep ==
  ASSUME IInv, NEW s \in Systems, Dial(s) \/ Connect(s)
  PROVE  IInv'
<1>. USE DEF IInv, MultiverseTypeOK
<1>1. TypeOK' /\ FilesAreKept' /\ Recorded' = Recorded /\ faults' \in Nat
  BY TableUnchanged DEF Dial, Connect
<1>2. BridgesTypeOK' /\ NobodyNewlyVerified
  BY ServersUnchanged DEF Dial, Connect
<1>3. LinksTypeOK' /\ SameTraffic
  BY DEF Dial, Connect, LinksTypeOK, Links, SameTraffic
<1>. QED  BY <1>1, <1>2, <1>3, CarryOver

LEMMA ServerFaultStep ==
  ASSUME IInv, NEW s \in Systems, Break(s) \/ ServerCrash(s)
  PROVE  IInv'
<1>. USE DEF IInv, MultiverseTypeOK
<1>1. TypeOK' /\ FilesAreKept' /\ Recorded' = Recorded /\ faults' \in Nat
  BY TableUnchanged DEF Break, ServerCrash
<1>2. CASE Break(s)
  <2>1. BridgesTypeOK' /\ NobodyNewlyVerified
    BY <1>2, ServersUnchanged DEF Break
  <2>2. LinksTypeOK' /\ SameTraffic
    BY <1>2, GiveUpStep DEF Break
  <2>. QED  BY <1>1, <2>1, <2>2, CarryOver
<1>3. CASE ServerCrash(s)
  BY <1>1, <1>3, ServerDiesStep, CarryOver DEF ServerCrash
<1>. QED  BY <1>2, <1>3

LEMMA TableOnlyStep ==
  ASSUME IInv, MvRestart \/ \E h \in Hashes : MvCheckpoint(h)
  PROVE  IInv'
<1>. USE DEF IInv, MultiverseTypeOK
<1>1. UNCHANGED serverVars /\ UNCHANGED linkVars /\ UNCHANGED faults /\ TableNext
  BY DEF MvRestart, MvCheckpoint, TableNext
<1>2. TypeOK' /\ FilesAreKept' /\ Recorded \subseteq Recorded' /\ faults' \in Nat
  BY <1>1, TableStep
<1>3. BridgesTypeOK' /\ NobodyNewlyVerified
  BY <1>1, ServersUnchanged
<1>4. LinksTypeOK' /\ SameTraffic
  BY <1>1 DEF linkVars, LinksTypeOK, SameTraffic
<1>. QED  BY <1>2, <1>3, <1>4, CarryOver

LEMMA MvCrashStep ==
  ASSUME IInv, MvCrash
  PROVE  IInv'
<1>. USE DEF IInv, MultiverseTypeOK
<1>1. TypeOK' /\ FilesAreKept' /\ Recorded \subseteq Recorded'
  BY TableStep DEF MvCrash, TableNext
<1>2. BridgesTypeOK' /\ NobodyNewlyVerified
  BY ServersUnchanged DEF MvCrash
<1>3. LinksTypeOK' /\ faults' \in Nat
  <2>1. <<>> \in Seq(Protocol!ToMultiverse)
    OBVIOUS
  <2>. QED  BY <2>1 DEF MvCrash, LinksTypeOK, Links
<1>4. SameTraffic
  BY InFlightEmpty DEF MvCrash, SameTraffic
<1>. QED  BY <1>1, <1>2, <1>3, <1>4, CarryOver

LEMMA Stutter ==
  ASSUME IInv, UNCHANGED vars
  PROVE  IInv'
<1>1. TypeOK' /\ FilesAreKept' /\ Recorded' = Recorded
  BY TableUnchanged DEF vars
<1>2. BridgesTypeOK' /\ NobodyNewlyVerified
  BY ServersUnchanged DEF vars
<1>3. LinksTypeOK' /\ SameTraffic /\ faults' \in Nat
  BY DEF vars, linkVars, IInv, MultiverseTypeOK, LinksTypeOK, SameTraffic
<1>. QED  BY <1>1, <1>2, <1>3, CarryOver DEF IInv, MultiverseTypeOK

LEMMA NextStep ==
  ASSUME IInv, [Next]_vars
  PROVE  IInv'
  BY CrewStep, MvReaderStep, ConnectionLostStep, OldStep, ServerReaderStep, ConnectStep, ServerFaultStep,
     TableOnlyStep, MvCrashStep, Stutter DEF Next

LEMMA InitHolds == Init => IInv
<1>. SUFFICES ASSUME Init PROVE IInv
  OBVIOUS
<1>1. TypeOK /\ FilesAreKept
  BY TableEntries DEF Init, TableInit, TypeOK, FilesAreKept
<1>2. BridgesTypeOK
  BY NewBridgeType DEF Init, BridgesTypeOK
<1>3. LinksTypeOK /\ faults \in Nat
  <2>1. <<>> \in Seq(Protocol!ToMultiverse) /\ <<>> \in Seq(Protocol!ToServer)
    OBVIOUS
  <2>. QED  BY <2>1 DEF Init, LinksTypeOK, Links
<1>4. VerifiedMeansRecorded /\ UpdatesNameRecordedShips
  BY InFlightEmpty DEF Init, VerifiedMeansRecorded, UpdatesNameRecordedShips
<1>. QED  BY <1>1, <1>2, <1>3, <1>4 DEF IInv, MultiverseTypeOK

(* Boundaries of packets that are lost in a step, those of a connection       *)
(* given up excepted: they were lost before.                                  *)
NewlyLost(s) ==
    \/ garbled'[s] /\ ~garbled[s]
    \/ oldGarbled'[s] /\ ~oldGarbled[s] /\ ~garbled[s]

(* Only update_bridge_cargo loses the boundaries of packets.                  *)
LEMMA OtherStepsKeepBoundaries ==
  ASSUME IInv, Next, ~\E t \in Systems : MvUpdateGoods(t) \/ OldRead(t), NEW s \in Systems
  PROVE  ~NewlyLost(s)
<1>. USE DEF IInv, MultiverseTypeOK, LinksTypeOK, NewlyLost
<1>1. ASSUME NEW t \in Systems, NEW h \in Hashes, Crew(t, h) PROVE ~NewlyLost(s)
  <2>1. CASE \E create, enforce \in BOOLEAN : Board(t, h, create, enforce)
    BY <2>1 DEF Board, linkVars
  <2>2. CASE Leave(t, h)
    BY <2>2 DEF Leave, linkVars
  <2>3. CASE Play(t, h)
    BY <2>3 DEF Play, linkVars
  <2>4. CASE RequestVerification(t, h)
    BY <2>4 DEF RequestVerification
  <2>5. CASE ReportBridge(t, h)
    BY <2>5 DEF ReportBridge
  <2>. QED  BY <1>1, <2>1, <2>2, <2>3, <2>4, <2>5 DEF Crew
<1>2. CASE \E t \in Systems : MvReader(t)
  <2>1. ASSUME NEW t \in Systems, MvVerify(t) PROVE ~NewlyLost(s)
    BY <2>1 DEF MvVerify
  <2>2. ASSUME NEW t \in Systems, SendOwed(t) \/ MvUpdateBridge(t) PROVE ~NewlyLost(s)
    BY <2>2 DEF SendOwed, MvUpdateBridge
  <2>. QED  BY <1>2, <2>1, <2>2 DEF MvReader
<1>3. CASE \E t \in Systems : MvMisreads(t) \/ MvHangUp(t) \/ OldMisreads(t) \/ OldEnds(t)
  <2>1. ASSUME NEW t \in Systems, MvMisreads(t) PROVE ~NewlyLost(s)
    BY <2>1 DEF MvMisreads, Misread
  <2>2. ASSUME NEW t \in Systems, MvHangUp(t) PROVE ~NewlyLost(s)
    BY <2>2 DEF MvHangUp
  <2>3. ASSUME NEW t \in Systems, OldMisreads(t) PROVE ~NewlyLost(s)
    BY <2>3 DEF OldMisreads, Misread
  <2>4. ASSUME NEW t \in Systems, OldEnds(t) PROVE ~NewlyLost(s)
    BY <2>4 DEF OldEnds
  <2>. QED  BY <1>3, <2>1, <2>2, <2>3, <2>4
<1>4. CASE \E t \in Systems : ServerVerdict(t) \/ ServerUpdate(t)
  BY <1>4 DEF ServerVerdict, ServerUpdate
<1>5. ASSUME NEW t \in Systems, GiveUp(t) PROVE ~NewlyLost(s)
  BY <1>5 DEF GiveUp
<1>6. CASE \E t \in Systems : ServerConfused(t) \/ ServerMisled(t) \/ ServerNotices(t)
  BY <1>5, <1>6 DEF ServerConfused, ServerMisled, ServerNotices, ServerDies
<1>7. CASE \E t \in Systems : Dial(t) \/ Connect(t)
  BY <1>7 DEF Dial, Connect
<1>8. CASE \E t \in Systems : Break(t) \/ ServerCrash(t)
  BY <1>5, <1>8 DEF Break, ServerCrash, ServerDies
<1>9. CASE MvCrash \/ MvRestart \/ \E h \in Hashes : MvCheckpoint(h)
  BY <1>9 DEF MvCrash, MvRestart, MvCheckpoint, linkVars
<1>. QED
  BY <1>1, <1>2, <1>3, <1>4, <1>6, <1>7, <1>8, <1>9 DEF Next, ServerReader

-----------------------------------------------------------------------------
(* IInv holds in every reachable state.                                       *)
THEOREM Inductive == Spec => []IInv
  BY InitHolds, NextStep, PTL DEF Spec

(* Every variable keeps its type, for any systems, ships and bounds.          *)
THEOREM TypeCorrect == Spec => []MultiverseTypeOK
  BY Inductive, PTL DEF IInv

(* A crew a server takes for verified, or will on reading what is in flight,  *)
(* flies a ship the multiverse has recorded.                                  *)
THEOREM VerifiedCrewsAreRecorded == Spec => []VerifiedMeansRecorded
  BY Inductive, PTL DEF IInv

(* No packet in flight reports a ship the multiverse never recorded.          *)
THEOREM ReportsAreRecorded == Spec => []UpdatesNameRecordedShips
  BY Inductive, PTL DEF IInv

(* The multiverse loses the boundaries of packets only after a crash has      *)
(* taken a ship from it of which it had no file.                              *)
THEOREM DesyncNeedsLoss == Spec => DesyncOnlyAfterLoss
<1>1. ASSUME IInv, Next, NEW s \in Systems, NewlyLost(s)
      PROVE  Lost # {}
  <2>1. PICK q \in {up[s], oldUp[s]} :
            mvUp /\ q # <<>> /\ Head(q).op = "update_goods" /\ Head(q).hash \notin known
    <3>1. PICK t \in Systems : MvUpdateGoods(t) \/ OldRead(t)
      BY <1>1, OtherStepsKeepBoundaries
    <3>2. CASE MvUpdateGoods(t)
      <4>1. s = t /\ Head(up[t]).hash \notin known
        BY <1>1, <3>2 DEF MvUpdateGoods, NewlyLost, IInv, MultiverseTypeOK, LinksTypeOK
      <4>. QED  BY <3>2, <4>1 DEF MvUpdateGoods, CanRead
    <3>3. CASE OldRead(t)
      <4>1. s = t /\ Head(oldUp[t]).op = "update_goods" /\ Head(oldUp[t]).hash \notin known
        BY <1>1, <3>3 DEF OldRead, NewlyLost, IInv, MultiverseTypeOK, LinksTypeOK
      <4>. QED  BY <3>3, <4>1 DEF OldRead
    <3>. QED  BY <3>1, <3>2, <3>3
  <2>2. Head(q) \in InFlight(up[s]) \cup InFlight(oldUp[s])
    <3>1. q \in Seq(Protocol!ToMultiverse)
      BY <1>1, <2>1 DEF IInv, MultiverseTypeOK, LinksTypeOK
    <3>. QED  BY <2>1, <3>1, InFlightTail
  <2>3. ~IsVerify(Head(q))
    BY <2>1 DEF IsVerify
  <2>4. Head(q).hash \in Recorded
    BY <1>1, <2>2, <2>3 DEF IInv, UpdatesNameRecordedShips
  <2>. QED  BY <2>1, <2>4 DEF Recorded
<1>2. IInv /\ [Next]_vars =>
         [\A s \in Systems :
             \/ garbled'[s] /\ ~garbled[s]
             \/ oldGarbled'[s] /\ ~oldGarbled[s] /\ ~garbled[s]
             => Lost # {}]_vars
  BY <1>1 DEF NewlyLost
<1>. QED  BY Inductive, <1>2, PTL DEF Spec, DesyncOnlyAfterLoss

(* A ship the multiverse has so much as begun to save is never forgotten: it  *)
(* is known whenever the multiverse runs, through every crash (restore_data). *)
SavedShipsAreKept == mvUp => saved \cup leftover \subseteq known

THEOREM NoSavedShipIsForgotten == Spec => []SavedShipsAreKept
<1>1. IInv => SavedShipsAreKept
  BY DEF IInv, FilesAreKept, SavedShipsAreKept
<1>. QED  BY Inductive, <1>1, PTL

(* What holds of NoSecondCreate, which the code breaks: a ship that a crew    *)
(* flies, or has been granted, is created once more only if a crash took it   *)
(* before anything of it was written (verify_existence).                      *)
THEOREM SecondCreateOnlyAfterLoss == Spec => SecondCreateNeedsLoss
<1>1. ASSUME IInv, NEW h \in Hashes, mvUp, Promised(h), h \in known' \ known
      PROVE  h \in Lost
  <2>1. h \in Recorded
    BY <1>1 DEF Promised, IInv, VerifiedMeansRecorded
  <2>. QED  BY <1>1, <2>1 DEF Recorded
<1>2. IInv /\ [Next]_vars =>
         [\A h \in Hashes : mvUp /\ Promised(h) /\ h \in known' \ known => h \in Lost]_vars
  BY <1>1
<1>. QED  BY Inductive, <1>2, PTL DEF Spec, SecondCreateNeedsLoss

-----------------------------------------------------------------------------
(* The table by itself.                                                       *)

(* No step of a server, a thread or the network touches the table but through *)
(* an operation of ShipTable.                                                 *)
LEMMA EveryStepIsATableStep ==
  ASSUME IInv, [Next]_vars
  PROVE  [TableNext]_tableVars
<1>. USE DEF IInv, MultiverseTypeOK
<1>1. ASSUME NEW m \in Protocol!ToMultiverse, IsVerify(m), NEW v,
             IF Creates(m, v) THEN Create(m.hash) ELSE UNCHANGED tableVars
      PROVE  [TableNext]_tableVars
  BY <1>1, MessageFields DEF TableNext
<1>2. ASSUME NEW m \in Protocol!ToMultiverse, m.op = "update_bridge", NEW s \in Systems,
             IF m.hash \in known THEN Apply(m.hash, m.state, s) ELSE UNCHANGED tableVars
      PROVE  [TableNext]_tableVars
  BY <1>2, MessageFields DEF TableNext
<1>3. ASSUME NEW s \in Systems, MvReader(s) PROVE [TableNext]_tableVars
  <2>1. CASE MvVerify(s) \/ MvUpdateBridge(s)
    <3>. DEFINE m == Head(up[s])
    <3>1. m \in Protocol!ToMultiverse
      BY <2>1, InFlightTail DEF MvVerify, MvUpdateBridge, CanRead, LinksTypeOK
    <3>2. \/ IsVerify(m) /\ \E v : IF Creates(m, v) THEN Create(m.hash) ELSE UNCHANGED tableVars
          \/ /\ m.op = "update_bridge"
             /\ IF m.hash \in known THEN Apply(m.hash, m.state, s) ELSE UNCHANGED tableVars
      BY <2>1 DEF MvVerify, MvUpdateBridge
    <3>. HIDE DEF m
    <3>. QED  BY <1>1, <1>2, <3>1, <3>2
  <2>2. CASE ~(MvVerify(s) \/ MvUpdateBridge(s))
    BY <1>3, <2>2 DEF MvReader, SendOwed, MvUpdateGoods
  <2>. QED  BY <2>1, <2>2
<1>4. ASSUME NEW s \in Systems, OldRead(s) PROVE [TableNext]_tableVars
  <2>. DEFINE m == Head(oldUp[s])
  <2>1. m \in Protocol!ToMultiverse
    BY <1>4, InFlightTail DEF OldRead, LinksTypeOK
  <2>2. \/ IsVerify(m) /\ \E v : IF Creates(m, v) THEN Create(m.hash) ELSE UNCHANGED tableVars
        \/ /\ m.op = "update_bridge"
           /\ IF m.hash \in known THEN Apply(m.hash, m.state, s) ELSE UNCHANGED tableVars
        \/ UNCHANGED tableVars
    BY <1>4 DEF OldRead
  <2>. HIDE DEF m
  <2>. QED  BY <1>1, <1>2, <2>1, <2>2
<1>5. CASE \E s \in Systems, h \in Hashes : Crew(s, h)
  BY <1>5 DEF Crew, Board, Leave, Play, RequestVerification, ReportBridge
<1>6. CASE \E s \in Systems : ServerReader(s)
  BY <1>6 DEF ServerReader, ServerVerdict, ServerUpdate, ServerConfused, ServerMisled,
              ServerNotices
<1>7. CASE \E s \in Systems : OldEnds(s) \/ Dial(s) \/ Connect(s) \/ Break(s) \/ ServerCrash(s)
  BY <1>7 DEF OldEnds, Dial, Connect, Break, ServerCrash
<1>8. CASE MvCrash \/ MvRestart \/ \E h \in Hashes : MvCheckpoint(h)
  BY <1>8 DEF MvCrash, MvRestart, MvCheckpoint, TableNext
<1>9. CASE UNCHANGED vars
  BY <1>9 DEF vars
<1>10. CASE \E s \in Systems : MvMisreads(s) \/ MvHangUp(s) \/ OldMisreads(s)
  BY <1>10 DEF MvMisreads, MvHangUp, OldMisreads, Misread, TableNext
<1>. QED
  BY <1>3, <1>4, <1>5, <1>6, <1>7, <1>8, <1>9, <1>10 DEF Next

(* The multiverse among its servers implements the table of ShipTable.        *)
THEOREM ImplementsShipTable == Spec => TableSpec
<1>1. Init => TableInit
  BY DEF Init
<1>2. IInv /\ [Next]_vars => [TableNext]_tableVars
  BY EveryStepIsATableStep
<1>. QED  BY Inductive, <1>1, <1>2, PTL DEF Spec, TableSpec

(* A step keeps the number of ships within the entries in use, and those      *)
(* within ship[].  A restart counts a ship with both of its files twice.      *)
LEMMA TableFitsStep ==
  ASSUME TypeOK, TableFits, [TableNext]_tableVars
  PROVE  TableFits'
<1>. USE DEF TypeOK, TableFits
<1>1. IsFiniteSet(known) /\ IsFiniteSet(saved) /\ IsFiniteSet(leftover)
  BY HashesAssumption, FS_Subset
<1>2. Cardinality(known) \in Nat
  BY <1>1, FS_CardinalityType
<1>3. ASSUME NEW h \in Hashes, Create(h) PROVE TableFits'
  <2>1. known' = known \cup {h} /\ h \notin known
    BY <1>3 DEF Create
  <2>2. Cardinality(known') = Cardinality(known) + 1
    BY <1>1, <2>1, FS_AddElement
  <2>. QED  BY <1>2, <1>3, <2>2, MaxShipsAssumption DEF Create, TableFull
<1>4. CASE Crash
  BY <1>4, FS_EmptySet, MaxShipsAssumption DEF Crash
<1>5. CASE Restart
  <2>1. Cardinality(known') = Cardinality(saved) + Cardinality(leftover)
                                - Cardinality(saved \cap leftover)
    BY <1>1, <1>5, FS_Union DEF Restart
  <2>2. Cardinality(saved) \in Nat /\ Cardinality(leftover) \in Nat
    BY <1>1, FS_CardinalityType
  <2>3. Cardinality(saved \cap leftover) \in Nat
    <3>1. IsFiniteSet(saved \cap leftover)
      BY <1>1, FS_Intersection
    <3>. QED  BY <3>1, FS_CardinalityType
  <2>. QED  BY <1>5, <2>1, <2>2, <2>3 DEF Restart
<1>6. CASE UNCHANGED <<known, slots>>
  BY <1>6
<1>7. CASE CreateStrays
  BY <1>2, <1>7, MaxShipsAssumption DEF CreateStrays
<1>. QED
  BY <1>3, <1>4, <1>5, <1>6, <1>7 DEF TableNext, Apply, Save, SaveShort, SaveFails, tableVars

(* ship[] is never overfilled, however many crashes have left how many files. *)
THEOREM TableNeverOverflows == Spec => []TableFits
<1>1. Init => TableFits
  BY FS_EmptySet, MaxShipsAssumption DEF Init, TableInit, TableFits
<1>2. IInv /\ TableFits /\ [Next]_vars => TableFits'
  BY TableFitsStep, EveryStepIsATableStep DEF IInv, MultiverseTypeOK
<1>. QED  BY Inductive, <1>1, <1>2, PTL DEF Spec
===============================================================================
