----------------------------- MODULE MvLinkProofs -----------------------------
(* Proofs about MvLink: the connection to the multiverse that is in use has   *)
(* its writer, for any number of addresses, connections, packets, restarts    *)
(* and breaks; the owners of the two mutexes are where they give them back;   *)
(* and there is one deadlock on them, which is for good.                      *)
EXTENDS MvLink, TLAPS

(* The order to exit outlives the connection it was given for only while      *)
(* there is none: a new connection clears it, and is made only when the old   *)
(* one is closed.  Both mutexes are held where the code holds them only.      *)
ExitIsForTheOld == wexit => sock = Nobody \/ cb.at = "wake"
ClosedBeforeOpened == cb.at \in {"connect", "handshake"} => sock = Nobody
HandshakeOverOne == cb.at = "handshake" => cb.on \in Conns
CallbackHoldsQueue == qown = "callback" <=> cb.at \in {"wake", "connect", "handshake"}
WriterHoldsEvent ==
    /\ \A c \in Conns : eown = c => wr[c] \in {"combine", "send"}
    /\ \A c \in Conns : ~torn /\ wr[c] \in {"combine", "send"} => eown = c

LinkInvariant ==
    /\ MvLinkTypeOK
    /\ LinkHasWriter
    /\ ExitIsForTheOld
    /\ ClosedBeforeOpened
    /\ HandshakeOverOne
    /\ CallbackHoldsQueue
    /\ WriterHoldsEvent

LEMMA LinkConstants ==
    /\ QMax \in Nat /\ MaxStarts \in Nat /\ MaxBreaks \in Nat /\ MaxTroubles \in Nat
    /\ FirstServers \subseteq Servers
    /\ Nobody \notin Servers /\ Nobody \notin Conns /\ Nobody # "callback" /\ Nobody # "game"
    /\ "callback" \notin Conns /\ "game" \notin Conns
  BY MvLinkAssumption

LEMMA LinkInit == Init => LinkInvariant
<1> SUFFICES ASSUME Init PROVE LinkInvariant
  OBVIOUS
<1> USE LinkConstants
<1>1. rd \in [Conns -> [at : ReaderPlaces, on : Conns \cup {Nobody}]]
  BY DEF Init, ReaderPlaces
<1>2. wr \in [Conns -> WriterPlaces] /\ cb \in CallbackStates
  BY DEF Init, Idle, WriterPlaces, CallbackPlaces, CallbackStates
<1>3. MvLinkTypeOK
  <2>1. conn \in [Conns -> {"open", "cut"}] /\ game \in GamePlaces
    BY DEF Init, GamePlaces
  <2>2. /\ starts \in 0 .. MaxStarts /\ breaks \in 0 .. MaxBreaks /\ queue \in 0 .. QMax
        /\ listed \in SUBSET Servers /\ renewing \in SUBSET Servers /\ seen \in SUBSET Servers
    BY DEF Init, DirectoryInit
  <2>3. /\ up = Nobody /\ sock = Nobody /\ port = Nobody /\ qown = Nobody /\ eown = Nobody
        /\ univ = Nobody /\ deaf = FALSE /\ have = FALSE /\ wexit = FALSE /\ torn = FALSE
    BY DEF Init
  <2> QED BY <1>1, <1>2, <2>1, <2>2, <2>3 DEF MvLinkTypeOK
<1>4. LinkHasWriter /\ ExitIsForTheOld /\ ClosedBeforeOpened /\ HandshakeOverOne
  BY DEF Init, Idle, LinkHasWriter, ExitIsForTheOld, ClosedBeforeOpened, HandshakeOverOne
<1>5. CallbackHoldsQueue /\ WriterHoldsEvent
  BY DEF Init, Idle, CallbackHoldsQueue, WriterHoldsEvent
<1> QED BY <1>3, <1>4, <1>5 DEF LinkInvariant

-----------------------------------------------------------------------------
(* connect(): a new connection, or none.                                      *)
LEMMA ConnectsOrNot ==
    ASSUME CallbackConnects
    PROVE  \/ \E c \in Conns :
                 /\ conn' = [conn EXCEPT ![c] = "open"]
                 /\ cb' = [cb EXCEPT !.at = "handshake", !.on = c]
                 /\ UNCHANGED <<sock, port, qown>>
           \/ /\ sock' = Nobody /\ port' = Nobody /\ qown' = Nobody
              /\ cb' = Idle /\ UNCHANGED conn
  BY Zenon DEF CallbackConnects

LEMMA ConnectsTypes ==
    ASSUME CallbackConnects, cb \in CallbackStates
    PROVE  /\ cb' \in CallbackStates
           /\ \/ cb'.at = "handshake" /\ cb'.on \in Conns /\ UNCHANGED <<sock, port, qown>>
              \/ cb'.at = "idle" /\ sock' = Nobody /\ qown' = Nobody
<1>1. ASSUME NEW c \in Conns, cb' = [cb EXCEPT !.at = "handshake", !.on = c]
      PROVE  cb' \in CallbackStates /\ cb'.at = "handshake" /\ cb'.on = c
  BY <1>1 DEF CallbackStates, CallbackPlaces
<1>2. Idle \in CallbackStates /\ Idle.at = "idle"
  BY DEF Idle, CallbackStates, CallbackPlaces
<1> QED BY ConnectsOrNot, <1>1, <1>2

(* Types, action by action.                                                   *)

LEMMA LinkTypeNext == MvLinkTypeOK /\ [Next]_vars => MvLinkTypeOK'
<1> SUFFICES ASSUME MvLinkTypeOK, [Next]_vars PROVE MvLinkTypeOK'
  OBVIOUS
<1> USE LinkConstants DEF MvLinkTypeOK, WriterPlaces, ReaderPlaces, CallbackPlaces,
        GamePlaces, CallbackStates, Idle, world, directory, locks
<1>1. ASSUME NEW s \in Servers, MultiverseStarts(s) PROVE MvLinkTypeOK'
  BY <1>1 DEF MultiverseStarts
<1>2. CASE MultiverseDies
  <2>1. /\ up' = Nobody /\ deaf' = FALSE /\ conn' \in [Conns -> {"open", "cut"}]
        /\ renewing' \in SUBSET Servers /\ listed' \in SUBSET Servers
    BY <1>2 DEF MultiverseDies, Lapse
  <2>2. UNCHANGED <<starts, breaks, seen, sock, port, have, wexit, queue, locks, rd, wr, cb,
                    game, torn>>
    BY <1>2 DEF MultiverseDies
  <2> HIDE DEF CallbackStates, WriterPlaces, ReaderPlaces, GamePlaces
  <2> QED BY <2>1, <2>2
<1>3. CASE MultiverseRegisters
  BY <1>3 DEF MultiverseRegisters, Enter
<1>4. CASE LobbyForgets
  BY <1>4 DEF LobbyForgets, Forget
<1>5. ASSUME NEW c \in Conns, ConnectionBreaks(c) PROVE MvLinkTypeOK'
  BY <1>5 DEF ConnectionBreaks, Break
<1>16. CASE MultiverseGoesDeaf
  BY <1>16 DEF MultiverseGoesDeaf
<1>6. ASSUME NEW c \in Conns, Writer(c) PROVE MvLinkTypeOK'
  <2>1. CASE WriterWaits(c)
    BY <2>1 DEF WriterWaits, WriterStays
  <2>2. CASE WriterCombines(c)
    <3>1. wr' \in [Conns -> WriterPlaces] /\ have' \in BOOLEAN
      BY <2>2 DEF WriterCombines
    <3>2. eown' \in Conns \cup {Nobody} /\ queue' \in 0 .. QMax
      BY <2>2 DEF WriterCombines
    <3> HIDE DEF WriterPlaces
    <3> QED BY <2>2, <3>1, <3>2 DEF WriterCombines, WriterStays
  <2>3. CASE WriterSends(c)
    <3>1. wr' \in [Conns -> WriterPlaces] /\ have' \in BOOLEAN
      BY <2>3 DEF WriterSends
    <3>2. eown' \in Conns \cup {Nobody}
      BY <2>3 DEF WriterSends, EventAfter
    <3> HIDE DEF WriterPlaces
    <3> QED BY <2>3, <3>1, <3>2 DEF WriterSends, WriterStays
  <2>4. CASE WriterGivesUp(c)
    BY <2>4 DEF WriterGivesUp, CloseCurrent
  <2>5. CASE WriterChecks(c)
    <3>1. wr' \in [Conns -> WriterPlaces] /\ wexit' \in BOOLEAN
      BY <2>5 DEF WriterChecks
    <3>2. UNCHANGED <<world, directory, conn, seen, sock, port, have, queue, locks, rd, cb,
                      game, torn>>
      BY <2>5, Zenon DEF WriterChecks, WriterStays
    <3> HIDE DEF WriterPlaces, ReaderPlaces, CallbackPlaces
    <3> QED BY <3>1, <3>2
  <2> QED BY <1>6, <2>1, <2>2, <2>3, <2>4, <2>5 DEF Writer
<1>7. ASSUME NEW c \in Conns, Reader(c) PROVE MvLinkTypeOK'
  <2>1. CASE ReaderHandles(c) \/ ReaderFails(c)
    <3>1. rd' \in [Conns -> [at : ReaderPlaces, on : Conns \cup {Nobody}]]
      BY <2>1 DEF ReaderHandles, ReaderFails
    <3> QED BY <2>1, <3>1 DEF ReaderHandles, ReaderFails, ReaderStays
  <2>2. CASE ReaderGivesUp(c)
    <3>1. rd' \in [Conns -> [at : ReaderPlaces, on : Conns \cup {Nobody}]]
      BY <2>2 DEF ReaderGivesUp
    <3> QED BY <2>2, <3>1 DEF ReaderGivesUp, CloseCurrent, ReaderStays
  <2> QED BY <1>7, <2>1, <2>2 DEF Reader
<1>8. CASE QueuePacket
  BY <1>8 DEF QueuePacket
<1>17. CASE QueueWaitedFor
  <2>1. queue' \in 0 .. QMax
    BY <1>17 DEF QueueWaitedFor
  <2> QED BY <1>17, <2>1 DEF QueueWaitedFor
<1>9. CASE GameWakes
  <2>1. wr' \in [Conns -> WriterPlaces]
    BY <1>9 DEF GameWakes, WakeWriters, Awake
  <2> HIDE DEF WriterPlaces
  <2> QED BY <1>9, <2>1 DEF GameWakes, WakeWriters
<1>10. CASE Poll
  BY <1>10 DEF Poll, Break
<1>11. CASE TrackerEnds
  BY <1>11 DEF TrackerEnds, Break
<1>12. CASE CallbackLooks
  <2>1. cb' \in CallbackStates
    BY <1>12 DEF CallbackLooks
  <2>2. wexit' \in BOOLEAN /\ qown' \in {"callback", Nobody}
    BY <1>12 DEF CallbackLooks
  <2> HIDE DEF CallbackPlaces
  <2> QED BY <1>12, <2>1, <2>2 DEF CallbackLooks, CallbackStays
<1>13. CASE CallbackDisconnects
  <2>1. wr' \in [Conns -> WriterPlaces]
    BY <1>13 DEF CallbackDisconnects, WakeWriters, Awake
  <2>2. cb' \in CallbackStates
    BY <1>13 DEF CallbackDisconnects
  <2> HIDE DEF WriterPlaces, CallbackPlaces
  <2> QED BY <1>13, <2>1, <2>2 DEF CallbackDisconnects, CallbackStays, WakeWriters
<1>18. CASE CallbackMaps
  <2>1. cb' \in CallbackStates
    BY <1>18 DEF CallbackMaps
  <2> HIDE DEF CallbackStates
  <2> QED BY <1>18, <2>1 DEF CallbackMaps, CallbackStays
<1>14. CASE CallbackConnects
  <2>1. cb' \in CallbackStates
    BY <1>14, ConnectsTypes
  <2>2. /\ conn' \in [Conns -> {"open", "cut"}]
        /\ sock' \in Conns \cup {Nobody} /\ port' \in Servers \cup {Nobody}
        /\ qown' \in {"callback", Nobody}
    BY <1>14, ConnectsOrNot
  <2>3. UNCHANGED <<world, directory, univ, rd, game, torn, seen, have, wexit, queue, eown, wr>>
    BY <1>14 DEF CallbackConnects, CallbackStays
  <2> HIDE DEF CallbackStates, WriterPlaces, ReaderPlaces, GamePlaces
  <2> QED BY <2>1, <2>2, <2>3
<1>19. CASE Answered
  <2>1. rd' \in [Conns -> [at : ReaderPlaces, on : Conns \cup {Nobody}]]
    BY <1>19 DEF Answered
  <2>2. wr' \in [Conns -> WriterPlaces]
    BY <1>19 DEF Answered
  <2>3. /\ cb' \in CallbackStates
        /\ sock' \in Conns \cup {Nobody} /\ port' \in Servers \cup {Nobody}
        /\ have' \in BOOLEAN /\ wexit' \in BOOLEAN /\ torn' \in BOOLEAN
        /\ queue' \in 0 .. QMax /\ qown' \in {"callback", Nobody} /\ eown' \in Conns \cup {Nobody}
    <3>1. /\ cb' = Idle /\ sock' = cb.on /\ port' = cb.to /\ have' = FALSE /\ wexit' = FALSE
          /\ queue' = 0 /\ qown' = Nobody /\ eown' = Nobody
          /\ torn' = (torn \/ eown # Nobody)
      BY <1>19, Zenon DEF Answered, ClearFlags
    <3>2. 0 \in 0 .. QMax
      OBVIOUS
    <3> QED BY <3>1, <3>2
  <2>4. game' \in GamePlaces
    BY <1>19 DEF Answered
  <2>5. UNCHANGED <<world, directory, univ, conn, seen>>
    BY <1>19 DEF Answered
  <2> HIDE DEF CallbackStates, WriterPlaces, ReaderPlaces, GamePlaces
  <2> QED BY <2>1, <2>2, <2>3, <2>4, <2>5
<1>20. CASE Unanswered
  <2>1. cb' \in CallbackStates /\ port' \in Servers \cup {Nobody} /\ qown' \in {"callback", Nobody}
    BY <1>20 DEF Unanswered
  <2> HIDE DEF CallbackStates
  <2> QED BY <1>20, <2>1 DEF Unanswered, CallbackStays
<1>15. CASE UNCHANGED vars
  BY <1>15 DEF vars
<1> QED
  BY <1>1, <1>2, <1>3, <1>4, <1>5, <1>6, <1>7, <1>8, <1>9, <1>10, <1>11, <1>12, <1>13, <1>14,
     <1>15, <1>16, <1>17, <1>18, <1>19, <1>20 DEF Next
-----------------------------------------------------------------------------
(* The connection and its writer.                                             *)

LEMMA LinkHasWriterNext ==
    LinkInvariant /\ [Next]_vars =>
        LinkHasWriter' /\ ExitIsForTheOld' /\ ClosedBeforeOpened' /\ HandshakeOverOne'
<1> DEFINE Linked3 ==
        LinkHasWriter /\ ExitIsForTheOld /\ ClosedBeforeOpened /\ HandshakeOverOne
<1> SUFFICES ASSUME LinkInvariant, [Next]_vars PROVE Linked3'
  OBVIOUS
<1> USE LinkConstants DEF LinkHasWriter, ExitIsForTheOld, ClosedBeforeOpened,
        HandshakeOverOne, CallbackStates, Idle
<1>0. /\ Linked3 /\ sock \in Conns \cup {Nobody} /\ wr \in [Conns -> WriterPlaces]
      /\ cb \in CallbackStates
  BY DEF LinkInvariant, MvLinkTypeOK
<1>1. ASSUME NEW c \in Conns, Writer(c) PROVE Linked3'
  <2>1. CASE WriterWaits(c)
    BY <1>0, <2>1 DEF WriterWaits, WriterStays
  <2>2. CASE WriterCombines(c)
    BY <1>0, <2>2 DEF WriterCombines, WriterStays
  <2>3. CASE WriterSends(c)
    BY <1>0, <2>3 DEF WriterSends, WriterStays
  <2>4. CASE WriterGivesUp(c)
    BY <1>0, <2>4 DEF WriterGivesUp, CloseCurrent
  <2>5. CASE WriterChecks(c)
    BY <1>0, <2>5 DEF WriterChecks, WriterStays
  <2> QED BY <1>1, <2>1, <2>2, <2>3, <2>4, <2>5 DEF Writer
<1>2. ASSUME NEW c \in Conns, Reader(c) PROVE Linked3'
  BY <1>0, <1>2 DEF Reader, ReaderHandles, ReaderFails, ReaderGivesUp, CloseCurrent, ReaderStays
<1>3. CASE GameWakes
  BY <1>0, <1>3 DEF GameWakes, WakeWriters, Awake
<1>4. CASE Poll \/ TrackerEnds
  BY <1>0, <1>4 DEF Poll, TrackerEnds
<1>5. CASE CallbackLooks
  BY <1>0, <1>5 DEF CallbackLooks, CallbackStays
<1>6. CASE CallbackDisconnects
  BY <1>0, <1>6 DEF CallbackDisconnects, CallbackStays
<1>9. CASE CallbackMaps
  BY <1>0, <1>9 DEF CallbackMaps, CallbackStays
<1>7. CASE CallbackConnects
  <2>1. cb.at = "connect" /\ UNCHANGED <<wexit, wr>>
    BY <1>7 DEF CallbackConnects
  <2>2. sock' = Nobody /\ (cb'.at = "handshake" => cb'.on \in Conns)
    BY <1>0, <1>7, <2>1, ConnectsTypes
  <2> QED BY <2>1, <2>2
<1>10. CASE Answered
  <2>1. cb.on \in Conns /\ sock' = cb.on /\ ~wexit' /\ cb'.at = "idle"
    BY <1>0, <1>10 DEF Answered, ClearFlags
  <2>2. wr'[cb.on] = "wait"
    <3>1. PICK S \in SUBSET (Waiting \ {cb.on}) :
             wr' = [d \in Conns |-> CASE d = cb.on -> "wait"
                                      [] d \in S -> "stranded"
                                      [] OTHER -> wr[d]]
      BY <1>10 DEF Answered
    <3>2. wr'[cb.on] = CASE cb.on = cb.on -> "wait"
                         [] cb.on \in S -> "stranded"
                         [] OTHER -> wr[cb.on]
      BY <2>1, <3>1
    <3>3. cb.on \notin S
      BY <3>1
    <3> QED BY <3>2, <3>3
  <2> QED BY <2>1, <2>2
<1>11. CASE Unanswered
  BY <1>0, <1>11 DEF Unanswered, CallbackStays
<1>8. CASE UNCHANGED <<sock, wr, wexit, cb>>
  BY <1>0, <1>8
<1> QED
  BY <1>1, <1>2, <1>3, <1>4, <1>5, <1>6, <1>7, <1>8, <1>9, <1>10, <1>11
  DEF Next, vars, MultiverseStarts, MultiverseDies, MultiverseGoesDeaf, MultiverseRegisters,
      LobbyForgets, ConnectionBreaks, QueuePacket, QueueWaitedFor

-----------------------------------------------------------------------------
(* The mutexes.                                                               *)

LEMMA MutexOwnersNext == LinkInvariant /\ [Next]_vars => CallbackHoldsQueue' /\ WriterHoldsEvent'
<1> DEFINE Owners == CallbackHoldsQueue /\ WriterHoldsEvent
<1> SUFFICES ASSUME LinkInvariant, [Next]_vars PROVE Owners'
  OBVIOUS
<1> USE LinkConstants DEF CallbackHoldsQueue, WriterHoldsEvent, CallbackStates, Idle
<1>0. /\ Owners /\ eown \in Conns \cup {Nobody} /\ wr \in [Conns -> WriterPlaces]
      /\ cb \in CallbackStates /\ torn \in BOOLEAN
  BY DEF LinkInvariant, MvLinkTypeOK
<1>1. ASSUME NEW c \in Conns, Writer(c) PROVE Owners'
  <2>1. CASE WriterWaits(c)
    BY <1>0, <2>1 DEF WriterWaits, WriterStays
  <2>2. CASE WriterCombines(c)
    BY <1>0, <2>2 DEF WriterCombines, WriterStays
  <2>3. CASE WriterSends(c)
    BY <1>0, <2>3 DEF WriterSends, WriterStays, EventAfter
  <2>4. CASE WriterGivesUp(c)
    BY <1>0, <2>4 DEF WriterGivesUp, CloseCurrent, locks
  <2>5. CASE WriterChecks(c)
    BY <1>0, <2>5 DEF WriterChecks, WriterStays, locks
  <2> QED BY <1>1, <2>1, <2>2, <2>3, <2>4, <2>5 DEF Writer
<1>2. CASE GameWakes
  BY <1>0, <1>2 DEF GameWakes, WakeWriters, Awake
<1>3. CASE Poll \/ TrackerEnds
  BY <1>0, <1>3 DEF Poll, TrackerEnds, locks
<1>4. CASE CallbackLooks
  BY <1>0, <1>4 DEF CallbackLooks, CallbackStays
<1>5. CASE CallbackDisconnects
  BY <1>0, <1>5 DEF CallbackDisconnects, CallbackStays, WakeWriters, Awake, locks
<1>8. CASE CallbackMaps
  BY <1>0, <1>8 DEF CallbackMaps, CallbackStays
<1>6. CASE CallbackConnects
  <2>1. cb.at = "connect" /\ UNCHANGED <<wr, eown, torn>>
    BY <1>6 DEF CallbackConnects, CallbackStays
  <2>2. \/ cb'.at = "handshake" /\ qown' = qown
        \/ cb'.at = "idle" /\ qown' = Nobody
    BY <1>0, <1>6, ConnectsTypes
  <2> QED BY <1>0, <2>1, <2>2
<1>9. CASE Answered
  <2>1. CallbackHoldsQueue'
    BY <1>9 DEF Answered
  <2>2. eown' = Nobody /\ torn' = (torn \/ eown # Nobody)
    BY <1>9 DEF Answered
  <2>3. ASSUME NEW d \in Conns, ~torn' PROVE wr'[d] \notin {"combine", "send"}
    <3>1. wr[d] \notin {"combine", "send"}
      BY <1>0, <2>2, <2>3
    <3> QED BY <1>0, <1>9, <3>1 DEF Answered
  <2> QED BY <2>1, <2>2, <2>3
<1>10. CASE Unanswered
  BY <1>0, <1>10 DEF Unanswered, CallbackStays
<1>7. CASE UNCHANGED <<qown, eown, wr, cb, torn>>
  BY <1>0, <1>7
<1> QED
  BY <1>1, <1>2, <1>3, <1>4, <1>5, <1>6, <1>7, <1>8, <1>9, <1>10
  DEF Next, vars, MultiverseStarts, MultiverseDies, MultiverseGoesDeaf, MultiverseRegisters,
      LobbyForgets, ConnectionBreaks, QueuePacket, QueueWaitedFor, locks,
      Reader, ReaderHandles, ReaderFails, ReaderGivesUp, ReaderStays

-----------------------------------------------------------------------------
LEMMA LinkInvariantHolds == Spec => []LinkInvariant
<1>1. LinkInvariant /\ [Next]_vars => LinkInvariant'
  BY LinkTypeNext, LinkHasWriterNext, MutexOwnersNext DEF LinkInvariant
<1> QED BY LinkInit, <1>1, PTL DEF Spec

(* The variables of MvLink keep their types.                                  *)
THEOREM MvLinkTypes == Spec => []MvLinkTypeOK
<1>1. LinkInvariant => MvLinkTypeOK
  BY DEF LinkInvariant
<1> QED BY LinkInvariantHolds, <1>1, PTL

(* The connection in use has its writer, whatever orders to exit old writers  *)
(* have missed: disconnect_from_multiverse and connect_to_multiverse.         *)
THEOREM LinkKeepsItsWriter == Spec => []LinkHasWriter
<1>1. LinkInvariant => LinkHasWriter
  BY DEF LinkInvariant
<1> QED BY LinkInvariantHolds, <1>1, PTL

(* Whoever holds queue_mutex or event_mutex is where the code gives it back,  *)
(* a handshake that may never be answered being one of the places;            *)
(* and event_mutex keeps writers apart as long as it was never initialised    *)
(* under its owner.                                                           *)
THEOREM MutexesAreGivenBack == Spec => [](CallbackHoldsQueue /\ WriterHoldsEvent)
<1>1. LinkInvariant => CallbackHoldsQueue /\ WriterHoldsEvent
  BY DEF LinkInvariant
<1> QED BY LinkInvariantHolds, <1>1, PTL
-----------------------------------------------------------------------------
(* Deadlocks.                                                                 *)

(* Who is waited for owns a mutex.  An owner who waits himself is the         *)
(* callback, for event_mutex, the writer that has that, for queue_mutex, or   *)
(* the game, for which only the callback waits, with no mutex taken.          *)
LEMMA OwnersWait ==
    ASSUME LinkInvariant, NEW s \in Threads, NEW t \in Threads, NEW u \in Threads,
           NEW v \in Threads, WaitsFor(s, t), WaitsFor(t, u), WaitsFor(u, v)
    PROVE  \/ u = "callback" /\ cb.at = "wake" /\ v = eown
           \/ u = eown /\ u \in Conns /\ wr[u] = "combine" /\ v = "callback"
<1>1. \/ u = "callback" /\ cb.at \in {"wake", "connect", "handshake"}
      \/ u = eown /\ u \in Conns /\ wr[u] \in {"combine", "send"}
  <2>1. CASE u = qown
    BY <2>1, LinkConstants DEF LinkInvariant, MvLinkTypeOK, CallbackHoldsQueue, Threads
  <2>2. CASE u = eown
    BY <2>2, LinkConstants DEF LinkInvariant, MvLinkTypeOK, WriterHoldsEvent, Threads
  <2>3. CASE t \in WaitOnUniverse
    <3>1. t = "callback" /\ cb.at = "map"
      BY <2>3 DEF WaitOnUniverse
    <3>2. qown # "callback" /\ eown # "callback" /\ univ # "callback"
      BY <3>1, LinkConstants DEF LinkInvariant, MvLinkTypeOK, CallbackHoldsQueue
    <3>. QED  BY <3>1, <3>2 DEF WaitsFor
  <2>. QED  BY <2>1, <2>2, <2>3 DEF WaitsFor
<1>2. CASE u = "callback" /\ cb.at \in {"wake", "connect", "handshake"}
  BY <1>2, LinkConstants DEF WaitsFor, WaitOnQueue, WaitOnEvent, WaitOnUniverse
<1>3. CASE u = eown /\ u \in Conns /\ wr[u] \in {"combine", "send"}
  <2>1. v = qown /\ wr[u] = "combine"
    BY <1>3, LinkConstants DEF WaitsFor, WaitOnQueue, WaitOnEvent, WaitOnUniverse
  <2>2. v = "callback"
    BY <2>1, LinkConstants DEF LinkInvariant, MvLinkTypeOK, Threads
  <2>. QED  BY <1>3, <2>1, <2>2
<1>. QED  BY <1>1, <1>2, <1>3

(* Four steps along a deadlock come to both of them.                          *)
LEMMA DeadlockWedges ==
    ASSUME LinkInvariant, NEW S \in SUBSET Threads, Deadlocked(S)
    PROVE  Wedged
<1>1. PICK s \in S : TRUE
  BY DEF Deadlocked
<1>2. PICK t \in S : WaitsFor(s, t)
  BY DEF Deadlocked
<1>3. PICK u \in S : WaitsFor(t, u)
  BY DEF Deadlocked
<1>4. PICK v \in S : WaitsFor(u, v)
  BY DEF Deadlocked
<1>5. PICK w \in S : WaitsFor(v, w)
  BY DEF Deadlocked
<1>6. \/ u = "callback" /\ cb.at = "wake" /\ v = eown
      \/ u = eown /\ u \in Conns /\ wr[u] = "combine" /\ v = "callback"
  BY <1>2, <1>3, <1>4, OwnersWait
<1>7. \/ v = "callback" /\ cb.at = "wake" /\ w = eown
      \/ v = eown /\ v \in Conns /\ wr[v] = "combine" /\ w = "callback"
  BY <1>3, <1>4, <1>5, OwnersWait
<1>8. cb.at = "wake" /\ eown \in Conns /\ wr[eown] = "combine"
  BY <1>6, <1>7, LinkConstants DEF LinkInvariant, MvLinkTypeOK
<1>9. qown = "callback"
  BY <1>8 DEF LinkInvariant, CallbackHoldsQueue
<1>. QED  BY <1>8, <1>9, LinkConstants DEF Wedged

LEMMA WedgedIsDeadlock ==
    ASSUME LinkInvariant, Wedged
    PROVE  \E S \in SUBSET Threads : Deadlocked(S)
<1>1. eown \in Conns /\ wr[eown] = "combine" /\ qown = "callback" /\ cb.at = "wake"
  BY DEF Wedged, LinkInvariant, MvLinkTypeOK
<1>2. WaitsFor("callback", eown) /\ WaitsFor(eown, "callback")
  BY <1>1 DEF WaitsFor, WaitOnEvent, WaitOnQueue
<1>3. {"callback", eown} \in SUBSET Threads /\ Deadlocked({"callback", eown})
  BY <1>1, <1>2 DEF Threads, Deadlocked
<1>. QED  BY <1>3

(* There is one deadlock on event_mutex, queue_mutex and universe_mutex, for  *)
(* any connections: the writer's and the callback's, who take the first two   *)
(* in opposite orders.  No other set of threads, the game's and former        *)
(* connections' among them, ever comes to wait in a circle                    *)
(* (multiverse_writer, servers_changed_cb, queue_to_multiverse).              *)
THEOREM OneDeadlock == Spec => []DeadlockIsWedged
<1>1. LinkInvariant => DeadlockIsWedged
  BY DeadlockWedges, WedgedIsDeadlock DEF DeadlockIsWedged
<1>. QED  BY LinkInvariantHolds, <1>1, PTL

(* Who is wedged stays so, whatever becomes of the multiverse, the lobby, the *)
(* connections and the game, unless the mutexes were initialised under their  *)
(* owner before.                                                              *)
THEOREM NoWayOut == Spec => WedgedForGood
<1>1. ASSUME LinkInvariant, Next, Wedged, ~torn
      PROVE  Wedged'
  <2>0. /\ qown = "callback" /\ cb.at = "wake" /\ eown \in Conns /\ wr[eown] = "combine"
        /\ wr \in [Conns -> WriterPlaces] /\ eown # Nobody /\ qown # Nobody
        /\ \A c \in Conns : wr[c] \in {"combine", "send"} => c = eown
    BY <1>1, LinkConstants DEF Wedged, LinkInvariant, MvLinkTypeOK, WriterHoldsEvent
  <2>. DEFINE Stuck == UNCHANGED <<qown, cb, eown>> /\ wr'[eown] = wr[eown]
  <2>1. SUFFICES Stuck
    BY <2>0 DEF Wedged
  <2>2. ASSUME NEW c \in Conns, Writer(c) PROVE Stuck
    <3>1. ~WriterWaits(c) /\ ~WriterCombines(c) /\ ~WriterSends(c)
      BY <2>0 DEF WriterWaits, WriterCombines, WriterSends
    <3>2. CASE WriterGivesUp(c)
      BY <2>0, <3>2 DEF WriterGivesUp, locks
    <3>3. CASE WriterChecks(c)
      BY <2>0, <3>3 DEF WriterChecks, WriterStays, locks
    <3>. QED  BY <2>2, <3>1, <3>2, <3>3 DEF Writer
  <2>3. ~GameWakes /\ ~CallbackMaps /\ ~CallbackLooks /\ ~CallbackDisconnects
        /\ ~CallbackConnects /\ ~Answered /\ ~Unanswered /\ ~Poll /\ ~TrackerEnds
    BY <2>0 DEF GameWakes, WakeWriters, CallbackMaps, CallbackLooks, CallbackDisconnects,
                CallbackConnects, Answered, Unanswered, Poll, TrackerEnds
  <2>4. CASE UNCHANGED <<qown, eown, wr, cb>>
    BY <2>4
  <2>. QED
    BY <1>1, <2>2, <2>3, <2>4
    DEF Next, MultiverseStarts, MultiverseDies, MultiverseGoesDeaf, MultiverseRegisters,
        LobbyForgets, ConnectionBreaks, QueuePacket, QueueWaitedFor, locks,
        Reader, ReaderHandles, ReaderFails, ReaderGivesUp, ReaderStays
<1>2. LinkInvariant /\ [Next]_vars => [Wedged /\ ~torn => Wedged']_vars
  BY <1>1
<1>. QED  BY LinkInvariantHolds, <1>2, PTL DEF Spec, WedgedForGood
==============================================================================
