-------------------------------- MODULE MvLink -------------------------------
(* How a snis_server finds the multiverse and keeps its connection to it: the *)
(* tracker thread, which polls the lobby and runs servers_changed_cb, the     *)
(* reader and the writer thread of each connection, and the game, which       *)
(* queues packets; with the two mutexes of multiverse_server_info they meet   *)
(* on, universe_mutex, which the game holds while it queues and the others    *)
(* want, the packet queue, and a multiverse that dies, comes back or goes     *)
(* deaf.                                                                      *)
(*                                                                            *)
(* The lobby is the abstract Directory.  What is said over a connection is    *)
(* the business of Multiverse.                                                *)
EXTENDS Directory, Integers

CONSTANTS
    Conns,          \* connections (bound: this many in use at a time)
    Nobody,         \* no server, no connection, no owner
    FirstServers,   \* bound: where the multiverse is started first
    QMax,           \* bound: packets in the queue
    MaxStarts,      \* bound: how often the multiverse is started
    MaxBreaks,      \* bound: breaks the multiverse is not to blame for
    MaxTroubles     \* bound: starts and breaks together; after that many the
                    \* multiverse lives on

ASSUME MvLinkAssumption ==
    /\ {QMax, MaxStarts, MaxBreaks, MaxTroubles} \subseteq Nat
    /\ FirstServers \subseteq Servers
    /\ Nobody \notin Servers \cup Conns \cup {"callback", "game"}
    /\ Conns \cap {"callback", "game"} = {}

VARIABLES
    up,         \* the address the multiverse listens on
    deaf,       \* it listens, and does not answer who connects
    starts,     \* how often it was started (bound)
    breaks,     \* breaks so far (bound)
    conn,       \* conn[c]: "open", or "cut" at either end
    seen,       \* the tracker's list: mverse_server
    sock,       \* msi->sock
    port,       \* msi->ipaddr and msi->port, Nobody for -1
    have,       \* msi->have_packets_to_xmit
    wexit,      \* msi->writer_time_to_exit
    queue,      \* length of msi->mverse_queue
    univ,       \* universe_mutex: held by the game, or free
    qown,       \* msi->queue_mutex: held by the callback, or free
    eown,       \* msi->event_mutex: the writer that holds it
    rd,         \* rd[c]: reader of connection c, and what it reads from
    wr,         \* wr[c]: writer of connection c
    cb,         \* servers_changed_cb: where it is, where it connects to, and
                \* the connection the handshake goes over
    game,       \* queue_to_multiverse: where it is
    torn        \* event_mutex was initialised under its owner (history)

world == <<up, deaf, starts, breaks>>
directory == <<listed, renewing>>
locks == <<univ, qown, eown>>
vars == <<world, directory, conn, seen, sock, port, have, wexit, queue, locks,
          rd, wr, cb, game, torn>>

WriterPlaces == {"none", "wait", "asleep", "combine", "send", "bad", "check",
                 "stranded"}
ReaderPlaces == {"none", "blocked", "failed"}
CallbackPlaces == {"idle", "map", "lock", "wake", "connect", "handshake", "ended"}
GamePlaces == {"idle", "queue", "wake", "stranded"}
CallbackStates == [at : CallbackPlaces, to : Servers \cup {Nobody},
                   on : Conns \cup {Nobody}]

MvLinkTypeOK ==
    /\ up \in Servers \cup {Nobody} /\ deaf \in BOOLEAN
    /\ starts \in 0 .. MaxStarts /\ breaks \in 0 .. MaxBreaks
    /\ listed \in SUBSET Servers /\ renewing \in SUBSET Servers
    /\ conn \in [Conns -> {"open", "cut"}]
    /\ seen \in SUBSET Servers
    /\ sock \in Conns \cup {Nobody}
    /\ port \in Servers \cup {Nobody}
    /\ have \in BOOLEAN /\ wexit \in BOOLEAN
    /\ queue \in 0 .. QMax
    /\ univ \in {"game", Nobody}
    /\ qown \in {"callback", Nobody} /\ eown \in Conns \cup {Nobody}
    /\ rd \in [Conns -> [at : ReaderPlaces, on : Conns \cup {Nobody}]]
    /\ wr \in [Conns -> WriterPlaces]
    /\ cb \in CallbackStates
    /\ game \in GamePlaces
    /\ torn \in BOOLEAN

Idle == [at |-> "idle", to |-> Nobody, on |-> Nobody]

(* multiverse_server as the -m option leaves it.                              *)
Init ==
    /\ DirectoryInit
    /\ up = Nobody /\ deaf = FALSE /\ starts = 0 /\ breaks = 0
    /\ conn = [c \in Conns |-> "cut"]
    /\ seen = {}
    /\ sock = Nobody /\ port = Nobody
    /\ have = FALSE /\ wexit = FALSE
    /\ queue = 0
    /\ univ = Nobody /\ qown = Nobody /\ eown = Nobody
    /\ rd = [c \in Conns |-> [at |-> "none", on |-> Nobody]]
    /\ wr = [c \in Conns |-> "none"]
    /\ cb = Idle
    /\ game = "idle"
    /\ torn = FALSE

-----------------------------------------------------------------------------
(* The multiverse and the lobby.                                              *)

MultiverseStarts(s) ==
    /\ up = Nobody
    /\ starts = 0 => s \in FirstServers
    /\ starts < MaxStarts /\ starts + breaks < MaxTroubles
    /\ up' = s
    /\ starts' = starts + 1
    /\ UNCHANGED <<deaf, breaks, directory, conn, seen, sock, port, have, wexit,
                   queue, locks, rd, wr, cb, game, torn>>

MultiverseDies ==
    /\ up # Nobody
    /\ starts + breaks < MaxTroubles
    /\ up' = Nobody /\ deaf' = FALSE
    /\ Lapse(up)
    /\ conn' = [c \in Conns |-> "cut"]
    /\ UNCHANGED <<starts, breaks, seen, sock, port, have, wexit, queue, locks,
                   rd, wr, cb, game, torn>>

MultiverseRegisters ==
    /\ up # Nobody
    /\ up \notin renewing
    /\ Enter(up)
    /\ UNCHANGED <<world, conn, seen, sock, port, have, wexit, queue, locks,
                   rd, wr, cb, game, torn>>

LobbyForgets ==
    /\ listed # renewing
    /\ Forget(listed \ renewing)
    /\ UNCHANGED <<world, conn, seen, sock, port, have, wexit, queue, locks,
                   rd, wr, cb, game, torn>>

Break ==
    /\ breaks < MaxBreaks /\ starts + breaks < MaxTroubles
    /\ breaks' = breaks + 1

(* Its listener waits for an entry that never comes free: connections are     *)
(* still queued for it, and never answered.  Until there is one it makes no   *)
(* difference.                                                                *)
MultiverseGoesDeaf ==
    /\ up # Nobody
    /\ cb.at = "handshake"
    /\ deaf' = TRUE
    /\ UNCHANGED <<up, starts, breaks, directory, conn, seen, sock, port, have, wexit, queue,
                   locks, rd, wr, cb, game, torn>>

(* The multiverse, or the network, gives one connection up.                   *)
ConnectionBreaks(c) ==
    /\ Break
    /\ conn[c] = "open"
    /\ conn' = [conn EXCEPT ![c] = "cut"]
    /\ UNCHANGED <<up, deaf, starts, directory, seen, sock, port, have, wexit, queue,
                   locks, rd, wr, cb, game, torn>>

-----------------------------------------------------------------------------
(* The game: queue_to_multiverse.                                             *)

(* packed_buffer_queue_add, from move_objects with universe_mutex held, for   *)
(* the count of bridges without.  The game waits if queue_mutex is taken ...  *)
QueuePacket ==
    /\ game = "idle"
    /\ queue < QMax
    /\ IF qown = Nobody
       THEN queue' = queue + 1 /\ game' = "wake"
       ELSE game' = "queue" /\ UNCHANGED queue
    /\ univ' \in {"game", Nobody}
    /\ UNCHANGED <<world, directory, conn, seen, sock, port, have, wexit, qown, eown,
                   rd, wr, cb, torn>>

(* ... until it gets it.                                                      *)
QueueWaitedFor ==
    /\ game = "queue"
    /\ qown = Nobody
    /\ queue < QMax
    /\ queue' = queue + 1
    /\ game' = "wake"
    /\ UNCHANGED <<world, directory, conn, seen, sock, port, have, wexit, locks,
                   rd, wr, cb, torn>>

Awake == [c \in Conns |-> IF wr[c] = "asleep" THEN "wait" ELSE wr[c]]

(* Mutant: the condition is signalled, the flag is not set.                   *)
SignalWriters ==
    /\ eown = Nobody
    /\ UNCHANGED have
    /\ wr' = Awake

(* wakeup_multiverse_writer                                                   *)
WakeWriters ==
    /\ eown = Nobody
    /\ have' = TRUE
    /\ wr' = Awake

GameWakes ==
    /\ game = "wake"
    /\ WakeWriters
    /\ game' = "idle"
    /\ univ' = Nobody
    /\ UNCHANGED <<world, directory, conn, seen, sock, port, wexit, queue, qown, eown,
                   rd, cb, torn>>

-----------------------------------------------------------------------------
(* multiverse_writer                                                          *)

WriterStays == UNCHANGED <<world, directory, univ, seen, port, rd, cb, game, torn>>

(* wait_for_multiverse_bound_packets gives event_mutex back and               *)
(* write_queued_packets_to_mvserver takes it again, which is one step here.   *)
WriterWaits(c) ==
    /\ wr[c] = "wait"
    /\ eown = Nobody
    /\ IF have
       THEN wr' = [wr EXCEPT ![c] = "combine"] /\ eown' = c
       ELSE wr' = [wr EXCEPT ![c] = "asleep"] /\ UNCHANGED eown
    /\ WriterStays
    /\ UNCHANGED <<conn, sock, have, wexit, queue, qown>>

(* packed_buffer_queue_combine, with event_mutex held.  If there is nothing   *)
(* to write the mutex is given back at once.                                  *)
WriterCombines(c) ==
    /\ wr[c] = "combine"
    /\ qown = Nobody
    /\ IF queue = 0
       THEN /\ wr' = [wr EXCEPT ![c] = "check"]
            /\ have' = FALSE
            /\ eown' = Nobody
       ELSE /\ wr' = [wr EXCEPT ![c] = "send"]
            /\ UNCHANGED <<have, eown>>
    /\ queue' = 0
    /\ WriterStays
    /\ UNCHANGED <<conn, sock, wexit, qown>>

(* Mutant: event_mutex is not given back when writing has failed.             *)
EventKept(ok) == IF ok THEN Nobody ELSE eown

(* The owner of event_mutex when the packets are written, or could not be.    *)
EventAfter(ok) == Nobody

(* To whatever msi->sock is by now.  What is written on a broken connection   *)
(* may be accepted, and lost.                                                 *)
WriterSends(c) ==
    /\ wr[c] = "send"
    /\ \/ /\ sock # Nobody
          /\ wr' = [wr EXCEPT ![c] = "check"]
          /\ have' = FALSE
          /\ eown' = EventAfter(TRUE)
       \/ /\ sock # Nobody => conn[sock] = "cut"
          /\ wr' = [wr EXCEPT ![c] = "bad"]
          /\ eown' = EventAfter(FALSE)
          /\ UNCHANGED have
    /\ WriterStays
    /\ UNCHANGED <<conn, sock, wexit, queue, qown>>

(* shutdown and close of msi->sock.                                           *)
CloseCurrent ==
    /\ sock' = Nobody
    /\ conn' = [c \in Conns |-> IF c = sock THEN "cut" ELSE conn[c]]

(* badserver                                                                  *)
WriterGivesUp(c) ==
    /\ wr[c] = "bad"
    /\ CloseCurrent
    /\ port' = Nobody
    /\ wr' = [wr EXCEPT ![c] = "check"]
    /\ UNCHANGED <<world, directory, seen, rd, cb, game, torn, have, wexit, queue, locks>>

WriterChecks(c) ==
    /\ wr[c] = "check"
    /\ wr' = [wr EXCEPT ![c] = IF wexit THEN "none" ELSE "wait"]
    /\ wexit' = FALSE
    /\ WriterStays
    /\ UNCHANGED <<conn, sock, have, queue, locks>>

-----------------------------------------------------------------------------
(* multiverse_reader                                                          *)

ReaderStays == UNCHANGED <<world, directory, seen, port, have, wexit, queue,
                           locks, wr, cb, game, torn>>

(* A message, for which universe_mutex is wanted; it may have come before the *)
(* connection broke.  Then the reader goes on reading, from whatever          *)
(* msi->sock is by now.                                                       *)
ReaderHandles(c) ==
    /\ rd[c].at = "blocked"
    /\ univ = Nobody
    /\ rd' = [rd EXCEPT ![c] = IF sock # Nobody
                               THEN [at |-> "blocked", on |-> sock]
                               ELSE [at |-> "failed", on |-> Nobody]]
    /\ ReaderStays
    /\ UNCHANGED <<conn, sock>>

(* Closing the descriptor does not wake a thread that is reading from it,     *)
(* shutting it down does, as does a connection that breaks.                   *)
ReaderFails(c) ==
    /\ rd[c].at = "blocked"
    /\ conn[rd[c].on] = "cut"
    /\ rd' = [rd EXCEPT ![c] = [at |-> "failed", on |-> Nobody]]
    /\ ReaderStays
    /\ UNCHANGED <<conn, sock>>

(* protocol_error: whatever msi->sock is by now is closed.                    *)
ReaderGivesUp(c) ==
    /\ rd[c].at = "failed"
    /\ CloseCurrent
    /\ rd' = [rd EXCEPT ![c].at = "none"]
    /\ ReaderStays

-----------------------------------------------------------------------------
(* The tracker thread and servers_changed_cb.                                 *)

CallbackStays == UNCHANGED <<world, directory, univ, rd, game, torn>>

(* The list of multiverses is not what it was, or, which counts as a break,   *)
(* that of the other servers is not.                                          *)
Poll ==
    /\ cb.at = "idle"
    /\ \/ listed # seen /\ UNCHANGED breaks
       \/ Break
    /\ seen' = listed
    /\ cb' = [cb EXCEPT !.at = "map"]
    /\ UNCHANGED <<up, deaf, starts, directory, conn, sock, port, have, wexit, queue,
                   locks, rd, wr, game, torn>>

(* The lobby does not answer: the tracker thread ends.                        *)
TrackerEnds ==
    /\ Break
    /\ cb.at = "idle"
    /\ cb' = [cb EXCEPT !.at = "ended"]
    /\ UNCHANGED <<up, deaf, starts, directory, conn, seen, sock, port, have,
                   wexit, queue, locks, rd, wr, game, torn>>

(* update_starmap takes universe_mutex and gives it back.                     *)
CallbackMaps ==
    /\ cb.at = "map"
    /\ univ = Nobody
    /\ cb' = [cb EXCEPT !.at = "lock"]
    /\ CallbackStays
    /\ UNCHANGED <<conn, seen, sock, port, have, wexit, queue, qown, eown, wr>>

(* queue_mutex is taken and the list searched for this multiverse.  If it is  *)
(* at a new address the old connection is given up (disconnect_from_multi-    *)
(* verse): first the threads are told to exit.                                *)
CallbackLooks ==
    /\ cb.at = "lock"
    /\ qown = Nobody
    /\ \/ /\ seen = {} \/ port \in seen
          /\ cb' = [cb EXCEPT !.at = "idle"]
          /\ UNCHANGED <<qown, wexit>>
       \/ \E s \in seen \ {port} :
             /\ cb' = [at |-> IF sock # Nobody THEN "wake" ELSE "connect",
                      to |-> s, on |-> Nobody]
             /\ wexit' = (wexit \/ sock # Nobody)
             /\ qown' = "callback"
    /\ CallbackStays
    /\ UNCHANGED <<conn, seen, sock, port, have, queue, eown, wr>>

(* ... then the writers are woken and the socket is closed.                   *)
CallbackDisconnects ==
    /\ cb.at = "wake"
    /\ WakeWriters
    /\ sock' = Nobody
    /\ cb' = [cb EXCEPT !.at = "connect"]
    /\ CallbackStays
    /\ UNCHANGED <<conn, seen, port, wexit, queue, qown, eown>>

Unused(c) ==
    /\ wr[c] \in {"none", "stranded"}
    /\ rd[c].at = "none"
    /\ sock # c
    /\ \A d \in Conns : rd[d].at = "blocked" => rd[d].on # c

(* There is no room for another connection here (an artefact of the bound).   *)
NoRoom == cb.at = "connect" /\ \A c \in Conns : ~Unused(c)

(* Writers that may be waiting on the mutexes and the condition variable.     *)
Waiting == {d \in Conns : \/ wr[d] \in {"asleep", "combine"}
                          \/ wr[d] = "wait" /\ eown # Nobody}

(* Mutant: the flag to exit stays up.                                         *)
ClearedNot == have' = FALSE /\ UNCHANGED wexit

ClearFlags == have' = FALSE /\ wexit' = FALSE

(* connect(): somebody listens there or not.                                  *)
CallbackConnects ==
    /\ cb.at = "connect"
    /\ IF up = cb.to
       THEN \E c \in Conns :
               /\ Unused(c)
               /\ c = CHOOSE d \in Conns : Unused(d)   \* whichever
               /\ conn' = [conn EXCEPT ![c] = "open"]
               /\ cb' = [cb EXCEPT !.at = "handshake", !.on = c]
               /\ UNCHANGED <<sock, port, qown>>
       ELSE /\ sock' = Nobody /\ port' = Nobody
            /\ cb' = Idle
            /\ qown' = Nobody
            /\ UNCHANGED conn
    /\ CallbackStays
    /\ UNCHANGED <<seen, have, wexit, queue, eown, wr>>

(* The handshake succeeds.  The mutexes and the condition variable are        *)
(* initialised again, queue_mutex while it is held: whoever was waiting on    *)
(* them may wait for ever.                                                    *)
Answered ==
    /\ cb.at = "handshake"
    /\ conn[cb.on] = "open" /\ ~deaf
    /\ sock' = cb.on
    /\ port' = cb.to
    /\ ClearFlags
    /\ queue' = 0
    /\ torn' = (torn \/ eown # Nobody)
    /\ qown' = Nobody /\ eown' = Nobody
    /\ \E S \in SUBSET (Waiting \ {cb.on}) :
          wr' = [d \in Conns |-> CASE d = cb.on -> "wait"
                                   [] d \in S -> "stranded"
                                   [] OTHER -> wr[d]]
    /\ rd' = [rd EXCEPT ![cb.on] = [at |-> "blocked", on |-> cb.on]]
    /\ game' \in IF game = "queue" \/ (game = "wake" /\ eown # Nobody)
                 THEN {game, "stranded"} ELSE {game}
    /\ cb' = Idle
    /\ UNCHANGED <<world, directory, univ, conn, seen>>

(* The connection breaks before the answer; port is reset only if that is     *)
(* noticed in writing.                                                        *)
Unanswered ==
    /\ cb.at = "handshake"
    /\ conn[cb.on] = "cut"
    /\ port' \in {port, Nobody}
    /\ cb' = Idle
    /\ qown' = Nobody
    /\ CallbackStays
    /\ UNCHANGED <<conn, seen, sock, have, wexit, queue, eown, wr>>

-----------------------------------------------------------------------------
Writer(c) ==
    \/ WriterWaits(c) \/ WriterCombines(c) \/ WriterSends(c)
    \/ WriterGivesUp(c) \/ WriterChecks(c)
Reader(c) == ReaderHandles(c) \/ ReaderFails(c) \/ ReaderGivesUp(c)
Game == QueueWaitedFor \/ GameWakes
Tracker ==
    \/ (listed # seen /\ Poll) \/ CallbackMaps \/ CallbackLooks \/ CallbackDisconnects
    \/ CallbackConnects \/ Answered \/ Unanswered

Next ==
    \/ \E s \in Servers : MultiverseStarts(s)
    \/ MultiverseDies \/ MultiverseGoesDeaf \/ MultiverseRegisters \/ LobbyForgets
    \/ \E c \in Conns : ConnectionBreaks(c) \/ Writer(c) \/ Reader(c)
    \/ QueuePacket \/ QueueWaitedFor \/ GameWakes
    \/ Poll \/ TrackerEnds
    \/ CallbackMaps \/ CallbackLooks \/ CallbackDisconnects \/ CallbackConnects
    \/ Answered \/ Unanswered

Spec == Init /\ [][Next]_vars

(* Every thread runs, and one that waits for a mutex that is free again and   *)
(* again gets it.  What is written returns: the other end reads.  A reader    *)
(* finds its connection broken when no message that came before keeps it      *)
(* waiting for universe_mutex.  The lobby enters who registers, and forgets   *)
(* the others.                                                                *)
Fairness ==
    /\ WF_vars(MultiverseRegisters) /\ WF_vars(LobbyForgets)
    /\ SF_vars(Game)
    /\ SF_vars(Tracker)
    /\ \A c \in Conns :
          /\ SF_vars(Writer(c))
          /\ WF_vars(univ = Nobody /\ ReaderFails(c)) /\ WF_vars(ReaderGivesUp(c))

FairSpec == Spec /\ Fairness

-----------------------------------------------------------------------------
(* Properties.                                                                *)

(* multiverse_writer holds event_mutex and wants queue_mutex;                 *)
(* servers_changed_cb holds queue_mutex and wants event_mutex.                *)
Wedged == qown = "callback" /\ cb.at = "wake" /\ eown # Nobody /\ wr[eown] = "combine"

(* Who may be waiting for whom: for the owner of a mutex he wants.  (Readers  *)
(* wait for universe_mutex with nothing in their hands.)                      *)
Threads == Conns \cup {"callback", "game"}

WaitOnQueue ==
    {c \in Conns : wr[c] = "combine"}
    \cup {t \in {"callback"} : cb.at = "lock"} \cup {t \in {"game"} : game = "queue"}
WaitOnEvent ==
    {c \in Conns : wr[c] = "wait"}
    \cup {t \in {"callback"} : cb.at = "wake"} \cup {t \in {"game"} : game = "wake"}

WaitOnUniverse == {t \in {"callback"} : cb.at = "map"}

WaitsFor(t, u) ==
    \/ t \in WaitOnQueue /\ u = qown
    \/ t \in WaitOnEvent /\ u = eown
    \/ t \in WaitOnUniverse /\ u = univ

Deadlocked(S) == S # {} /\ \A t \in S : \E u \in S : WaitsFor(t, u)

(* There is one deadlock on these mutexes and no other, whoever comes and     *)
(* goes: that of multiverse_writer and servers_changed_cb.  universe_mutex,   *)
(* which the game brings along to queue_to_multiverse, closes no circle.      *)
DeadlockIsWedged == (\E S \in SUBSET Threads : Deadlocked(S)) <=> Wedged

(* ... and it is for good: nothing that happens to the multiverse, the lobby, *)
(* the connection or the game undoes it, since only another callback could    *)
(* initialise the mutexes again.  (After torn a second writer may have        *)
(* event_mutex to give back.)                                                 *)
WedgedForGood == [][Wedged /\ ~torn => Wedged']_vars

(* As long as there is a connection that is not being given up it has its     *)
(* writer: none that is new ever takes the order to exit for its own, however *)
(* many old ones have missed it.                                              *)
LinkHasWriter ==
    sock # Nobody /\ cb.at # "wake" => wr[sock] \notin {"none", "stranded"}

(* What may hold the callback up for ever: the deadlock; a listener that does *)
(* not answer, since the handshake has no time-out and is made with           *)
(* queue_mutex held; and, before that, universe_mutex with a game that was    *)
(* left behind on a mutex initialised under it.                               *)
DeafEar == cb.at = "handshake" /\ deaf
UniverseLost == game = "stranded" /\ univ = "game"
HeldUp == Wedged \/ DeafEar \/ NoRoom

(* servers_changed_cb comes back unless it is held up for good by one of      *)
(* these, and there is nothing else that could hold it.                       *)
CallbackReturns ==
    <>[](HeldUp \/ UniverseLost) \/ (cb.at \notin {"idle", "ended"} ~> cb.at = "idle")

(* The game, which queues with universe_mutex held, is never held up for ever *)
(* in it but by those who hold up the callback that has queue_mutex, or an    *)
(* old writer that has event_mutex and wants queue_mutex.  Only a connection  *)
(* that is made while the game waits may leave it behind.                     *)
GameGoesOn ==
    <>[]HeldUp \/ (game \in {"queue", "wake"} ~> game \in {"idle", "stranded"})

(* No wake-up is lost: what is queued while there is a connection is taken    *)
(* from the queue.                                                            *)
PacketsAreWritten ==
    queue > 0 /\ sock # Nobody ~>
        queue = 0 \/ sock = Nobody \/ game = "stranded" \/ torn \/ Wedged

Linked(s) == sock # Nobody /\ conn[sock] = "open" /\ port = s

(* "when snis_multiverse gets restarted, even if it happens to get the same   *)
(* IP and port it previously had, we will recognize it as having come back    *)
(* from the dead": a multiverse there was a connection to, and that ends up   *)
(* running and listed where it was, is connected to again.                    *)
LinkComesBack ==
    \A s \in Servers :
        <>Linked(s) /\ <>[](up = s /\ s \in listed) => []<>Linked(s) \/ <>HeldUp \/ <>UniverseLost
==============================================================================
