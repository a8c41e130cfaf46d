# Space Nerds in Space: TLA+ models, checks and proofs

This directory holds TLA+ modules of the parts of Space Nerds in Space (SNIS)
in which several processes and threads have to agree, the TLC configurations
that check them, and theorems that TLAPS has checked. Source files are named as
in the root of the repository; `file.c:a-b` are lines.

Contents: [the system](#the-system), [what is hard](#what-is-hard-and-what-makes-it-correct),
[the modules](#the-modules), [the runs](#the-runs), [fairness](#fairness),
[findings](#findings), [the proofs](#the-proofs), [not modelled](#not-modelled),
[plan](#plan).

## The system

SNIS simulates the bridge of a starship. A *crew* of players, each at a client,
flies one ship; ships travel between *solar systems*, each a process of its own.

| part | source | state | operations |
|---|---|---|---|
| multiverse: ship table | `snis_multiverse.c` | `ship[]`, `nbridges`, per ship the bridge's state, its solar system, two time stamps | create, look up, update (bridge, cargo, passengers), verify |
| multiverse: checkpoints | `snis_multiverse.c` | `.data` and `.update` file per ship below `database_root` | checkpoint every 30 s, restore at start |
| multiverse: connections | `snis_multiverse.c` | `starsystem[]`: socket, reference count, write queue, name | accept, claim an entry, reader and writer thread, reap |
| multiverse: wrangling | `snis_multiverse.c` | shutdown countdowns, lock files, star map | start and stop `snis_server` processes |
| server: multiverse link | `snis_server.c` | `multiverse_server_info`: socket, port, queue, three mutexes, exit flags | connect, reader, writer, `servers_changed_cb`, disconnect |
| server: clients and bridges | `snis_server.c` | `client[]` with reference counts, `bridgelist[]`, two or more threads per client | log in, join or found a bridge, leave, delete bridge |
| server: simulation | `snis_server.c` | `go[]`, factions, economy | ten ticks a second of `move_objects` |
| server: Lua | `snis_server.c`, `snis_event_callback.c` | callbacks per event, schedule, timers, proximity checks, queued scripts | register, schedule, queue, run, clear |
| server: docking | `snis_server.c`, `docking_port.c` | per port: who is docked, who is expected and until when; per ship: magnets, AI stack | ask, dock, undock, choose a port, abort |
| server: talking stick | `talking_stick.c`, `snis_server.c`, `snis_client.c` | who has which audio chain | ask, grant, give back |
| server: fleets | `fleet.c`, `snis_server.c` | ten fleets of up to ten ids; per ship, an entry of its AI stack that names its fleet | found, join, leave, follow, die |
| server: queues, allocators | `snis_marshal.c`, `workqueue.c`, `snis_alloc.c` | packet queues, ring of work items, bitmap | add, combine, enqueue, wait, allocate |
| server tracker | `snis_server_tracker.c` | lists of servers and multiverses | poll, compare, call back |
| lobby | `ssgl/` | list of registered servers with expiry | register, list, expire, broadcast |
| client: texture cache | `graph_dev/texture_cache.c`, `workqueue.c` | textures, names, requests to four decoding threads | load, expire, decode, upload |
| client | `snis_client.c` and graphics, sound, joysticks | copy of the nearby objects, user interface | render, send orders |
| voice, gateway, forker | `snis_voice_chat.c`, `snis_web_gateway.c`, `snis_client_forker.c` | audio queue, sockets, child processes | I/O |
| readers | `key_value_parser.c`, `snis_ship_type.c`, `stl_parser.c`, ... | - | parse files |

How they interact. A server learns from the lobby, by way of the tracker's
callback, where the multiverse is, and connects to it. For each bridge it sends
a *verification request*: either "this ship is to be created" or "this ship
exists". The multiverse answers with a verdict, and for an existing ship sends
its state behind the verdict. From then on the server reports each verified
bridge every ten seconds. When a crew goes through a warp gate its clients leave
one server and board at another, which starts with a fresh ship until the state
arrives. The multiverse writes changed ships to disk every thirty seconds.
Within each process, threads share tables under mutexes: `data_mutex` (ships),
`service_mutex` (connections), `universe_mutex` and the client lock (server),
`queue_mutex`, `event_mutex` and `exit_mutex` (multiverse link).

## What is hard, and what makes it correct

* **Identity of ships.** Two processes and a connection between them must agree
  on which ships exist, while crews leave and board again, verdicts are on their
  way, connections break and either process dies. Correct: nobody is let aboard
  a ship the multiverse has no entry for (`VerifiedMeansRecorded`); nobody
  reports such a ship (`UpdatesNameRecordedShips`); whoever asks is answered
  (`Answered`); a ship is created once (`NoSecondCreate`, violated); its state is
  carried along (`StateCarriedOver`, violated).
* **Framing.** Some error paths return before all of a packet is read, and the
  rest is then read as opcodes, among which may be valid ones that swallow the
  packets behind them. Correct: this happens only when a crash has made
  the two ends disagree (`DesyncOnlyAfterLoss`).
* **Persistence.** The process can die between any two system calls of a save,
  and each of them can fail; some failures are seen, and what `fprintf`, `fsync`
  and `fclose` return is not looked at. Correct: a restart finds the last save that
  was renamed, or what could be written of it (`ImplementsTable`), it is later than
  the one before it, and whole if no write failed
  (`SavesMoveOn`); but for saves that failed nothing unsaved counts as saved
  (`CleanIsSaved`), a save that fails does not starve others
  (`EveryEntryGetsItsTurn`), the table never overflows (`TableFits`).
* **Threads on shared entries.** Entries and descriptor numbers are used again
  while threads of a former connection are still about. Correct: reference counts
  are what they claim (`RefcountIsThreads`), nothing leaks (`NoDescriptorLeak`),
  and the listener keeps listening (`ListenerReturns`, violated).
* **Clients and bridges of a server.** Clients name their bridge by an index into
  a list that closes its gaps, entries of `client[]` are holes before they are
  used again, and two threads and the listener each hold a reference. Correct:
  counts are what they claim (`RefcountIsUsers`), crews and bridges agree
  (`CrewsAreRight`), a ship comes and goes with its crew, one member at a time
  (`ImplementsCrews`), no assertion fails (`AbortsOnlyAfterEarlyReaping`), an index
  names the client's own bridge (`IndexNamesBridge`, violated).
* **The link to the multiverse.** Four kinds of threads share a socket number, a
  queue, two mutexes, a condition variable and two flags, and a new connection is
  made over the remains of the old, by a handshake without a time-out. Correct: a
  connection has a writer of its own
  (`LinkHasWriter`), threads wait in a circle in one way only (`DeadlockIsWedged`) and
  nobody waits for ever but for that, for a multiverse that listens and does not
  answer, or for a game that was left behind (`CallbackReturns`, `GameGoesOn`), what
  is queued is written (`PacketsAreWritten`), a multiverse that comes back is found
  again (`LinkComesBack`, violated).
* **Wrangling.** Servers are started and stopped on the word of counts that are
  seconds old, through descriptors that were looked up before. Correct: no server
  with a crew is told to stop (`CrewIsSafe`).
* **The lobby.** The dead are known by their silence only. Correct: they are
  forgotten in time (`DeadAreForgotten`), the living never are
  (`ImplementsDirectory`).
* **Docking.** Players, scripts and ships of the server compete for ports, with
  permissions that run out and ships that die under way. Correct: two ships of the
  server never go for one port (`NpcsKeepApart`), a ship has one berth
  (`NpcsHaveOneBerth`), no port waits for a ship that is no more
  (`ResidentsExist`), nobody is pushed out (`NobodyIsPushedOut`).
* **Fleets.** A fleet knows its ships by ids, a ship its fleet by an entry of a stack
  that others clear. Correct: the dead are in no fleet and the living in one at most
  (`FleetsAreOfTheLiving`), and who follows is in the fleet it follows
  (`FollowersAreMembers`).
* **Textures.** Names are given out twice, requests are dropped when the ring is
  full, workers are woken outside the lock. Correct: `NoWorkIsForgotten`,
  `PendingIsComing`.
* **Scripts.** Lists change under the loops that walk them, and of the callbacks of
  an event only the first is scheduled. Correct, of that one:
  `EventsAreCalled`, `TimersFireInTime`, `CommandsAreRun`, `ChecksWait` (violated).
* **The talking stick.** Requests, releases and grants cross. Correct: each stick
  has one owner (`EveryStickHasOneOwner`) and comes back (`SticksComeBack`).

`PROJECT.json` lists each hazard with its line.

## The modules

```
ShipTable  <--- INSTANCE (refinement) --- ShipStore      <- MCShipStore, ShipStoreProofs
    ^
    | EXTENDS
Multiverse --- INSTANCE ---> MvProtocol                  <- MCMultiverse, MultiverseProofs

Crews      <--- INSTANCE (refinement) --- Clients        <- MCClients, ClientsProofs

Directory  <--- INSTANCE (refinement) --- Lobby
    ^
    | EXTENDS
MvLink                                                   <- MCMvLink, MvLinkProofs

LuaCallbacks                                             <- MCLuaCallbacks
StarsystemSlots                                          <- MCStarsystemSlots

StarsystemSlots, Wrangler, Lobby                         <- StarsystemProofs
Docking, TalkingStick, Fleets                            <- GameProofs
ImageLoader, LuaCallbacks                                <- QueueProofs
                    all eight of these                   <- MCParts
```

`Numbers` has a lemma of arithmetic that the proofs of several modules share.

**ShipTable** is what the rest of the system may believe about the multiverse's
memory: `known` are the hashes `lookup_ship_by_hash` finds, `ship[h]` the entry
it finds, `slots` is `nbridges`, and `saved`, `leftover`, `file` are the disk.
`Create`, `Apply`, `Save`, `SaveShort`, `SaveFails`, `Crash`, `Restart` are
`create_new_ship`, `update_bridge`, one entry of `checkpoint_data` (written as it is,
written in part without anybody noticing, or given up), the death of
the process and `restore_data` in `main`; `CreateStrays` is `create_new_ship` for hashes
that are nobody's, read off a connection without packet boundaries. A ship's state is a number: 0 is a ship
as `add_player` spawns it, more means played further. The clock is reduced to the
two questions the code asks: is `last_update_time` later than `last_save_time`
(`dirty`), and is `last_save_time` set (`stamped`). `forgotten` is a history
variable: hashes known to an earlier run and lost in its crash.

**MvProtocol** has the packets of `snis_multiverse.h`. Cargo and passenger
updates always travel together and are read the same way at both ends, so one
`update_goods` stands for the pair.

**Multiverse** composes the table with both ends of each connection. On the
server's side: `Board` (`add_new_player`), `Leave` (`put_client`,
`delete_bridge`), `Play`, `RequestVerification` and `ReportBridge`
(`update_multiverse`), `ServerVerdict` (`process_multiverse_verification`),
`ServerUpdate` (`process_update_bridge` and its companions), `ServerConfused` and
`ServerMisled` (what `multiverse_reader` does with bytes it takes for opcodes),
`ServerNotices`, `Dial`, `Connect` (`connect_to_multiverse`, with the moment
between setting `sock` and initialising the queue). On the multiverse's side:
`MvVerify`, `SendOwed` (`verify_existence`, which gives `data_mutex` back before
it looks the ship up again), `MvUpdateBridge`, `MvUpdateGoods`, `MvCheckpoint`.
When the packet boundaries of a connection are lost (`garbled`: the early return of
`update_bridge_cargo` and `update_bridge_passengers`), what was left unread is taken for
opcodes: `MvMisreads` takes off as many of the following packets as it likes, may fill
entries of `ship[]`, and may or may not come upon a boundary again; `MvHangUp` is a
byte that is no opcode. Nothing says that it ever comes to one.
`OldRead`, `OldMisreads` and `OldEnds` are the threads of a connection the
server has given up: what is in that socket is still read, after newer packets if
it so happens. Faults are `Break`, `ServerCrash` and `MvCrash`.

**ShipStore** is the same table as the code has it: an array searched from the
front, time stamps in whole seconds, and two files per ship, with one action per
system call (`Open` truncates, `WriteSome`, `Close`, `Rename`, ...)
and a crash possible between any two. `OpenFails` and `RenameFails` are the failures
`save_bridge_info` sees; `CloseShort` is any failure of `fprintf`, `fsync` or `fclose`,
which it does not: the save goes on, and what there is of the file, nothing or a part,
is renamed (`short`). A restart appends an entry per file, so a
ship with both files has two entries, of which the search finds the first. Its order
is left open except for what matters: the files of a ship lie in one directory, and
`alphasort` puts `.data` before `.update` (`DataFirst`); which ship comes first depends
on hashes of names. The
refinement mapping (`Table`) shows the array as a function of the first match,
and, while a save is in progress, the `.update` file as the save found it.

**StarsystemSlots** has the listener, the reader and writer thread of each
connection, the entries with their reference counts, and the table of open
descriptors. A step on `refcount` is atomic under `service_mutex`; reading,
closing and resetting `ss->socket` are separate steps with no mutex, as in
`process_instructions_from_snis_server` and `write_queued_updates_to_snis_server`.
A thread may register arbitrarily late, and closes whatever descriptor the entry
holds by then.

**Clients** is the server's counterpart: `client[]` (`refcount`, `socket`, `bridge`,
`shipid`, `nclients`), `bridgelist[]` (a sequence, so that `RemoveAt` is the loop of
`delete_bridge` that moves entries down), the listener and two threads per
connection. `Found`, `Join` and `Refuse` are the outcomes of `add_new_player` within
`service_connection`; `SeeThread` and `Release` the rest of that function;
`Register` and `Exit` the threads' `get_client` and `put_client`; `Disconnect` every
place that sets `socket` to -1. All of these tables are changed under the client
lock only, and each critical section is one action. Numbers count from 1 where the
code counts from 0. Two history variables name the two ways in which the tables
lose their meaning: `moved`, a bridge was deleted that was not the last, and
`reaped`, an entry was freed while one of its threads had not registered. In
`Multiverse` the same events are `Board` and `Leave`, which see only a crew as a
whole.

**Crews** is what lies between the two: the ships aboard a server and the members of
each crew. A ship comes aboard with its first member (`Board`) and goes with its last
(`LeaveCrew`), others join in between, and nobody's crew changes by what another does.
`Clients` implements it (`ImplementsCrews`), a client being in the crew of the bridge
its index names, until `moved` or `reaped`; after that `Crews` is `astray` and promises
nothing. `Board` and the leaving of the last are the steps that `Multiverse` has of the
same names.

**Directory** is what servers may believe about the lobby: who is listed, and that
nobody who goes on renewing is forgotten. **Lobby** is `ssgl_server` with its array
of bounded size, its ages and its sweep once a minute, and the threads that register
servers; it implements `Directory`. The unit of time is ten seconds. `LobbyAssumption`
says that a registration is never later than the slack the code leaves.

**MvLink** composes `Directory` with the tracker's thread (`Poll`, `CallbackMaps`,
`CallbackLooks`, `CallbackDisconnects`, `CallbackConnects`, `Answered`, `Unanswered`:
`servers_changed_cb` with `update_starmap`,
`disconnect_from_multiverse` and `connect_to_multiverse`), the writer and reader
threads of each connection (`WriterWaits` ... `WriterChecks`, `ReaderHandles`,
`ReaderFails`, `ReaderGivesUp`), and the game, which queues (`QueuePacket`, or
`QueueWaitedFor` if `queue_mutex` was taken) and wakes (`GameWakes`), with
`universe_mutex` held when it comes from `move_objects` and without when it sends the
count of bridges (`univ`). The handshake waits for an answer without a time-out and with
`queue_mutex` held; a multiverse whose listener has gone `deaf` (`ListenerReturns` below)
takes the connection in its backlog and never answers. A step is what a thread does between two points at which it may have to
wait or is seen by another. Mutexes have owners; `connect_to_multiverse` initialises
both mutexes and the condition variable again, and so drops whoever owned or waited
on them: `stranded` threads never come back (the game perhaps with `universe_mutex`),
`torn` records that the owner of `event_mutex` was one.
A descriptor that is closed under a thread that reads from it does not wake that
thread, one that is shut down does.

**Wrangler** is `wrangle_snis_server_processes`, one star system at a time against
copies made at the start of the pass, `maybe_startup` and `maybe_shutdown` with their
countdowns, `update_bridge_count`, the lock directories, and the `snis_server`
processes as far as they matter: they start late or not at all, have crews, and send
counts that arrive up to `Lag` passes later. `wrong` records an order sent through a
descriptor that had been closed and given out again.

**Docking** has the ports of one starbase: `docked_guy`, `expected_docker` with its
clock reduced to whether it runs, the magnets, and of each ship of the server its
`AI_MODE_DOCK_AT_STARBASE` entry and whether that is on top of its AI stack. Where
ships are is left open: any distance test may come out either way. Everything runs
under `universe_mutex`; the interleaving is that of moves of objects, packets of
players and calls of scripts.

**ImageLoader** is the ring of `workqueue.c` with its condition variable, the table of
textures, and GL's habit of giving a deleted name out again. Four places meet: the
drawing thread asks (`LoadKnown`, `LoadNew`, `LoadReplacing`), expires and uploads;
decoders wait, take, decode or fail.

**LuaCallbacks** has four lists: scheduled events, timers, proximity checks and queued
scripts, and the game's thread, which goes through them in the order of
`move_objects` and `process_lua_commands`. While a script is running (`calling`) it may
raise, register, queue and clear. An event has up to three callbacks, all entered in the
history of the model, of which `schedule_callback8` schedules the first (`Raise`); the
others are `skipped`. Other threads raise events at any moment; one of
them, the menu, reads and writes the head of the list in two steps. A use of freed
memory ends in the stage `undefined`. What the code loses by its own design or by a
race is recorded in `skipped`, `late`, `raced` and `cut`, and the properties say that nothing is
lost otherwise.

**TalkingStick** has the table, the server's record per client, what each client
believes, and the packets between them in both directions.

**Fleets** has the table of `fleet.c` and, of each ship, the fleet its AI stack names.
A ship with an empty stack founds a fleet (`Found`), joins one after the other all
fleets of its faction (`Enlist`) or does something else; its stack may be cleared by a
script or an order while its id stays in a fleet (`Cleared`). Which leaders are of a
ship's faction is left open. `lead` is the first id of a fleet, which the last ship to
leave does not take with it.

**MCParts** puts those parts that share no state side by side in one instance; a
behaviour is one of any of them.

## The runs

| run | instance | shows |
|---|---|---|
| `multiverse` | 1 ship, 2 systems, 1 table entry, 2 boardings, 2 faults, queues of 2 | `MultiverseTypeOK`, `VerifiedMeansRecorded`, `UpdatesNameRecordedShips`, `TableFits`, `DesyncOnlyAfterLoss` |
| `multiverse_answers` | 2 ships, 1 system, 1 table entry, 2 boardings, 1 fault | `Answered` under `FairSpec` |
| `multiverse_create_twice` | as `multiverse`, 1 fault | `NoSecondCreate` is violated |
| `multiverse_fresh_ship` | 1 ship, 1 system, no faults | `StateCarriedOver` is violated |
| `shipstore` | 2 ships, 2 entries, 2 seconds, 1 crash | `StoreTypeOK`, `CleanIsSaved`, `ImplementsTable`, `SavesMoveOn`, `EveryEntryGetsItsTurn` under `FairSpec` |
| `slots_listener` | 3 connections, 2 entries, 3 descriptors | `ListenerReturns` is violated under `FairSpec` |
| `clients` | 3 connections, 3 entries, 2 ships, 2 threads each | `ClientsTypeOK`, `RefcountIsUsers`, `CrewsAreRight`, `AbortsOnlyAfterEarlyReaping`, `ImplementsCrews` |
| `clients_index` | as `clients` | `IndexNamesBridge` is violated |
| `link` | 2 addresses, 2 connections, queue of 1, 2 starts, 1 break, 2 of these in all | `LinkHasWriter`, `DeadlockIsWedged`, `CallbackReturns`, `GameGoesOn`, `PacketsAreWritten` under `FairSpec` |
| `link_return` | as `link`, no breaks | `LinkComesBack` is violated under `FairSpec` |
| `lua_checks` | 3 entries, 2 ticks | `ChecksWait` is violated |
| `parts` | see below | `PartsTypeOK` and, part by part: |
| ... connections | as `slots_listener` | `RefcountIsThreads`, `NoDescriptorLeak` |
| ... wrangling | 1 system, 2 entries, 2 descriptors, countdown 3, lag 1 | `CrewIsSafe` |
| ... lobby | 2 servers for 1 entry, time-out 20 s, period 10 s, sweep 60 s | `DeadAreForgotten`, `ImplementsDirectory` |
| ... docking | 1 player, 2 ships of the server, 3 ports | `NpcsKeepApart`, `ResidentsExist`, `NpcsHaveOneBerth`, `NobodyIsPushedOut` |
| ... images | 2 files, 2 names, 2 decoders, ring of 2, 2 entries, up to the first request given up | `NoWorkIsForgotten`, `PendingIsComing` |
| ... scripts | as `lua_checks` | `EventsAreCalled`, `TimersFireInTime`, `CommandsAreRun` |
| ... sticks | 2 clients, 1 stick, 2 packets each way | `EveryStickHasOneOwner`, `SticksComeBack` |
| ... fleets | 3 ships, 2 fleets of 2 | `FleetsAreOfTheLiving`, `FollowersAreMembers` |

The bounds, and why they are enough:

* `MaxBoards = 2` lets a crew leave and another board the same ship at the same
  server (stale verdicts) or at another (two crews of one ship). One fault is
  enough for each disagreement: a connection that is replaced, a server that
  comes back empty, a multiverse that comes back with less than it knew; two let
  one befall the recovery from another.
  `MaxFaults` and `MaxBoards` only bound how often the environment acts.
* `MaxQueue = 2` holds a report and its goods, or two requests; a packet can
  overtake nothing within a queue, so longer queues only repeat.
* `MaxShips = 1` with two ships makes the table full; with two files of one ship
  it makes a restart fail. In `shipstore` two entries are a ship found twice, or two
  ships, and three files a restart that fails. A ship found twice
  beside another is left to the proofs, which hold for any number of entries.
* `MaxState = 1` tells a played ship from a fresh one, all that `StateCarriedOver`
  asks. In `multiverse` it is 0, since none of its invariants depends on it.
* `MaxTime = 2` has an update in the same second as a save, one in the next, and
  time 0 for "never".
* Three connections on two entries use an entry again; three descriptors on three
  connections with the kernel's rule of the lowest free number use a number again.
* In `clients`, three clients are a crew of two and one of one: a bridge can be
  deleted before and after another, a hole can lie before entries in use, and an
  entry freed too early can be used again.

* In `link`, two starts at two addresses are a multiverse that moves or that comes
  back where it was; a break in place of the second start is one the multiverse is not
  to blame for. `MaxTroubles` bounds starts and breaks together; after that many the
  multiverse lives on, so that what the properties ask is asked of the last connection.
  Two connections at a time are enough for the remains of an old one to meet a new
  one; where a third would be needed (`NoRoom`) the liveness properties ask nothing.
* The countdown of 3 passes against a lag of 1 keeps the relation of the code's 10
  to the few seconds a count is old; one system is enough,
  since what is decided of one depends on the others only by way of `wanted`, which
  is left open. `WranglerAssumption` asks for a countdown of more than twice the lag,
  and for a lag and a number of systems of at least one: with a count that arrives in
  the pass it is sent in and a countdown of 1, `CrewIsSafe` says that nobody boards
  between the last look and the order, which nothing in the code prevents.
* Two servers for one entry of the lobby: one may be turned away, listed later, or
  replaced. The periods are those of the code, in units of ten seconds.
* One player and two ships of the server for three ports: ports 1 and 2 are all they
  may choose from, and the rule that one is left to players bites.
* A ring of depth 2 holds one request and is full with it; two names are given out
  again after two loads.
* Three entries of lists: one to be removed, one before it, one registered meanwhile.
* Three ships for two fleets of two: one may find a fleet full, and move through both.

In `parts`, `MCParts` names what is interchangeable in the order in which it comes, which
loses no behaviour but for the names: connections are numbered as they are accepted; of
two threads of a connection, two workers or two ships in the same state the first
moves first; the first file to be loaded is `file1`. `DescriptorsInOrder` is the kernel's rule of
the lowest free number. Image loading goes no further than the first request given up,
after which `PendingIsComing` would ask nothing of that name.

Systems (`multiverse`), connections (`clients`), and ships and threads
(`clients`) are interchangeable and are declared symmetric in runs without liveness. Deadlock is not checked: every
bounded instance ends when its crews, faults, time or connections are used up,
a server stops when an assertion fails, a script may run into undefined behaviour,
threads on a mutex that was initialised under them stay there, and a multiverse whose database does not fit its table stays down, as the
program does.

## Fairness

* `Multiverse!FairSpec`: weak fairness of the reader thread of a connection in the
  multiverse (not of what it makes of bytes behind a lost packet boundary), of `multiverse_reader` in a server, and of `Connect`. Each is a
  loop in a thread of its own that blocks only on its socket. Nothing is assumed
  about crews, timers, dialling, faults, or repair.
* `ShipStore!FairSpec`: weak fairness of `Checkpoint`. The main thread calls
  `checkpoint_data` every thirty seconds, and its loop is finite. Nothing is
  assumed about system calls succeeding.
* `StarsystemSlots!FairSpec`: weak fairness of the listener and of each thread's
  steps other than `Fail`: a connection need not ever fail.
* `MvLink!FairSpec`: weak fairness of a live multiverse's registration, of the lobby's
  sweep, and of each reader's finding its connection broken, if the messages that came
  before do not keep it waiting for `universe_mutex`; strong fairness of the game while
  it queues, of the steps of `servers_changed_cb` and of each writer. All are loops in
  threads of their own.
  Strong, because they wait for a mutex that others take and give back again and
  again, and the C library's mutexes let each waiter in at some time; nothing is
  assumed about who is first. `WF` would let one of them starve at a mutex that is
  free again and again. That a writer's `snis_writesocket`, made with `event_mutex` held,
  returns is an assumption about the other end: it reads, or the connection breaks.
  Nothing is assumed about deaths, starts, breaks and answers to the handshake, nor that
  the game ever queues a packet.

## Findings

* `NoSecondCreate`: the documentation says the multiverse ensures "that players
  don't create a new ship with the same name and password as an existing ship".
  A ship is entered in memory only, and saved no sooner than the checkpoint after
  its first update. If the multiverse dies before, a second crew creates the ship
  again in another system. The theorem `SecondCreateOnlyAfterLoss` says that this is
  the only way.
* `StateCarriedOver`: a bridge is taken for verified when the verdict is read, and
  the ship's state follows in later packets. A report sent in between replaces
  the stored state with the freshly spawned ship.
* `ListenerReturns`: `service_connection` waits until it sees one of the threads
  registered. When both have come and gone between two looks it waits for ever,
  and the multiverse accepts no further connection. That this is the only way, and for
  good, are the theorems `DeafnessOnly` and `DeafnessIsForGood`.
* `IndexNamesBridge`: a client keeps an "index into bridgelist[] for the bridge this
  client is on". When the crew of an earlier bridge leaves, `delete_bridge` moves the
  bridges behind it down and no index follows: two crews then share a bridge, or a
  client's orders go to an entry behind the last.

* `LinkComesBack`: the port is reset "so that when snis_multiverse gets restarted, even
  if it happens to get the same IP and port it previously had, we will recognize it as
  having come back from the dead". But the port is compared in the callback only, and
  the callback is called only when a list of servers has changed. A multiverse that
  registers again at its address before the lobby has forgotten it changes no list.
* `ChecksWait`: `fire_lua_proximity_checks` never sets `last`, so taking a check off the
  list takes all off that stand before it. Their callbacks are never called.

Two more things `Clients` shows, which its properties take as given. The listener
waits "for at least one of the threads to prevent premature reaping": when that one
comes and goes, and the listener lets go, before the other has registered, the
entry is freed and the other thread works on a freed entry, which may by then be
another client's. When it leaves, `assert(client_index < nclients)` can fail and the
server stops; `AbortsOnlyAfterEarlyReaping` says that nothing else makes it fail. And
`service_connection` of the server can wait for ever as that of the multiverse can
(`Deaf`: `SeeThread` is never enabled again), and serves no other client from then on;
`DeafnessOnly` and `DeafnessIsForGood` of `ClientsProofs` say when, and that it is for good.

Further things the models contain because the code does them, without a sentence
in the repository to hold against them: a verification request that meets a
connection in the making is lost and never repeated; a late packet of a given-up
connection rolls a ship back; a `.update` file left by an interrupted save takes
a table entry at each restart; the unread name behind a "wrong solar system"
verdict may be taken for the order to shut down (`ServerMisled`); a request that lies
behind a lost packet boundary may be swallowed, the connection stay open and the crew
unverified (`MvMisreads`, and the exception of `Answered`). And `save_bridge_info` looks
at no result of `fprintf`, `fsync` and `fclose`: on a full disk an empty or torn
`.update` file is renamed over the last whole save, and the entry counts as saved
(`CloseShort`, `SaveShort`; the exceptions of `SavesMoveOn` and `CleanIsSaved`).

The same of the modules of this list:

* `MvLink`: the writer takes `event_mutex`, then `queue_mutex`; the callback holds
  `queue_mutex` when it takes `event_mutex`. If they meet, both wait for ever, and
  with them the game, which holds `universe_mutex` (`Wedged`). There is no other such circle
  (`OneDeadlock`) and no way out of this one (`NoWayOut`). A connection that is
  made while a thread waits on `event_mutex` or `queue_mutex` initialises it under that
  thread (`stranded`, `torn`). A game left behind so keeps `universe_mutex`, and the next
  `servers_changed_cb` waits for that in `update_starmap` (`UniverseLost`). And
  `connect_to_multiverse` reads the answer to its handshake without a time-out, with
  `queue_mutex` held: at a multiverse that listens and does not answer it stays
  (`DeafEar`), a writer of the old connection waits for `queue_mutex` with `event_mutex`
  held, and the game for either with `universe_mutex`.
* `Wrangler`: the order to shut down may go through a descriptor that has been closed
  and given to another server (`wrong`). An entry of a former connection that bears
  the same name hides the one in use. A server that is killed leaves its lock
  directory, and its system is not started again while an entry bears its name.
* `Docking`: `starbase_grant_docker_permission` gives away a port whose clock is 0
  though the ship it was granted to is docked there, and a docked ship keeps
  `expected_docker` after its clock has run out.
* `ImageLoader`: the result of `work_queue_enqueue` is ignored, and the texture stays
  pending for ever when the ring was full. An entry that is used again keeps, until
  its upload, a name GL may have given to another texture. A file that is asked for
  again before its first upload gets a second entry. Nothing checks that
  `loaded_textures` has room.
* `LuaCallbacks`: the loop of `schedule_callback8` ends after the first callback
  (`snis_event_callback.c:87`), so that the second and third that a script registers for
  an event are never called, though the comment at 70-72 says it "adds all the callbacks
  for that event" (`skipped`). An event that is raised while events are being called is freed
  uncalled, its script's own included. A script that clears everything frees the list
  it is being called from. `enqueue_lua_command` never moves the tail of its queue
  (doc/lua-api.txt:531 "Queue the named lua script for execution"): a third script
  cuts off the second, and one queued after the first has been taken off is linked to
  freed memory.
* `fleet_new` enters a ship that is in another fleet already (its AI stack was cleared
  meanwhile) a second time; on its death `fleet_leave` takes it out of the first only,
  though `snis_server.c:2435` says "leave any fleets ship might be a member of". The
  other fleet, if it leads it, is led by a dead id from then on.
* `fleet_count` is the number of fleets there have ever been and never falls. Once it
  has reached `MAXFLEETS` no ship calls `fleet_new` any more (`snis_server.c:4160`),
  and fleets that have died out stay empty unless a ship of the last leader's faction
  joins while that leader, who has left, still lives.

## The proofs

**MultiverseProofs**, for any set of systems, any finite set of ships, and all
bounds. The inductive invariant is

    IInv == MultiverseTypeOK /\ FilesAreKept
            /\ VerifiedMeansRecorded /\ UpdatesNameRecordedShips

`FilesAreKept` relates memory, disk and history: while the multiverse is up it knows
every ship of which a file was left; while it is down it knows none, and every ship of
which a file was left is among the `forgotten`. A restart replaces what is known by
what the files name, so nothing is lost but what no file names: `Lost`. `Recorded`, the
ships a server may take for verified or report, is what the multiverse knows or has
`Lost`, while it is up, and what it had known, while it is down. The two named
invariants need each other: reports come from verified bridges, and bridges are
verified by verdicts in flight. That they survive a step rests on `Recorded` growing
only: a crash moves `known` into `forgotten`, a restart moves back what the files name
and leaves the rest in `Lost`, a creation adds. From `IInv` follow

* `TypeCorrect`, `VerifiedCrewsAreRecorded`, `ReportsAreRecorded`, `TableNeverOverflows`;
* `DesyncNeedsLoss`: a goods packet for an unknown ship names a recorded one, hence one
  of the `Lost`;
* `NoSavedShipIsForgotten`: a ship of which anything was written is known whenever the
  multiverse is up;
* `SecondCreateOnlyAfterLoss`: a ship that a crew flies, or has been granted, is created
  again only if it is among the `Lost`. The creator finds it unknown, and whoever flies
  it or was granted it makes it recorded. This is what holds of `NoSecondCreate`, which
  the code breaks;
* `ImplementsShipTable` (`Spec => TableSpec`): each step, those of late connections
  included, is one step of the table or none.

The assumptions are those of `ShipTable` and `Multiverse`: `NoSystem` and
`Nobody` are distinguishable from systems and ships, bounds are natural numbers,
and there are finitely many hashes.

**ClientsProofs**, for any finite set of connections, any ships, and any number of
entries and of threads per connection. The inductive invariant adds to the four
invariants of the run `clients` one more, `NoneWaitsOnFree`: until an entry is
freed too early, a thread that has yet to register has an entry in use, and nothing
in use lies beyond `nclients`. So an entry that `service_connection` finds free has
no user, and a thread that registers adds to an entry that is in use. The last
thread to leave finds its bridge counting exactly its crew; if the count falls to
zero nobody else names the bridge, and `delete_bridge` does not decline
(`LeaveSafe`). `moved` and `reaped` are set by the very steps after which this is
no longer so. From it follow `ClientsTypeCorrect`, `CountsUntilReaped`,
`CrewsUntilMoved` and `AbortsNeedEarlyReaping`.

`DeafnessOnly` and `DeafnessIsForGood` read the counts the other way: a listener that
waits and sees one reference, its own, waits for threads that have yet to come, or for
none, and then nobody's step changes that count.

`ClientsImplementCrews` (`Spec => ImplementsCrews`) is shown step by step. As long as
the server is not astray, the ship a client flies can be read off its own entry instead
of the list of bridges (`CrewsByShip`), so that only the entry that changes matters:

| step of `Clients` | step of `Crews` |
|---|---|
| `Found`, `Join` | `Board`, `JoinCrew` |
| the last `Exit` or `Release` of a client | `LeaveCrew`; the bridge goes with the last of its crew, and only then |
| the same, if the bridge was not the last or a thread is yet to come | `GoAstray` |
| `Refuse`, `SeeThread`, `Register`, `Disconnect`, and other `Exit`s | none |

**ShipStoreProofs**, for any finite set of ships, any number of entries, seconds and
crashes, needs files and array. `StoreInvariant` says, besides the types: the clock is
past 0, which stands for "never" (`ClockHasStarted`); time stamps are of the past and no
entry was saved after its last update (`TimesArePast`, `FilesArePast`), so that "not
later" means "equal"; of two entries with one hash only the first is ever updated
(`LaterEntriesRest`), hence only the one that `lookup_ship_by_hash` finds is ever saved;
a save in progress is one of a dirty entry, and the `.update` file holds a part of it,
all of it when it is closed unless it is `short` (`SavesADirtyEntry`, `WritesThisEntry`); `last_save_time` is the time in the file a
restart would believe (`StampsAreStored`); a dead process has no table (`DeadIsEmpty`).
From it follow `StoreTypes`, `CleanEntriesAreSaved`, `SavesOnlyMoveOn` (see below) and
`StoreImplementsTable`, the whole refinement `Spec => ImplementsTable`, step by step:

| step of `ShipStore` | step of `ShipTable` |
|---|---|
| `CreateShip`, `UpdateBridge` | `Create`, `Apply` |
| `Begin`, `Skip`, `End`, `Tick` | none |
| `Open`, `WriteSome`, `Close`, `CloseShort` | none: an `.update` file that is being written shows as the save found it |
| `Rename` | `Save`, or `SaveShort` if the file is `short` |
| `OpenFails`, `RenameFails` | `SaveFails` |
| `Crash` | `Crash` |
| `Restart` | `Restart`; that a ship's `.data` is read before its `.update` is what makes the search find the last complete save |

`SavesOnlyMoveOn` says that the `.data` file of a ship is never removed, and changes only
to what there is of a save of a later update: whole unless a write failed, and then with
its later time or empty. `StampsAreStored` is not enough for it, since it excepts saves that failed.
`SavedIsKnown` adds that the ship of a `.data` file is known while the multiverse runs,
and that the entry the search finds has a `last_save_time` no earlier than the file: a
restart reads that entry from this very file, if there is one, and a save that fails
moves the stamp on, never back. The entry being saved is dirty, and so later than the
file it replaces.

`Restart` needs that a sequence of all files has as many entries as there are files, and
that the least index of a hash is its `.data` file, if there is one.

**MvLinkProofs**, for any addresses, connections and bounds. `LinkKeepsItsWriter` needs
two facts besides the types: the order to exit (`wexit`) stands only while there is no
connection or the callback is giving it up (`ExitIsForTheOld`), so that a new writer
never finds an order its predecessor has missed; and a connection is made only after the old one is closed
(`ClosedBeforeOpened`). `MutexesAreGivenBack` is a second result: who owns `queue_mutex`
or `event_mutex` is where its program gives it back (`CallbackHoldsQueue`,
`WriterHoldsEvent`; the latter's converse as long as no owner was dropped by an
initialisation).

`OneDeadlock` is about who may wait for whom (`WaitsFor`): a set of threads is deadlocked
if each of them waits for one in the set. Whoever is waited for owns a mutex, and of the
places where an owner is, he waits in one only: the callback before it wakes the writers,
a writer before it takes the packets. The game owns `universe_mutex`, for which nobody
waits but a callback that owns nothing yet, so no circle goes through it (`OwnersWait`).
Four steps along any deadlock therefore meet both. `NoWayOut` says that no step of anyone undoes it; it excepts `torn`,
since a second writer, let in by an initialisation, may yet give back a mutex that is
not his.

**StarsystemProofs** has the multiverse server's connections, its wrangler and the lobby.

*Connections*, for any finite set of connections and entries. The
inductive invariant is `SlotsTypeOK /\ PlacedThreads /\ RefcountIsThreads`.
`PlacedThreads` says where threads are relative to the listener: the two threads of a
connection are born together, the connection in the listener's hands has none before
`Claim`, and every thread that has been born has an entry. The count is
then the cardinality of the set of registered threads, plus one for the listener;
each `Register` or `Unregister` adds or removes one element. `SlotsTypeCorrect`
has `refcount` in `Nat`, which is the assertion in `put_starsystem`.

`NothingLeaks` needs more than the counts: `DInv` adds
`OpenIsKept` (each open descriptor is in an entry that still has a thread to come or
registered, or in the listener's hands), `LeavingIsClosed` (a thread leaves only after
its entry's socket is reset) and `ReleasedIsInUse` (when the listener lets an entry go,
it is closed or has a thread). So the last to leave leaves nothing open.

`DeafnessOnly` and `DeafnessIsForGood` are about the listener that waits for ever. While
it waits the count is one for itself and one for each registered thread of the entry, so
a count below two means that none is registered; with `UnbornHaveNone` (threads get their
entry when they are created) each is then yet to register or done. If all are done
(`Deaf`), nothing but the listener's own look can move the listener, and nothing can
change what it looks at: other connections' threads have other entries, and an entry is
given out by the listener only.

*The wrangler*, for any systems, entries, descriptors, and countdowns that are longer
than twice the lag of the counts (`WranglerAssumption`). `CrewsAreSafe` rests on
`WranglerInvariant`: an entry in use has the descriptor of the server it names
(`LiveIsConnected`), no two entries have the same (`OneConnectionEach`), and
`CrewIsReported`. This one is the heart: while a server has a crew, either a count of
none is under way that was sent before they came, and they have been there no longer
than the entry has been quiet; or a count of them is under way or has come, and then
they have been there for at most `Lag` passes more, or the countdown has not fallen
further than the wrangler has looked at the entry since a count came through (`Fresh`).
A countdown that reaches zero has then been looked at too often for the crew to be older
than `2 * Lag`.

*The lobby*, for any finite set of servers and all periods with the slack of
`LobbyAssumption`. `LobbyInv` relates three clocks: an entry that is renewed is as old
as its thread has slept, and none is older than the time-out by more than the time
since the last sweep. From it follow `Forgotten` and `Refinement`
(`LobbySpec => ImplementsDirectory`).

**GameProofs** has docking, fleets and the talking sticks.

*Docking*, for any players, ships of the server and ports. `DockingInv` is the
conjunction of the three state properties, which need each other, the type invariant
and two more: a ship that has docking in mind is alive (`ComersLive`), and has its
magnets off until it docks (`ComersAreOff`), so that one that docks is at no port yet.
`NoPushingOut` is proved of each step.

*Fleets*, for any ships, fleets and room per fleet. `FleetsInv` says that no fleet has an
id twice (`NoneTwice`, what `fleet_leave` relies on when it removes the first it
finds), that a fleet not founded yet is empty (`UnfoundedAreEmpty`), that a ship which
never founded a second fleet is in one at most (`OnceInOne`), that the dead are in none
and follow none (`GoneFromFleets`), and `FollowersAreMembers`. What `fleet_leave`,
`fleet_new` and `fleet_join` do to the table are lemmas of their own (`LeaveShip`,
`NewShip`, `JoinShip`). A ship that looks for a fleet goes through all of them, joining
each that takes it and leaving the one before; that this keeps the table in order after
each of them (`JoinAllOK`) is shown by the least number at which it would not.

*Talking sticks*, for any clients and sticks and any number of packets on their
way. `OneOwner` is inductive with the types. `ComesBack` follows from `ReleaseIsLast`:
as long as a client's key is up, a release is the last of its packets or there is
none and it has no stick.

**QueueProofs** has the image loader and the callbacks of scripts.

*Images*, for any files, names, decoders and depths. `NoLostWakeup`: a
worker goes to sleep only when it sees the ring empty, and whoever fills it owes a
signal (`signalling`). `PendingComes` needs that a name whose request is in flight or
was given up stays accounted for when GL gives the name out again, by lemmas about
which elements `Append` and `Tail` add and take.

*Scripts*, for any numbers of events, timers and queued scripts and any times.
`LuaInvariant` adds to `EventsAreCalled`, `TimersFireInTime` and `CommandsAreRun` where
things are in each stage of the loop: outside the loop over events, whatever is pending
is scheduled, not in a batch that was freed (`EventsOfTheLoop`); likewise for timers
(`TimersOfTheLoop`); and the timers' list is in the order of their times (`InOrder`), on
which the code relies when it takes those due off the front. `InsertedInOrder`,
`TimersTaken` and `ChainedOK` state what `register_lua_timer_callback`,
`fire_lua_timers` and `enqueue_lua_command` make of their lists.

What stays with TLC: liveness (`Answered`, `EveryEntryGetsItsTurn`, `CallbackReturns`,
`GameGoesOn`, `PacketsAreWritten`), since TLAPS has no rule for liveness under fairness;
and `PartsTypeOK` as it stands, of the instance that puts the parts side by side. Each of
its conjuncts is a theorem about its part (`SlotsTypeCorrect`, `WranglerTypes`,
`LobbyTypes`, `DockingTypes`, `LoaderTypes`, `LuaTypes`, `StickTypes`, `FleetsTypes`).
All other properties of the passing runs are theorems. These are
theorems which no run lists: `SavedShipsAreKept`, `SecondCreateNeedsLoss`, `OnlyDeafWaits`, `DeafForGood`,
`WedgedForGood`, the lock ownership of `MutexesAreGivenBack`, and `MvLinkTypeOK` as well
as the types of the parts.

## Not modelled

Rendering, sound, input devices and the client's user interface (I/O), which make up
most of the source; the simulation (floating point; only that a ship "gets further");
the contents of configuration files; the Lua interpreter and programs; the language
parser of the ship's computer; voice chat, web gateway and client forker (I/O). The
object table, transport contracts, path finding, the power model and the
encoding of numbers are sequential code, which tests reach as well. Power failures
(which would lose what the kernel has buffered) are left out: a crash is the death of a
process; `sync_file`, which calls `fsync` before stdio's buffer is flushed, makes no
difference to that, and would to a power failure. `universe_mutex` is modelled by what is
atomic under it, and in `MvLink` as what the game may hold while it waits.

Left out of the parts that are modelled: a `.data` or `.update` file cut inside its two
header lines (a disk gives out blocks, and these lie in the first one); a hash read
behind a lost packet boundary that is read again; in `MvLink` a multiverse that answers
with another version, `process_multiverse_verification` reading the rest of a packet with
`universe_mutex` held, and the messages to the demon console, which take the client lock.

## Plan

What could be added:

1. `universe_mutex` and the client lock as programs of lock steps per thread, with
   `lookup_bridge`, which gives `universe_mutex` back before its caller does, and the
   scripts that clients' threads run (`npc_lua_comms_menu`).
2. `ObjectPool`: object ids and table entries, and who holds them beyond `go[]`.
