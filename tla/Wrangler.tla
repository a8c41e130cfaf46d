------------------------------ MODULE Wrangler -------------------------------
(* How snis_multiverse starts and stops snis_server processes (--autowrangle):*)
(* a pass every six seconds over the solar systems, against what is known of  *)
(* them from connections that come and go and from counts of bridges that are *)
(* some seconds old.                                                          *)
EXTENDS Integers, Sequences, FiniteSets

CONSTANTS
    NSystems,       \* nstarmap_entries
    Exempt,         \* --exempt
    NEntries,       \* MAX_STARSYSTEMS
    Fds,
    Nothing,        \* no name, no descriptor
    Countdown,      \* 10
    Lag             \* passes within which a count that was sent arrives

Systems == 1 .. NSystems
Entries == 1 .. NEntries

ASSUME WranglerAssumption ==
    /\ {NEntries, Countdown} \subseteq Nat /\ {NSystems, Lag} \subseteq Nat \ {0}
    /\ Countdown > 2 * Lag
    /\ Exempt \subseteq Systems
    /\ Nothing \notin Systems \cup Fds

VARIABLES
    slot,       \* starsystem[], the wrangler's part of it
    peer,       \* the server at the other end of a descriptor
    quiet,      \* passes since a count came through a slot
    pass,       \* the system the wrangler is at, 0 between two passes
    wanted,     \* adj_starsystem of this pass
    starting,   \* a shell is starting the server
    lock,       \* the lock directory of the system exists
    running,    \* a server has made it and runs
    crew,       \* has bridges (nbridges > 0)
    report,     \* its last SNISMV_OPCODE_UPDATE_BRIDGE_COUNT, on its way
    doomed,     \* it has been sent SNISMV_OPCODE_SHUTDOWN_SNIS_SERVER
    aboard,     \* passes since the crew came (history)
    wrong       \* it was sent through a descriptor that had been closed (history)

wranglerVars == <<slot, peer, quiet, pass, wanted, starting, lock, running, crew,
                  report, doomed, aboard, wrong>>

WranglerTypeOK ==
    /\ slot \in [Entries -> [name : Systems \cup {Nothing}, fd : Fds \cup {Nothing},
                           use : {"free", "live", "closed", "reset"},
                           countdown : -1 .. Countdown]]
    /\ peer \in [Fds -> Systems \cup {Nothing}]
    /\ quiet \in [Entries -> 0 .. Lag]
    /\ pass \in 0 .. NSystems
    /\ wanted \subseteq Systems
    /\ {starting, lock, running, crew, doomed, wrong} \subseteq [Systems -> BOOLEAN]
    /\ report \in [Systems -> {-1, 0, 1}]
    /\ aboard \in [Systems -> 0 .. 2 * Lag + 1]

None == [s \in Systems |-> FALSE]

WranglerInit ==
    /\ slot = [i \in Entries |-> [name |-> Nothing, fd |-> Nothing, use |-> "free",
                                countdown |-> -1]]
    /\ peer = [d \in Fds |-> Nothing]
    /\ quiet = [i \in Entries |-> 0]
    /\ pass = 0
    /\ wanted = {}
    /\ starting = None /\ lock = None /\ running = None /\ crew = None
    /\ doomed = None /\ wrong = None
    /\ report = [s \in Systems |-> -1]
    /\ aboard = [s \in Systems |-> 0]

multiverseVars == <<slot, peer, quiet, pass, wanted>>
serverVars == <<starting, lock, running, crew, report, aboard>>

-----------------------------------------------------------------------------
(* Servers.                                                                   *)

(* create_lock_or_die                                                         *)
ServerStarts(s) ==
    /\ starting[s]
    /\ starting' = [starting EXCEPT ![s] = FALSE]
    /\ lock' = [lock EXCEPT ![s] = TRUE]
    /\ running' = [running EXCEPT ![s] = @ \/ ~lock[s]]
    /\ UNCHANGED <<multiverseVars, crew, report, doomed, aboard, wrong>>

(* It exits, with its lock, or is killed without the chance to remove it.     *)
ServerEnds(s, clean) ==
    /\ running[s]
    /\ running' = [running EXCEPT ![s] = FALSE]
    /\ lock' = [lock EXCEPT ![s] = ~clean]
    /\ crew' = [crew EXCEPT ![s] = FALSE]
    /\ report' = [report EXCEPT ![s] = -1]
    /\ aboard' = [aboard EXCEPT ![s] = 0]
    /\ doomed' = [doomed EXCEPT ![s] = FALSE]
    /\ wrong' = [wrong EXCEPT ![s] = FALSE]
    /\ UNCHANGED <<multiverseVars, starting>>

CrewComes(s) ==
    /\ running[s]
    /\ ~crew[s]
    /\ crew' = [crew EXCEPT ![s] = TRUE]
    /\ UNCHANGED <<multiverseVars, starting, lock, running, report, doomed, aboard, wrong>>

CrewLeaves(s) ==
    /\ crew[s]
    /\ crew' = [crew EXCEPT ![s] = FALSE]
    /\ aboard' = [aboard EXCEPT ![s] = 0]
    /\ UNCHANGED <<multiverseVars, starting, lock, running, report, doomed, wrong>>

Connected(s) == \E d \in Fds : peer[d] = s

(* update_multiverse_bridge_count                                             *)
SendsCount(s) ==
    /\ Connected(s)
    /\ report[s] = -1
    /\ report' = [report EXCEPT ![s] = IF crew[s] THEN 1 ELSE 0]
    /\ UNCHANGED <<multiverseVars, starting, lock, running, crew, doomed, aboard, wrong>>

-----------------------------------------------------------------------------
(* Connections of the multiverse server.                                      *)

FirstFree == CHOOSE i \in Entries : slot[i].use = "free" /\ \A j \in 1 .. i - 1 : slot[j].use # "free"

(* service_connection                                                         *)
Connects(s, d) ==
    /\ running[s]
    /\ ~Connected(s)
    /\ peer[d] = Nothing
    /\ \E i \in Entries : slot[i].use = "free"
    /\ slot' = [slot EXCEPT ![FirstFree] = [name |-> s, fd |-> d, use |-> "live",
                                            countdown |-> -1]]
    /\ quiet' = [quiet EXCEPT ![FirstFree] = 0]
    /\ peer' = [peer EXCEPT ![d] = s]
    /\ report' = [report EXCEPT ![s] = -1]
    /\ UNCHANGED <<pass, wanted, starting, lock, running, crew, doomed, aboard, wrong>>

(* badclient: close the socket ...                                            *)
Closes(i) ==
    /\ slot[i].use = "live"
    /\ slot' = [slot EXCEPT ![i].use = "closed"]
    /\ peer' = [peer EXCEPT ![slot[i].fd] = Nothing]
    /\ UNCHANGED <<quiet, pass, wanted, serverVars, doomed, wrong>>

(* ... and forget it: in between its number may be another connection's.      *)
Resets(i) ==
    /\ slot[i].use = "closed"
    /\ slot' = [slot EXCEPT ![i].use = "reset"]
    /\ UNCHANGED <<peer, quiet, pass, wanted, serverVars, doomed, wrong>>

(* The last thread of the connection is gone: the name stays.                 *)
Frees(i) ==
    /\ slot[i].use = "reset"
    /\ slot' = [slot EXCEPT ![i].use = "free"]
    /\ UNCHANGED <<peer, quiet, pass, wanted, serverVars, doomed, wrong>>

(* Mutant: the countdown goes on.                                             *)
CountdownGoesOn(i, n) == slot[i].countdown

(* update_bridge_count                                                        *)
CountdownAfter(i, n) == IF n > 0 THEN -1 ELSE slot[i].countdown

CountArrives(i) ==
    LET s == slot[i].name IN
    /\ slot[i].use = "live"
    /\ peer[slot[i].fd] = s
    /\ report[s] # -1
    /\ slot' = [slot EXCEPT ![i].countdown = CountdownAfter(i, report[s])]
    /\ quiet' = [quiet EXCEPT ![i] = 0]
    /\ report' = [report EXCEPT ![s] = -1]
    /\ UNCHANGED <<peer, pass, wanted, starting, lock, running, crew, doomed, aboard, wrong>>

-----------------------------------------------------------------------------
(* wrangle_snis_server_processes                                              *)

(* Six seconds have passed, in which counts have come.  Which systems are     *)
(* active, or next to one that is, depends on where ships were last saved:    *)
(* any may be.                                                                *)
BeginPass(S) ==
    /\ pass = 0
    /\ \A i \in Entries : slot[i].use = "live" => quiet[i] < Lag
    /\ quiet' = [i \in Entries |-> IF slot[i].use = "live" THEN quiet[i] + 1 ELSE 0]
    /\ aboard' = [s \in Systems |-> IF crew[s] /\ aboard[s] <= 2 * Lag THEN aboard[s] + 1 ELSE aboard[s]]
    /\ wanted' = S
    /\ pass' = 1
    /\ UNCHANGED <<slot, peer, starting, lock, running, crew, report, doomed, wrong>>

Known(s) == {i \in Entries : slot[i].name = s}
Entry(s) == CHOOSE i \in Known(s) : \A j \in Known(s) : i <= j
HasSocket(s) == Known(s) # {} /\ slot[Entry(s)].use \in {"live", "closed"}

Onward == pass' = (pass + 1) % (NSystems + 1)

(* maybe_startup_snis_server                                                  *)
MaybeStartup ==
    /\ pass \in wanted
    /\ starting' = [starting EXCEPT ![pass] =
                        @ \/ ~(HasSocket(pass) \/ (Known(pass) # {} /\ lock[pass]))]
    /\ Onward
    /\ UNCHANGED <<slot, peer, quiet, wanted, lock, running, crew, report, doomed, aboard, wrong>>

Stoppable == pass \notin Exempt /\ HasSocket(pass) /\ lock[pass]

NotStopped ==
    /\ pass \in Systems \ wanted
    /\ ~Stoppable
    /\ Onward
    /\ UNCHANGED <<slot, peer, quiet, wanted, serverVars, doomed, wrong>>

(* maybe_shutdown_snis_server: the countdown is set, counted and looked at in *)
(* one pass, and once it is over every pass tells the server to go.           *)
MaybeShutdown ==
    /\ pass \in Systems \ wanted
    /\ Stoppable
    /\ LET i == Entry(pass)
           start == IF slot[i].countdown = -1 THEN Countdown ELSE slot[i].countdown
           left == IF start > 0 THEN start - 1 ELSE start
           t == peer[slot[i].fd]
       IN /\ slot' = [slot EXCEPT ![i].countdown = left]
          /\ IF left = 0 /\ t # Nothing
             THEN /\ doomed' = [doomed EXCEPT ![t] = TRUE]
                  /\ wrong' = [wrong EXCEPT ![t] = @ \/ slot[i].use # "live"]
             ELSE UNCHANGED <<doomed, wrong>>
    /\ Onward
    /\ UNCHANGED <<peer, quiet, wanted, serverVars>>

WranglerNext ==
    \/ \E s \in Systems :
          \/ ServerStarts(s) \/ CrewComes(s) \/ CrewLeaves(s) \/ SendsCount(s)
          \/ \E clean \in BOOLEAN : ServerEnds(s, clean)
          \/ \E d \in Fds : Connects(s, d)
    \/ \E i \in Entries : Closes(i) \/ Resets(i) \/ Frees(i) \/ CountArrives(i)
    \/ \E S \in SUBSET Systems : BeginPass(S)
    \/ MaybeStartup \/ NotStopped \/ MaybeShutdown

WranglerSpec == WranglerInit /\ [][WranglerNext]_wranglerVars

-----------------------------------------------------------------------------
(* Properties.                                                                *)

(* A server whose crew came early enough to be reported is not told to shut   *)
(* down, wherever ships were last saved and however old the count the         *)
(* wrangler looks at; unless the order was for a connection that was being    *)
(* closed, and whose descriptor the server has been given.                    *)
CrewIsSafe ==
    [][\A s \in Systems :
          doomed'[s] /\ ~doomed[s] /\ ~wrong'[s] => aboard[s] <= 2 * Lag]_wranglerVars
==============================================================================
