-------------------------------- MODULE Lobby --------------------------------
(* The lobby (ssgl_server) and the threads that register servers with it      *)
(* (ssgl_register_gameserver.c), with their clocks.  The unit of time is ten  *)
(* seconds, which divides every period in the code.  Implements Directory.    *)
EXTENDS Integers, FiniteSets

CONSTANTS
    Servers,            \* game servers
    MaxGameServers,     \* MAX_GAME_SERVERS
    Timeout,            \* SSGL_GAME_SERVER_TIMEOUT_SECS
    Period,             \* sleep between two registrations
    MaxLate,            \* bound: how late a registration may come
    SweepEvery          \* sleep between two runs of expire_game_servers

(* Registrations come in time: what the ten seconds of slack in the period    *)
(* are for.                                                                   *)
ASSUME LobbyAssumption ==
    /\ {MaxGameServers, Timeout, Period, MaxLate, SweepEvery} \subseteq Nat
    /\ Period + MaxLate <= Timeout
    /\ IsFiniteSet(Servers)

VARIABLES
    listed,     \* game_server[0 .. ngame_servers-1]
    age,        \* age[s]: now - (expiration - Timeout), up to TooOld
    thread,     \* thread[s]: update_lobby_thread of the server
    due,        \* due[s]: until it registers again; negative: it is late
    sweep,      \* until the next run of expire_game_servers
    renewing    \* accepted by this lobby and not given up (history)

lobbyVars == <<listed, age, thread, due, sweep, renewing>>

TooOld == Timeout + SweepEvery + 1      \* bound: no entry gets older

LobbyTypeOK ==
    /\ listed \in SUBSET Servers
    /\ age \in [Servers -> 0 .. TooOld]
    /\ thread \in [Servers -> {"none", "runs", "ended"}]
    /\ due \in [Servers -> (-MaxLate) .. Period]
    /\ sweep \in 0 .. SweepEvery
    /\ renewing \in SUBSET Servers

LobbyInit ==
    /\ listed = {}
    /\ age = [s \in Servers |-> 0]
    /\ thread = [s \in Servers |-> "none"]
    /\ due = [s \in Servers |-> 0]
    /\ sweep = 0
    /\ renewing = {}

-----------------------------------------------------------------------------
(* A server starts: it registers at once.                                     *)
Start(s) ==
    /\ thread[s] = "none"
    /\ thread' = [thread EXCEPT ![s] = "runs"]
    /\ due' = [due EXCEPT ![s] = 0]
    /\ UNCHANGED <<listed, age, sweep, renewing>>

Stop(s) ==
    /\ thread[s] # "none"
    /\ thread' = [thread EXCEPT ![s] = "none"]
    /\ renewing' = renewing \ {s}
    /\ UNCHANGED <<listed, age, due, sweep>>

(* Mutant: only a new entry is given its expiration.                          *)
NewAge(s) == IF s \in listed THEN age[s] ELSE 0

(* update_expiration                                                          *)
AgeOnRegistering(s) == 0

(* service_game_server: an entry that is there is renewed, a new one is made  *)
(* if there is room.                                                          *)
Renew(s) ==
    /\ thread[s] = "runs"
    /\ due[s] <= 0
    /\ due' = [due EXCEPT ![s] = Period]
    /\ IF s \in listed \/ Cardinality(listed) < MaxGameServers
       THEN /\ listed' = listed \cup {s}
            /\ age' = [age EXCEPT ![s] = AgeOnRegistering(s)]
            /\ renewing' = renewing \cup {s}
       ELSE UNCHANGED <<listed, age, renewing>>
    /\ UNCHANGED <<thread, sweep>>

(* The lobby does not answer: the thread ends, the server is never entered    *)
(* again.                                                                     *)
RenewFails(s) ==
    /\ thread[s] = "runs"
    /\ due[s] <= 0
    /\ thread' = [thread EXCEPT ![s] = "ended"]
    /\ renewing' = renewing \ {s}
    /\ UNCHANGED <<listed, age, due, sweep>>

(* Mutant: an entry is removed as soon as half of its time is gone.           *)
HalfExpired(s) == age[s] >= Timeout

(* Mutant: the oldest entries are missed.                                     *)
ExpiredOnce(s) == age[s] > Timeout /\ age[s] < TooOld - 1

(* expiration < now                                                           *)
Expired(s) == age[s] > Timeout

(* One run of expire_game_servers.                                            *)
Sweep ==
    /\ sweep = 0
    /\ sweep' = SweepEvery
    /\ listed' = {s \in listed : ~Expired(s)}
    /\ UNCHANGED <<age, thread, due, renewing>>

(* The lobby dies and starts again, with an empty directory.                  *)
LobbyRestart ==
    /\ listed' = {}
    /\ sweep' = 0
    /\ renewing' = {}
    /\ UNCHANGED <<age, thread, due>>

(* Ten seconds pass.                                                          *)
Tick ==
    /\ sweep > 0
    /\ \A s \in Servers : thread[s] = "runs" => due[s] > -MaxLate
    /\ sweep' = sweep - 1
    /\ due' = [s \in Servers |-> IF thread[s] = "runs" THEN due[s] - 1 ELSE due[s]]
    /\ age' = [s \in Servers |-> IF age[s] < TooOld THEN age[s] + 1 ELSE age[s]]
    /\ UNCHANGED <<listed, thread, renewing>>

LobbyNext ==
    \/ \E s \in Servers : Start(s) \/ Stop(s) \/ Renew(s) \/ RenewFails(s)
    \/ Sweep
    \/ LobbyRestart
    \/ Tick

LobbySpec == LobbyInit /\ [][LobbyNext]_lobbyVars

-----------------------------------------------------------------------------
(* Properties.                                                                *)

(* A server that is gone, or no longer registers, is in the directory for at  *)
(* most the time-out and one period of expire_game_servers.                   *)
DeadAreForgotten == \A s \in listed : age[s] <= Timeout + SweepEvery

D == INSTANCE Directory

(* Only entries nobody renews are forgotten, however the registrations of     *)
(* different servers, the sweeps and the clock fall.  (Lobby implements       *)
(* Directory.)                                                                *)
ImplementsDirectory == D!DirectorySpec
==============================================================================
