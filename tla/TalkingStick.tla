---------------------------- MODULE TalkingStick -----------------------------
(* Who may talk: a client asks for one of the audio chains when its key goes  *)
(* down and gives it back when the key comes up, without waiting for answers. *)
(* Packets are neither lost nor reordered while a connection lasts.           *)
EXTENDS Naturals, Sequences, FiniteSets

CONSTANTS
    Talkers,        \* clients
    Sticks,         \* 0 .. NTALKING_STICKS-1
    NoStick,        \* NO_TALKING_STICK
    MaxPackets      \* bound on the packets on their way, in each direction

ASSUME StickAssumption == NoStick \notin Sticks /\ MaxPackets \in Nat

VARIABLES
    taken,      \* talking_stick[]
    served,     \* clients that have an entry in the server's client[]
    stick,      \* talking_stick of that entry
    key,        \* the client runs, and its key is "up" or "down", or it is "off"
    believes,   \* have_talking_stick of the client
    requests,   \* packets to the server
    grants      \* number of OPCODE_TALKING_STICK_GRANT to the client

stickVars == <<taken, served, stick, key, believes, requests, grants>>

StickTypeOK ==
    /\ taken \subseteq Sticks
    /\ served \subseteq Talkers
    /\ stick \in [Talkers -> Sticks \cup {NoStick}]
    /\ key \in [Talkers -> {"off", "up", "down"}]
    /\ believes \in [Talkers -> BOOLEAN]
    /\ requests \in [Talkers -> Seq({"request", "release"})]
    /\ grants \in [Talkers -> 0 .. MaxPackets]

StickInit ==
    /\ taken = {}
    /\ served = {}
    /\ stick = [c \in Talkers |-> NoStick]
    /\ key = [c \in Talkers |-> "off"]
    /\ believes = [c \in Talkers |-> FALSE]
    /\ requests = [c \in Talkers |-> << >>]
    /\ grants = [c \in Talkers |-> 0]

-----------------------------------------------------------------------------
(* The client.                                                                *)

Send(c, p) ==
    /\ Len(requests[c]) < MaxPackets
    /\ requests' = [requests EXCEPT ![c] = Append(@, p)]

(* Mutant: the entry of a former client is taken over as it is.               *)
StickOfFormer(c) == stick[c]

(* service_connection                                                         *)
StickOfNew(c) == NoStick

Joins(c) ==
    /\ key[c] = "off"
    /\ c \notin served
    /\ served' = served \cup {c}
    /\ stick' = [stick EXCEPT ![c] = StickOfNew(c)]
    /\ key' = [key EXCEPT ![c] = "up"]
    /\ believes' = [believes EXCEPT ![c] = FALSE]
    /\ requests' = [requests EXCEPT ![c] = << >>]
    /\ grants' = [grants EXCEPT ![c] = 0]
    /\ UNCHANGED taken

(* F12 goes down, or repeats.                                                 *)
KeyDown(c) ==
    /\ key[c] # "off"
    /\ key' = [key EXCEPT ![c] = "down"]
    /\ IF believes[c] THEN UNCHANGED requests ELSE Send(c, "request")
    /\ UNCHANGED <<taken, served, stick, believes, grants>>

(* Mutant: only what the client believes to have is given back.               *)
ReleaseIfBelieved(c) == IF believes[c] THEN Send(c, "release") ELSE UNCHANGED requests

(* release_talking_stick, "even if we don't have".                            *)
ReleaseAnyway(c) == Send(c, "release")

KeyUp(c) ==
    /\ key[c] = "down"
    /\ key' = [key EXCEPT ![c] = "up"]
    /\ ReleaseAnyway(c)
    /\ believes' = [believes EXCEPT ![c] = FALSE]
    /\ UNCHANGED <<taken, served, stick, grants>>

GrantArrives(c) ==
    /\ key[c] # "off"
    /\ grants[c] > 0
    /\ grants' = [grants EXCEPT ![c] = @ - 1]
    /\ believes' = [believes EXCEPT ![c] = TRUE]
    /\ UNCHANGED <<taken, served, stick, key, requests>>

Quits(c) ==
    /\ key[c] # "off"
    /\ key' = [key EXCEPT ![c] = "off"]
    /\ UNCHANGED <<taken, served, stick, believes, requests, grants>>

-----------------------------------------------------------------------------
(* The server.                                                                *)

Free == Sticks \ taken

(* talking_stick_get                                                          *)
TakesStick(c) ==
    \/ \E s \in Free :
          /\ taken' = taken \cup {s}
          /\ stick' = [stick EXCEPT ![c] = s]
    \/ /\ Free = {}
       /\ UNCHANGED <<taken, stick>>

GivesBack(c) == taken' = taken \ {stick[c]}

Packet(c, p) ==
    /\ c \in served
    /\ requests[c] # << >>
    /\ Head(requests[c]) = p
    /\ requests' = [requests EXCEPT ![c] = Tail(@)]

(* process_talking_stick                                                      *)
ProcessRequest(c) ==
    /\ Packet(c, "request")
    /\ IF stick[c] = NoStick THEN TakesStick(c) ELSE UNCHANGED <<taken, stick>>
    /\ grants[c] < MaxPackets
    /\ grants' = [grants EXCEPT ![c] = IF stick'[c] = NoStick THEN @ ELSE @ + 1]
    /\ UNCHANGED <<served, key, believes>>

ProcessRelease(c) ==
    /\ Packet(c, "release")
    /\ GivesBack(c)
    /\ stick' = [stick EXCEPT ![c] = NoStick]
    /\ UNCHANGED <<served, key, believes, grants>>

(* put_client, of the last thread of a client that is gone.                   *)
Drop(c) ==
    /\ c \in served
    /\ key[c] = "off"
    /\ served' = served \ {c}
    /\ GivesBack(c)
    /\ UNCHANGED <<stick, key, believes, requests, grants>>

StickNext ==
    \E c \in Talkers :
        \/ Joins(c) \/ KeyDown(c) \/ KeyUp(c) \/ GrantArrives(c) \/ Quits(c)
        \/ ProcessRequest(c) \/ ProcessRelease(c) \/ Drop(c)

StickSpec == StickInit /\ [][StickNext]_stickVars

-----------------------------------------------------------------------------
(* Properties.                                                                *)

(* Every stick that is taken has exactly one client that can give it back:    *)
(* none is lost with a client that leaves, and no two clients talk on one     *)
(* chain.                                                                     *)
EveryStickHasOneOwner ==
    /\ \A s \in taken : \E c \in served : stick[c] = s
    /\ \A c \in served : stick[c] # NoStick => stick[c] \in taken
    /\ \A c, d \in served : stick[c] = stick[d] /\ stick[c] # NoStick => c = d

(* However presses, releases and late grants cross: once the packets of a     *)
(* client whose key is up have arrived, it keeps no stick from the others.    *)
SticksComeBack ==
    \A c \in served : key[c] = "up" /\ requests[c] = << >> => stick[c] = NoStick
==============================================================================
