----------------------------- MODULE ImageLoader -----------------------------
(* Loading textures in the background: workqueue.c and the cache of textures  *)
(* in graph_dev/texture_cache.c.  The rendering thread asks for a file, four  *)
(* workers decode, the rendering thread sends what they decoded to the GPU.   *)
EXTENDS Integers, Sequences, FiniteSets

CONSTANTS
    Files,
    Names,          \* texture names of GL
    Decoders,       \* IMAGE_LOADER_THREAD_COUNT workers
    QueueDepth,     \* IMAGE_LOADER_QUEUE_DEPTH, of a ring that is never filled
    MaxTextures     \* bound: entries of loaded_textures

ASSUME ImageLoaderAssumption ==
    /\ QueueDepth \in Nat \ {0}
    /\ MaxTextures \in Nat
    /\ Decoders # {}

VARIABLES
    textures,   \* loaded_textures[0 .. nloaded_textures-1]
    status,     \* texture_load_status, by name
    allocated,  \* names GL has given out and not taken back (external)
    todo,       \* image_loader_wq
    ready,      \* loaded_images_wq
    signalling, \* between the enqueue and the signal that follows it
    worker,     \* what a worker is doing
    given_up    \* names whose request was dropped or whose file is bad (history)

loaderVars ==
    <<textures, status, allocated, todo, ready, signalling, worker, given_up>>

Requests == [file : Files, name : Names, index : {-1} \cup 1 .. MaxTextures]
Asleep == [at |-> "asleep"]
Awake == [at |-> "awake"]
Decoding(r) == [at |-> "decoding", request |-> r]

LoaderTypeOK ==
    /\ textures \in Seq([file : Files, name : Names, expired : BOOLEAN])
    /\ Len(textures) <= MaxTextures
    /\ status \in [Names -> {"unused", "pending", "complete"}]
    /\ allocated \subseteq Names
    /\ todo \in Seq(Requests) /\ Len(todo) < QueueDepth
    /\ ready \in Seq(Requests) /\ Len(ready) < QueueDepth
    /\ signalling \in BOOLEAN
    /\ worker \in [Decoders -> {Asleep, Awake} \cup {Decoding(r) : r \in Requests}]
    /\ given_up \subseteq Names

LoaderInit ==
    /\ textures = << >>
    /\ status = [t \in Names |-> "unused"]
    /\ allocated = {}
    /\ todo = << >>
    /\ ready = << >>
    /\ signalling = FALSE
    /\ worker = [w \in Decoders |-> Awake]
    /\ given_up = {}

-----------------------------------------------------------------------------
Full(q) == Len(q) = QueueDepth - 1

(* Mutant: one item too many is let in, and head meets tail.                  *)
LooksEmpty(q, r) == IF Full(q) THEN << >> ELSE Append(q, r)

(* work_queue_enqueue                                                         *)
Enqueued(q, r) == IF Full(q) THEN q ELSE Append(q, r)

(* Its result is looked at by nobody: a request that finds no room is lost.   *)
GivenUp(q, r) == IF Full(q) THEN given_up \cup {r.name} ELSE given_up \ {r.name}

-----------------------------------------------------------------------------
(* The rendering thread.                                                      *)

Foremost(S) == CHOOSE i \in S : \A j \in S : i <= j
EntriesOf(f) == {i \in DOMAIN textures : textures[i].file = f}
ExpiredEntries == {i \in DOMAIN textures : textures[i].expired}

(* graph_dev_load_texture, of a file that is in the cache or about to be.     *)
LoadKnown(f) ==
    /\ ~signalling
    /\ EntriesOf(f) # {}
    /\ textures' = [textures EXCEPT ![Foremost(EntriesOf(f))].expired = FALSE]
    /\ UNCHANGED <<status, allocated, todo, ready, signalling, worker, given_up>>

Submit(r) ==
    /\ todo' = Enqueued(todo, r)
    /\ signalling' = ~Full(todo)
    /\ given_up' = GivenUp(todo, r)

(* ... of a file that is not: a new entry will be made when it is decoded.    *)
LoadNew(f, t) ==
    /\ ~signalling
    /\ EntriesOf(f) = {} /\ ExpiredEntries = {}
    /\ Len(textures) < MaxTextures
    /\ t \notin allocated
    /\ allocated' = allocated \cup {t}
    /\ status' = [status EXCEPT ![t] = "pending"]
    /\ Submit([file |-> f, name |-> t, index |-> -1])
    /\ UNCHANGED <<textures, ready, worker>>

(* ... or an expired entry is used again: its name is given back to GL, which *)
(* may give out the same one, and stays in the entry until the new one comes. *)
LoadReplacing(f, t) ==
    /\ ~signalling
    /\ EntriesOf(f) = {} /\ ExpiredEntries # {}
    /\ LET i == Foremost(ExpiredEntries)
           old == textures[i].name
       IN /\ t \notin allocated \ {old}
          /\ allocated' = (allocated \ {old}) \cup {t}
          /\ status' = [status EXCEPT ![old] = "unused", ![t] = "pending"]
          /\ textures' = [textures EXCEPT ![i].file = f, ![i].expired = FALSE]
          /\ Submit([file |-> f, name |-> t, index |-> i])
    /\ UNCHANGED <<ready, worker>>

Expire(f) ==
    /\ ~signalling
    /\ EntriesOf(f) # {}
    /\ textures' = [textures EXCEPT ![Foremost(EntriesOf(f))].expired = TRUE]
    /\ UNCHANGED <<status, allocated, todo, ready, signalling, worker, given_up>>

(* work_queue_wakeup: one of the sleepers wakes up, if any sleeps.            *)
Signal ==
    /\ signalling
    /\ signalling' = FALSE
    /\ \/ \E w \in Decoders :
             /\ worker[w] = Asleep
             /\ worker' = [worker EXCEPT ![w] = Awake]
       \/ /\ \A w \in Decoders : worker[w] # Asleep
          /\ UNCHANGED worker
    /\ UNCHANGED <<textures, status, allocated, todo, ready, given_up>>

(* graph_dev_send_completed_textures_to_gpu, one texture.                     *)
Upload ==
    /\ ~signalling
    /\ ready # << >>
    /\ LET r == Head(ready)
           e == [file |-> r.file, name |-> r.name, expired |-> FALSE]
       IN /\ r.index = -1 => Len(textures) < MaxTextures
          /\ textures' = IF r.index = -1 THEN Append(textures, e)
                         ELSE [textures EXCEPT ![r.index] = e]
          /\ status' = [status EXCEPT ![r.name] = "complete"]
          /\ allocated' = allocated \cup {r.name}
    /\ ready' = Tail(ready)
    /\ UNCHANGED <<todo, signalling, worker, given_up>>

-----------------------------------------------------------------------------
(* The workers.                                                               *)

(* Mutant: a worker that has nothing to do looks away before it sleeps.       *)
SleepsAnyway(w) ==
    /\ worker[w] = Awake
    /\ worker' = [worker EXCEPT ![w] = Asleep]
    /\ UNCHANGED todo

(* work_queue_wait_for_work: to find nothing and to sleep is one step.        *)
WaitForWork(w) ==
    /\ worker[w] = Awake
    /\ IF todo # << >>
       THEN /\ worker' = [worker EXCEPT ![w] = Decoding(Head(todo))]
            /\ todo' = Tail(todo)
       ELSE /\ worker' = [worker EXCEPT ![w] = Asleep]
            /\ UNCHANGED todo

Takes(w) ==
    /\ WaitForWork(w)
    /\ UNCHANGED <<textures, status, allocated, ready, signalling, given_up>>

SpuriousWakeup(w) ==
    /\ worker[w] = Asleep
    /\ worker' = [worker EXCEPT ![w] = Awake]
    /\ UNCHANGED <<textures, status, allocated, todo, ready, signalling, given_up>>

Decodes(w) ==
    /\ worker[w].at = "decoding"
    /\ LET r == worker[w].request IN
       /\ ready' = Enqueued(ready, r)
       /\ given_up' = IF Full(ready) THEN given_up \cup {r.name} ELSE given_up
    /\ worker' = [worker EXCEPT ![w] = Awake]
    /\ UNCHANGED <<textures, status, allocated, todo, signalling>>

(* The file cannot be decoded: the request is freed.                          *)
DecodingFails(w) ==
    /\ worker[w].at = "decoding"
    /\ given_up' = given_up \cup {worker[w].request.name}
    /\ worker' = [worker EXCEPT ![w] = Awake]
    /\ UNCHANGED <<textures, status, allocated, todo, ready, signalling>>

-----------------------------------------------------------------------------
LoaderNext ==
    \/ \E f \in Files :
          \/ LoadKnown(f) \/ Expire(f)
          \/ \E t \in Names : LoadNew(f, t) \/ LoadReplacing(f, t)
    \/ Signal
    \/ Upload
    \/ \E w \in Decoders :
          Takes(w) \/ SpuriousWakeup(w) \/ Decodes(w) \/ DecodingFails(w)

LoaderSpec == LoaderInit /\ [][LoaderNext]_loaderVars

-----------------------------------------------------------------------------
(* Properties.                                                                *)

(* No wake-up is lost: while there is work some worker is up, or about to be  *)
(* woken, although the signal is sent outside the lock the work is put in     *)
(* under.                                                                     *)
NoWorkIsForgotten ==
    todo # << >> => signalling \/ \E w \in Decoders : worker[w] # Asleep

(* A texture is pending for ever only if its file was bad or a queue was full *)
(* at one time: otherwise its request is somewhere between the queues, even   *)
(* if GL has given its name out twice meanwhile.                              *)
InFlight ==
    {todo[k].name : k \in DOMAIN todo} \cup {ready[k].name : k \in DOMAIN ready}
    \cup {worker[w].request.name : w \in {v \in Decoders : worker[v].at = "decoding"}}

PendingIsComing ==
    \A t \in Names : status[t] = "pending" => t \in InFlight \cup given_up
==============================================================================
