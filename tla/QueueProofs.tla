----------------------------- MODULE QueueProofs ------------------------------
(* Proofs about work that waits in queues: the client's image loader, for any *)
(* number of workers, any depth of the queues and any number of textures      *)
(* (ImageLoader), and the events, timers and commands of scripts              *)
(* (LuaCallbacks).                                                            *)
EXTENDS ImageLoader, LuaCallbacks, Numbers, SequenceTheorems,
        FiniteSetTheorems

Textures == [file : Files, name : Names, expired : BOOLEAN]

LEMMA LoaderConstants ==
    QueueDepth \in Nat \ {0} /\ MaxTextures \in Nat /\ Decoders # {}
  BY ImageLoaderAssumption

(* Foremost finds something.                                                  *)
LEMMA ForemostIsOne ==
    ASSUME NEW S \in SUBSET Nat, S # {}
    PROVE  Foremost(S) \in S
BY LeastOf DEF Foremost

LEMMA Workers ==
    /\ Asleep # Awake
    /\ Asleep.at # "decoding" /\ Awake.at # "decoding"
    /\ \A r \in Requests : /\ Decoding(r) # Asleep
                           /\ Decoding(r).at = "decoding"
                           /\ Decoding(r).request = r
<1>1. Asleep.at = "asleep" /\ Awake.at = "awake"
  BY DEF Asleep, Awake
<1>2. \A r \in Requests : Decoding(r).at = "decoding" /\ Decoding(r).request = r
  BY DEF Decoding
<1> QED BY <1>1, <1>2

(* A worker that decodes has a request.                                       *)
LEMMA DecoderHasRequest ==
    ASSUME LoaderTypeOK, NEW w \in Decoders, worker[w].at = "decoding"
    PROVE  worker[w].request \in Requests
<1>1. worker[w] # Asleep /\ worker[w] # Awake
  BY Workers
<1>2. PICK r \in Requests : worker[w] = Decoding(r)
  BY <1>1 DEF LoaderTypeOK
<1> QED BY <1>2, Workers

(* A queue takes a request, and stays within its depth.                       *)
LEMMA EnqueuedFits ==
    ASSUME NEW q \in Seq(Requests), Len(q) < QueueDepth, NEW r \in Requests
    PROVE  Enqueued(q, r) \in Seq(Requests) /\ Len(Enqueued(q, r)) < QueueDepth
  BY LoaderConstants DEF Enqueued, Full

LEMMA TailFits ==
    ASSUME NEW q \in Seq(Requests), Len(q) < QueueDepth, q # << >>
    PROVE  /\ Head(q) \in Requests
           /\ Tail(q) \in Seq(Requests) /\ Len(Tail(q)) < QueueDepth
  BY LoaderConstants

LEMMA LoaderTypeInit == LoaderInit => LoaderTypeOK
<1> SUFFICES ASSUME LoaderInit PROVE LoaderTypeOK
  OBVIOUS
<1> USE LoaderConstants DEF LoaderInit
<1>1. << >> \in Seq(Requests) /\ << >> \in Seq(Textures) /\ Len(<< >>) = 0
  OBVIOUS
<1>2. Len(textures) <= MaxTextures /\ Len(todo) < QueueDepth /\ Len(ready) < QueueDepth
  BY <1>1
<1>3. /\ status \in [Names -> {"unused", "pending", "complete"}]
      /\ worker \in [Decoders -> {Asleep, Awake} \cup {Decoding(r) : r \in Requests}]
  OBVIOUS
<1> QED BY <1>1, <1>2, <1>3 DEF LoaderTypeOK, Textures

(* What the rendering thread submits fits the queue.                          *)
LEMMA SubmitKeepsType ==
    ASSUME LoaderTypeOK, NEW r \in Requests, Submit(r)
    PROVE  /\ todo' \in Seq(Requests) /\ Len(todo') < QueueDepth
           /\ signalling' \in BOOLEAN
           /\ given_up' \subseteq Names
<1>1. r.name \in Names
  BY DEF Requests
<1>2. todo' \in Seq(Requests) /\ Len(todo') < QueueDepth
  BY EnqueuedFits DEF Submit, LoaderTypeOK
<1>3. given_up' \subseteq Names
  BY <1>1 DEF Submit, GivenUp, LoaderTypeOK
<1> QED BY <1>2, <1>3 DEF Submit

(* An entry is changed, or not if there is no such entry.                     *)
LEMMA EntryChanges ==
    ASSUME LoaderTypeOK, NEW i, NEW e \in Textures
    PROVE  /\ [textures EXCEPT ![i] = e] \in Seq(Textures)
           /\ Len([textures EXCEPT ![i] = e]) = Len(textures)
<1>1. textures \in Seq(Textures)
  BY DEF LoaderTypeOK, Textures
<1>2. CASE i \in 1 .. Len(textures)
  BY <1>1, <1>2, ExceptSeq
<1>3. CASE i \notin 1 .. Len(textures)
  <2>1. [textures EXCEPT ![i] = e] = textures
    BY <1>1, <1>3
  <2> QED BY <1>1, <2>1
<1> QED BY <1>2, <1>3

LEMMA ExpiryChanges ==
    ASSUME LoaderTypeOK, NEW S \in SUBSET DOMAIN textures, S # {}, NEW b \in BOOLEAN
    PROVE  /\ [textures EXCEPT ![Foremost(S)].expired = b] \in Seq(Textures)
           /\ Len([textures EXCEPT ![Foremost(S)].expired = b]) = Len(textures)
<1>1. textures \in Seq(Textures)
  BY DEF LoaderTypeOK, Textures
<1>2. Foremost(S) \in DOMAIN textures
  BY <1>1, ForemostIsOne
<1> DEFINE i == Foremost(S)
           e == [textures[i] EXCEPT !.expired = b]
<1>3. textures[i] \in Textures
  BY <1>1, <1>2, ElementOfSeq
<1>4. e \in Textures
  BY <1>3 DEF Textures
<1>5. [textures EXCEPT ![i].expired = b] = [textures EXCEPT ![i] = e]
  OBVIOUS
<1> QED BY <1>4, <1>5, EntryChanges

(* An expired entry has a place, which the request names.                     *)
LEMMA ReplacingRequest ==
    ASSUME LoaderTypeOK, ExpiredEntries # {}, NEW f \in Files, NEW t \in Names
    PROVE  /\ Foremost(ExpiredEntries) \in DOMAIN textures
           /\ [file |-> f, name |-> t, index |-> Foremost(ExpiredEntries)] \in Requests
<1>1. textures \in Seq(Textures) /\ Len(textures) <= MaxTextures
  BY DEF LoaderTypeOK, Textures
<1>2. Foremost(ExpiredEntries) \in DOMAIN textures
  <2>1. ExpiredEntries \subseteq DOMAIN textures /\ ExpiredEntries \in SUBSET Nat
    BY <1>1 DEF ExpiredEntries
  <2> QED BY <2>1, ForemostIsOne
<1> QED BY <1>1, <1>2, LoaderConstants DEF Requests

LEMMA LoaderTypeNext == LoaderTypeOK /\ [LoaderNext]_loaderVars => LoaderTypeOK'
<1> SUFFICES ASSUME LoaderTypeOK, [LoaderNext]_loaderVars PROVE LoaderTypeOK'
  OBVIOUS
<1> USE LoaderConstants
<1>1. ASSUME NEW f \in Files, LoadKnown(f) \/ Expire(f) PROVE LoaderTypeOK'
  <2>1. EntriesOf(f) \subseteq DOMAIN textures /\ EntriesOf(f) # {}
    BY <1>1 DEF LoadKnown, Expire, EntriesOf
  <2>2. PICK b \in BOOLEAN : textures' = [textures EXCEPT ![Foremost(EntriesOf(f))].expired = b]
    BY <1>1 DEF LoadKnown, Expire
  <2>3. textures' \in Seq(Textures) /\ Len(textures') = Len(textures)
    <3> DEFINE S == EntriesOf(f)
    <3>1. S \in SUBSET DOMAIN textures /\ S # {} /\ textures' = [textures EXCEPT ![Foremost(S)].expired = b]
      BY <2>1, <2>2
    <3> HIDE DEF S
    <3> QED BY <3>1, ExpiryChanges
  <2> QED BY <1>1, <2>3 DEF LoadKnown, Expire, LoaderTypeOK, Textures
<1>2. ASSUME NEW f \in Files, NEW t \in Names, LoadNew(f, t) PROVE LoaderTypeOK'
  <2>1. [file |-> f, name |-> t, index |-> -1] \in Requests
    BY DEF Requests
  <2>2. /\ todo' \in Seq(Requests) /\ Len(todo') < QueueDepth
        /\ signalling' \in BOOLEAN /\ given_up' \subseteq Names
    BY <1>2, <2>1, SubmitKeepsType DEF LoadNew
  <2> QED BY <1>2, <2>2 DEF LoadNew, LoaderTypeOK
<1>3. ASSUME NEW f \in Files, NEW t \in Names, LoadReplacing(f, t) PROVE LoaderTypeOK'
  <2> DEFINE i == Foremost(ExpiredEntries)
             r == [file |-> f, name |-> t, index |-> i]
  <2>1. textures \in Seq(Textures) /\ Len(textures) <= MaxTextures
    BY DEF LoaderTypeOK, Textures
  <2>2. i \in DOMAIN textures /\ r \in Requests
    BY <1>3, ReplacingRequest DEF LoadReplacing
  <2> HIDE DEF i
  <2>0. textures[i] \in Textures
    BY <2>1, <2>2, ElementOfSeq
  <2>4. Submit(r)
    BY <1>3 DEF LoadReplacing, i
  <2>5. /\ todo' \in Seq(Requests) /\ Len(todo') < QueueDepth
        /\ signalling' \in BOOLEAN /\ given_up' \subseteq Names
    BY <2>2, <2>4, SubmitKeepsType
  <2>6. textures' = [textures EXCEPT ![i].file = f, ![i].expired = FALSE]
    BY <1>3 DEF LoadReplacing, i
  <2>7. textures' \in Seq(Textures) /\ Len(textures') = Len(textures)
    <3> DEFINE e == [textures[i] EXCEPT !.file = f, !.expired = FALSE]
    <3>1. e \in Textures
      BY <2>0 DEF Textures
    <3>2. textures' = [textures EXCEPT ![i] = e]
      BY <2>1, <2>2, <2>6
    <3> HIDE DEF e
    <3> QED BY <3>1, <3>2, EntryChanges
  <2>8. textures[i].name \in Names
    BY <2>0 DEF Textures
  <2>9. allocated' \subseteq Names /\ status' \in [Names -> {"unused", "pending", "complete"}]
    BY <1>3, <2>8 DEF LoadReplacing, LoaderTypeOK, i
  <2> QED BY <1>3, <2>5, <2>7, <2>9 DEF LoadReplacing, LoaderTypeOK, Textures
<1>4. CASE Signal
  BY <1>4 DEF Signal, LoaderTypeOK
<1>5. CASE Upload
  <2> DEFINE r == Head(ready)
             e == [file |-> r.file, name |-> r.name, expired |-> FALSE]
  <2>1. r \in Requests /\ ready' \in Seq(Requests) /\ Len(ready') < QueueDepth
    BY <1>5, TailFits DEF Upload, LoaderTypeOK
  <2>2. e \in Textures /\ r.name \in Names
    BY <2>1 DEF Requests, Textures
  <2>3. textures \in Seq(Textures) /\ Len(textures) <= MaxTextures
    BY DEF LoaderTypeOK, Textures
  <2>4. /\ r.index = -1 => Len(textures) < MaxTextures
        /\ textures' = IF r.index = -1 THEN Append(textures, e)
                       ELSE [textures EXCEPT ![r.index] = e]
    BY <1>5 DEF Upload
  <2>5. textures' \in Seq(Textures) /\ Len(textures') <= MaxTextures
    <3> HIDE DEF e, r
    <3>1. CASE r.index = -1
      BY <2>2, <2>3, <2>4, <3>1
    <3>2. CASE r.index # -1
      BY <2>2, <2>3, <2>4, <3>2, EntryChanges
    <3> QED BY <3>1, <3>2
  <2>6. status' \in [Names -> {"unused", "pending", "complete"}] /\ allocated' \subseteq Names
    BY <1>5, <2>2 DEF Upload, LoaderTypeOK
  <2> QED BY <1>5, <2>1, <2>5, <2>6 DEF Upload, LoaderTypeOK, Textures
<1>6. ASSUME NEW w \in Decoders, Takes(w) PROVE LoaderTypeOK'
  <2>1. todo # << >> => Head(todo) \in Requests /\ Tail(todo) \in Seq(Requests)
                        /\ Len(Tail(todo)) < QueueDepth
    BY TailFits DEF LoaderTypeOK
  <2> QED BY <1>6, <2>1 DEF Takes, WaitForWork, LoaderTypeOK
<1>7. ASSUME NEW w \in Decoders, SpuriousWakeup(w) PROVE LoaderTypeOK'
  BY <1>7 DEF SpuriousWakeup, LoaderTypeOK
<1>8. ASSUME NEW w \in Decoders, Decodes(w) \/ DecodingFails(w) PROVE LoaderTypeOK'
  <2>1. worker[w].request \in Requests /\ worker[w].request.name \in Names
    BY <1>8, DecoderHasRequest DEF Decodes, DecodingFails, Requests
  <2>2. ready' \in Seq(Requests) /\ Len(ready') < QueueDepth
    BY <1>8, <2>1, EnqueuedFits DEF Decodes, DecodingFails, LoaderTypeOK
  <2>3. given_up' \subseteq Names
    BY <1>8, <2>1 DEF Decodes, DecodingFails, LoaderTypeOK
  <2>4. worker' \in [Decoders -> {Asleep, Awake} \cup {Decoding(r) : r \in Requests}]
    BY <1>8 DEF Decodes, DecodingFails, LoaderTypeOK
  <2> QED BY <1>8, <2>2, <2>3, <2>4 DEF Decodes, DecodingFails, LoaderTypeOK
<1>9. CASE UNCHANGED loaderVars
  BY <1>9 DEF loaderVars, LoaderTypeOK
<1> QED
  BY <1>1, <1>2, <1>3, <1>4, <1>5, <1>6, <1>7, <1>8, <1>9 DEF LoaderNext

(* The variables of ImageLoader keep their types: neither the ring nor the    *)
(* queue of results is ever overfull.                                         *)
THEOREM LoaderTypes == LoaderSpec => []LoaderTypeOK
  BY LoaderTypeInit, LoaderTypeNext, PTL DEF LoaderSpec

-----------------------------------------------------------------------------
LEMMA NoWorkNext ==
    LoaderTypeOK /\ NoWorkIsForgotten /\ [LoaderNext]_loaderVars => NoWorkIsForgotten'
<1> SUFFICES ASSUME LoaderTypeOK, NoWorkIsForgotten, [LoaderNext]_loaderVars
             PROVE  NoWorkIsForgotten'
  OBVIOUS
<1> USE DEF NoWorkIsForgotten
<1>1. ASSUME NEW r, Submit(r), UNCHANGED worker, ~signalling PROVE NoWorkIsForgotten'
  <2>1. CASE Full(todo)
    BY <1>1, <2>1 DEF Submit, Enqueued
  <2>2. CASE ~Full(todo)
    BY <1>1, <2>2 DEF Submit
  <2> QED BY <2>1, <2>2
<1>2. ASSUME NEW f \in Files, NEW t \in Names, LoadNew(f, t) \/ LoadReplacing(f, t)
      PROVE  NoWorkIsForgotten'
  BY <1>1, <1>2 DEF LoadNew, LoadReplacing
<1>3. CASE Signal
  <2>1. CASE \E w \in Decoders : worker[w] = Asleep /\ worker' = [worker EXCEPT ![w] = Awake]
    BY <2>1, Workers DEF LoaderTypeOK
  <2>2. CASE (\A w \in Decoders : worker[w] # Asleep) /\ UNCHANGED worker
    BY <2>2, LoaderConstants
  <2> QED BY <1>3, <2>1, <2>2 DEF Signal
<1>4. ASSUME NEW w \in Decoders, Takes(w) PROVE NoWorkIsForgotten'
  <2>1. CASE todo # << >>
    BY <1>4, <2>1, Workers, TailFits DEF Takes, WaitForWork, LoaderTypeOK
  <2>2. CASE todo = << >>
    BY <1>4, <2>2 DEF Takes, WaitForWork
  <2> QED BY <2>1, <2>2
<1>5. ASSUME NEW w \in Decoders, SpuriousWakeup(w) \/ Decodes(w) \/ DecodingFails(w)
      PROVE  NoWorkIsForgotten'
  BY <1>5, Workers DEF SpuriousWakeup, Decodes, DecodingFails, LoaderTypeOK
<1>6. CASE Upload \/ (\E f \in Files : LoadKnown(f) \/ Expire(f)) \/ UNCHANGED loaderVars
  BY <1>6 DEF Upload, LoadKnown, Expire, loaderVars
<1> QED BY <1>2, <1>3, <1>4, <1>5, <1>6 DEF LoaderNext

(* While there is work, a worker is up or about to be woken.                  *)
THEOREM NoLostWakeup == LoaderSpec => []NoWorkIsForgotten
<1>1. LoaderInit => NoWorkIsForgotten
  BY DEF LoaderInit, NoWorkIsForgotten
<1> QED BY <1>1, NoWorkNext, LoaderTypes, PTL DEF LoaderSpec
-----------------------------------------------------------------------------
(* Requests by the names they are for.                                        *)

NamesOf(q) == {q[k].name : k \in DOMAIN q}
Decoded == {worker[w].request.name : w \in {v \in Decoders : worker[v].at = "decoding"}}

LEMMA InFlightIs == InFlight = NamesOf(todo) \cup NamesOf(ready) \cup Decoded
  BY DEF InFlight, NamesOf, Decoded

LEMMA NamesOfTail ==
    ASSUME NEW q \in Seq(Requests), q # << >>
    PROVE  NamesOf(q) \subseteq {Head(q).name} \cup NamesOf(Tail(q))
<1> SUFFICES ASSUME NEW k \in DOMAIN q, k # 1
             PROVE  \E j \in DOMAIN Tail(q) : Tail(q)[j] = q[k]
  BY DEF NamesOf
<1>1. k - 1 \in DOMAIN Tail(q) /\ Tail(q)[k - 1] = q[k]
  OBVIOUS
<1> QED BY <1>1

(* A request is in the queue then, unless there was no room for it.           *)
LEMMA NamesOfEnqueued ==
    ASSUME NEW q \in Seq(Requests), NEW r \in Requests
    PROVE  /\ NamesOf(q) \subseteq NamesOf(Enqueued(q, r))
           /\ ~Full(q) => r.name \in NamesOf(Enqueued(q, r))
<1>1. CASE Full(q)
  BY <1>1 DEF Enqueued
<1>2. CASE ~Full(q)
  <2>1. Enqueued(q, r) = Append(q, r)
    BY <1>2 DEF Enqueued
  <2>2. /\ Len(q) + 1 \in DOMAIN Append(q, r)
        /\ Append(q, r)[Len(q) + 1] = r
        /\ \A k \in DOMAIN q : k \in DOMAIN Append(q, r) /\ Append(q, r)[k] = q[k]
    OBVIOUS
  <2> QED BY <2>1, <2>2 DEF NamesOf
<1> QED BY <1>1, <1>2

(* The workers that decode, but for one, go on.                               *)
LEMMA OthersDecode ==
    ASSUME LoaderTypeOK, NEW w \in Decoders, NEW x, worker' = [worker EXCEPT ![w] = x]
    PROVE  /\ Decoded \subseteq Decoded' \cup {worker[w].request.name}
           /\ worker[w].at # "decoding" => Decoded \subseteq Decoded'
           /\ x.at = "decoding" => x.request.name \in Decoded'
<1>1. worker'[w] = x /\ \A v \in Decoders \ {w} : worker'[v] = worker[v]
  BY DEF LoaderTypeOK
<1> QED BY <1>1 DEF Decoded

LEMMA PendingNext ==
    LoaderTypeOK /\ PendingIsComing /\ [LoaderNext]_loaderVars => PendingIsComing'
<1> SUFFICES ASSUME LoaderTypeOK, PendingIsComing, [LoaderNext]_loaderVars,
                    NEW n \in Names, status'[n] = "pending"
             PROVE  n \in InFlight' \cup given_up'
  BY DEF PendingIsComing
<1>0. /\ InFlight = NamesOf(todo) \cup NamesOf(ready) \cup Decoded
      /\ InFlight' = NamesOf(todo') \cup NamesOf(ready') \cup Decoded'
      /\ todo \in Seq(Requests) /\ ready \in Seq(Requests)
  <2>1. InFlight' = NamesOf(todo)' \cup NamesOf(ready)' \cup Decoded'
    BY DEF InFlight, NamesOf, Decoded
  <2> QED BY <2>1, InFlightIs DEF LoaderTypeOK, NamesOf
<1>1. status[n] = "pending" => n \in InFlight \cup given_up
  BY DEF PendingIsComing
<1>2. ASSUME NEW r \in Requests, Submit(r), UNCHANGED <<ready, worker>>,
             n # r.name => status[n] = "pending"
      PROVE  n \in InFlight' \cup given_up'
  <2>1. /\ NamesOf(todo) \subseteq NamesOf(todo')
        /\ ~Full(todo) => r.name \in NamesOf(todo')
    BY <1>0, <1>2, NamesOfEnqueued DEF Submit
  <2>2. NamesOf(ready') = NamesOf(ready) /\ Decoded' = Decoded
    BY <1>2 DEF NamesOf, Decoded
  <2>3. /\ Full(todo) => r.name \in given_up'
        /\ given_up \ {r.name} \subseteq given_up'
    BY <1>2 DEF Submit, GivenUp
  <2> QED BY <1>0, <1>1, <1>2, <2>1, <2>2, <2>3
<1>3. ASSUME NEW f \in Files, NEW t \in Names, LoadNew(f, t)
      PROVE  n \in InFlight' \cup given_up'
  <2> DEFINE r == [file |-> f, name |-> t, index |-> -1]
  <2>1. r \in Requests /\ Submit(r) /\ r.name = t
    BY <1>3 DEF LoadNew, Requests
  <2>2. n # t => status[n] = "pending"
    BY <1>3 DEF LoadNew, LoaderTypeOK
  <2> HIDE DEF r
  <2> QED BY <1>2, <1>3, <2>1, <2>2 DEF LoadNew
<1>4. ASSUME NEW f \in Files, NEW t \in Names, LoadReplacing(f, t)
      PROVE  n \in InFlight' \cup given_up'
  <2> DEFINE i == Foremost(ExpiredEntries)
             r == [file |-> f, name |-> t, index |-> i]
  <2>1. Submit(r) /\ r.name = t
    BY <1>4 DEF LoadReplacing
  <2>2. n # t => status[n] = "pending"
    BY <1>4 DEF LoadReplacing, LoaderTypeOK
  <2>3. r \in Requests
    BY <1>4, ReplacingRequest DEF LoadReplacing
  <2> HIDE DEF r
  <2> QED BY <1>2, <1>4, <2>1, <2>2, <2>3 DEF LoadReplacing
<1>5. CASE Upload
  <2>1. ready # << >> /\ ready' = Tail(ready) /\ UNCHANGED <<todo, worker, given_up>>
        /\ status' = [status EXCEPT ![Head(ready).name] = "complete"]
    BY <1>5 DEF Upload
  <2>2. n # Head(ready).name /\ status[n] = "pending"
    BY <2>1 DEF LoaderTypeOK
  <2>3. NamesOf(ready) \subseteq {Head(ready).name} \cup NamesOf(ready')
    BY <1>0, <2>1, NamesOfTail
  <2>4. NamesOf(todo') = NamesOf(todo) /\ Decoded' = Decoded
    BY <2>1 DEF NamesOf, Decoded
  <2> QED BY <1>0, <1>1, <2>1, <2>2, <2>3, <2>4
<1>6. ASSUME NEW w \in Decoders, Takes(w) PROVE n \in InFlight' \cup given_up'
  <2>1. /\ UNCHANGED <<status, ready, given_up>> /\ worker[w] = Awake
        /\ NamesOf(ready') = NamesOf(ready)
    BY <1>6 DEF Takes, WaitForWork, NamesOf
  <2>2. CASE todo = << >>
    <3>1. worker' = [worker EXCEPT ![w] = Asleep] /\ todo' = todo
      BY <1>6, <2>2 DEF Takes, WaitForWork
    <3>2. Decoded \subseteq Decoded'
      BY <2>1, <3>1, OthersDecode, Workers
    <3> QED BY <1>0, <1>1, <2>1, <3>1, <3>2
  <2>3. CASE todo # << >>
    <3>1. worker' = [worker EXCEPT ![w] = Decoding(Head(todo))] /\ todo' = Tail(todo)
      BY <1>6, <2>3 DEF Takes, WaitForWork
    <3>2. Head(todo) \in Requests
      BY <1>0, <2>3
    <3>3. Decoded \subseteq Decoded' /\ Head(todo).name \in Decoded'
      BY <2>1, <3>1, <3>2, OthersDecode, Workers
    <3>4. NamesOf(todo) \subseteq {Head(todo).name} \cup NamesOf(todo')
      BY <1>0, <2>3, <3>1, NamesOfTail
    <3> QED BY <1>0, <1>1, <2>1, <3>3, <3>4
  <2> QED BY <2>2, <2>3
<1>7. ASSUME NEW w \in Decoders, SpuriousWakeup(w) PROVE n \in InFlight' \cup given_up'
  <2>1. /\ UNCHANGED <<status, todo, ready, given_up>> /\ worker[w] = Asleep
        /\ worker' = [worker EXCEPT ![w] = Awake]
    BY <1>7 DEF SpuriousWakeup
  <2>2. Decoded \subseteq Decoded'
    BY <2>1, OthersDecode, Workers
  <2> QED BY <1>0, <1>1, <2>1, <2>2
<1>8. ASSUME NEW w \in Decoders, Decodes(w) \/ DecodingFails(w)
      PROVE  n \in InFlight' \cup given_up'
  <2> DEFINE r == worker[w].request
  <2>1. /\ UNCHANGED <<status, todo>> /\ worker[w].at = "decoding"
        /\ worker' = [worker EXCEPT ![w] = Awake]
    BY <1>8 DEF Decodes, DecodingFails
  <2>2. r \in Requests
    BY <2>1, DecoderHasRequest
  <2>3. Decoded \subseteq Decoded' \cup {r.name}
    BY <2>1, OthersDecode
  <2>4. r.name \in NamesOf(ready') \cup given_up' /\ NamesOf(ready) \subseteq NamesOf(ready')
        /\ given_up \subseteq given_up'
    BY <1>0, <1>8, <2>2, NamesOfEnqueued DEF Decodes, DecodingFails
  <2> QED BY <1>0, <1>1, <2>1, <2>3, <2>4
<1>9. CASE Signal
  <2>1. UNCHANGED <<status, todo, ready, given_up>>
    BY <1>9 DEF Signal
  <2>2. Decoded \subseteq Decoded'
    <3>1. CASE UNCHANGED worker
      BY <3>1 DEF Decoded
    <3>2. CASE \E w \in Decoders : worker[w] = Asleep /\ worker' = [worker EXCEPT ![w] = Awake]
      BY <3>2, OthersDecode, Workers
    <3> QED BY <1>9, <3>1, <3>2 DEF Signal
  <2> QED BY <1>0, <1>1, <2>1, <2>2
<1>10. CASE (\E f \in Files : LoadKnown(f) \/ Expire(f)) \/ UNCHANGED loaderVars
  <2>1. UNCHANGED <<status, todo, ready, worker, given_up>>
    BY <1>10 DEF LoadKnown, Expire, loaderVars
  <2>2. InFlight' = InFlight
    BY <2>1 DEF InFlight
  <2> QED BY <1>1, <2>1, <2>2
<1> QED
  BY <1>3, <1>4, <1>5, <1>6, <1>7, <1>8, <1>9, <1>10 DEF LoaderNext

(* A pending texture has its request on its way, unless the request found a   *)
(* queue full or its file was bad.                                            *)
THEOREM PendingComes == LoaderSpec => []PendingIsComing
<1>1. LoaderInit => PendingIsComing
  BY DEF LoaderInit, PendingIsComing
<1> QED BY <1>1, PendingNext, LoaderTypes, PTL DEF LoaderSpec

-----------------------------------------------------------------------------
(* The callbacks of scripts.                                                  *)
LEMMA LuaConstants == MaxTime \in Nat /\ NoItem \notin Items
  BY LuaAssumption

LEMMA MinOf ==
    ASSUME NEW S, S \subseteq Nat, S # {}
    PROVE  Min(S) \in S /\ \A n \in S : Min(S) <= n
  BY LeastOf DEF Min

-----------------------------------------------------------------------------
(* What lists have in them.                                                   *)

LEMMA Entries ==
    ASSUME NEW S, NEW q \in Seq(S)
    PROVE  /\ Len(q) \in Nat /\ DOMAIN q = 1 .. Len(q)
           /\ \A k \in 1 .. Len(q) : q[k] \in S /\ q[k] \in ToSet(q)
           /\ ToSet(q) = {q[k] : k \in 1 .. Len(q)}
           /\ ToSet(q) \subseteq S
<1>1. Len(q) \in Nat /\ DOMAIN q = 1 .. Len(q) /\ \A k \in 1 .. Len(q) : q[k] \in S
  BY LenProperties, ElementOfSeq
<1> QED BY <1>1 DEF ToSet

PutFirst(e, q) == <<e>> \o q

LEMMA EntriesOfFirst ==
    ASSUME NEW S, NEW e \in S, NEW q \in Seq(S), NEW r, r = PutFirst(e, q)
    PROVE  r \in Seq(S) /\ ToSet(r) = {e} \cup ToSet(q)
<1> USE DEF PutFirst
<1>1. /\ r \in Seq(S) /\ Len(r) = 1 + Len(q)
      /\ \A k \in 1 .. 1 + Len(q) : r[k] = IF k <= 1 THEN e ELSE q[k - 1]
  <2>1. <<e>> \in Seq(S) /\ Len(<<e>>) = 1 /\ <<e>>[1] = e
    OBVIOUS
  <2>2. /\ r \in Seq(S) /\ Len(r) = Len(<<e>>) + Len(q)
        /\ \A k \in 1 .. Len(<<e>>) + Len(q) :
              r[k] = IF k <= Len(<<e>>) THEN <<e>>[k] ELSE q[k - Len(<<e>>)]
    BY <2>1, ConcatProperties, Zenon
  <2>3. \A k \in 1 .. 1 + Len(q) : k <= 1 => k = 1
    BY Entries
  <2> QED BY <2>1, <2>2, <2>3
<1>2. Len(q) \in Nat /\ ToSet(q) = {q[k] : k \in 1 .. Len(q)}
  BY Entries
<1>6. ToSet(r) = {r[k] : k \in 1 .. 1 + Len(q)}
  <2>1. r \in Seq(S) /\ Len(r) = 1 + Len(q)
    BY <1>1
  <2>2. DOMAIN r = 1 .. 1 + Len(q)
    BY <2>1, LenProperties
  <2> QED BY <2>2 DEF ToSet
<1>3. ASSUME NEW x \in ToSet(r) PROVE x \in {e} \cup ToSet(q)
  <2>1. PICK k \in 1 .. 1 + Len(q) : x = r[k]
    BY <1>6
  <2>2. CASE k = 1
    BY <1>1, <1>2, <2>1, <2>2
  <2>3. CASE k # 1
    <3>1. k - 1 \in 1 .. Len(q) /\ ~(k <= 1)
      BY <1>2, <2>1, <2>3
    <3>2. x = q[k - 1]
      BY <1>1, <2>1, <3>1
    <3> QED BY <1>2, <3>1, <3>2
  <2> QED BY <2>2, <2>3
<1>4. e \in ToSet(r)
  <2>1. 1 \in 1 .. 1 + Len(q) /\ r[1] = e
    BY <1>1, <1>2
  <2> QED BY <1>6, <2>1
<1>5. ASSUME NEW x \in ToSet(q) PROVE x \in ToSet(r)
  <2>1. PICK k \in 1 .. Len(q) : x = q[k]
    BY <1>2
  <2>2. k + 1 \in 1 .. 1 + Len(q) /\ ~(k + 1 <= 1) /\ k + 1 - 1 = k
    BY <1>2, <2>1
  <2>3. r[k + 1] = x
    BY <1>1, <2>1, <2>2
  <2> QED BY <1>6, <2>2, <2>3
<1> QED BY <1>1, <1>3, <1>4, <1>5

LEMMA EntriesOfTail ==
    ASSUME NEW S, NEW q \in Seq(S), q # << >>
    PROVE  /\ Head(q) \in S /\ Tail(q) \in Seq(S)
           /\ ToSet(q) = {Head(q)} \cup ToSet(Tail(q))
<1>1. /\ Head(q) \in S /\ Head(q) = q[1] /\ Tail(q) \in Seq(S) /\ Len(Tail(q)) = Len(q) - 1
      /\ \A k \in 1 .. Len(q) - 1 : Tail(q)[k] = q[k + 1]
  BY HeadTailProperties
<1>2. Len(q) \in Nat /\ Len(q) # 0 /\ ToSet(q) = {q[k] : k \in 1 .. Len(q)}
  BY Entries, EmptySeq
<1>6. ToSet(Tail(q)) = {Tail(q)[k] : k \in 1 .. Len(q) - 1}
  <2>1. Tail(q) \in Seq(S) /\ Len(Tail(q)) = Len(q) - 1
    BY <1>1
  <2>2. DOMAIN Tail(q) = 1 .. Len(q) - 1
    BY <2>1, LenProperties
  <2> QED BY <2>2 DEF ToSet
<1>3. ASSUME NEW x \in ToSet(q) PROVE x \in {Head(q)} \cup ToSet(Tail(q))
  <2>1. PICK k \in 1 .. Len(q) : x = q[k]
    BY <1>2
  <2>2. CASE k = 1
    BY <1>1, <2>1, <2>2
  <2>3. CASE k # 1
    <3>1. k - 1 \in 1 .. Len(q) - 1 /\ k - 1 + 1 = k
      BY <1>2, <2>1, <2>3
    <3>2. Tail(q)[k - 1] = x
      BY <1>1, <2>1, <3>1
    <3> QED BY <1>6, <3>1, <3>2
  <2> QED BY <2>2, <2>3
<1>4. Head(q) \in ToSet(q)
  <2>1. 1 \in 1 .. Len(q)
    BY <1>2
  <2> QED BY <1>1, <1>2, <2>1
<1>5. ASSUME NEW x \in ToSet(Tail(q)) PROVE x \in ToSet(q)
  <2>1. PICK k \in 1 .. Len(q) - 1 : x = Tail(q)[k]
    BY <1>6
  <2>2. k + 1 \in 1 .. Len(q) /\ x = q[k + 1]
    BY <1>1, <1>2, <2>1
  <2> QED BY <1>2, <2>2
<1> QED BY <1>1, <1>3, <1>4, <1>5

LEMMA EntriesOfLast ==
    ASSUME NEW S, NEW e \in S, NEW q \in Seq(S), NEW r, r = Append(q, e)
    PROVE  r \in Seq(S) /\ ToSet(r) = ToSet(q) \cup {e}
<1> DEFINE n == Len(q)
<1>1. n \in Nat /\ ToSet(q) = {q[k] : k \in 1 .. n}
  BY Entries
<1>2. r \in Seq(S) /\ Len(r) = n + 1 /\ r[n + 1] = e /\ \A k \in 1 .. n : r[k] = q[k]
  BY AppendProperties
<1> HIDE DEF n
<1>3. ToSet(r) = {r[k] : k \in 1 .. n + 1}
  <2>1. DOMAIN r = 1 .. n + 1
    BY <1>2, LenProperties
  <2> QED BY <2>1 DEF ToSet
<1>4. ASSUME NEW x \in ToSet(r) PROVE x \in ToSet(q) \cup {e}
  <2>1. PICK k \in 1 .. n + 1 : x = r[k]
    BY <1>3
  <2>2. k \in 1 .. n \/ k = n + 1
    BY <1>1
  <2> QED BY <1>1, <1>2, <2>1, <2>2
<1>5. ASSUME NEW x \in ToSet(q) PROVE x \in ToSet(r)
  <2>1. PICK k \in 1 .. n : x = q[k]
    BY <1>1
  <2>2. k \in 1 .. n + 1
    BY <1>1
  <2> QED BY <1>2, <1>3, <2>1, <2>2
<1>6. e \in ToSet(r)
  <2>1. n + 1 \in 1 .. n + 1
    BY <1>1
  <2> QED BY <1>2, <1>3, <2>1
<1> QED BY <1>2, <1>4, <1>5, <1>6

(* A list is cut in two.                                                      *)
Cut(S, q, k, a, b) ==
    /\ a \in Seq(S) /\ Len(a) = k /\ \A j \in 1 .. k : a[j] = q[j]
    /\ b \in Seq(S) /\ Len(b) = Len(q) - k /\ \A j \in 1 .. Len(q) - k : b[j] = q[k + j]
    /\ ToSet(q) = ToSet(a) \cup ToSet(b)

LEMMA EntriesOfParts ==
    ASSUME NEW S, NEW q \in Seq(S), NEW k \in 0 .. Len(q),
           NEW a, a = SubSeq(q, 1, k), NEW b, b = SubSeq(q, k + 1, Len(q))
    PROVE  Cut(S, q, k, a, b)
<1> DEFINE n == Len(q)
           m == k + 1
<1>1. n \in Nat /\ k \in Nat /\ k <= n /\ m = k + 1 /\ m \in Nat /\ \A j \in 1 .. n : q[j] \in S
  BY Entries
<1>2. \A j \in m .. n : q[j] \in S
  BY <1>1
<1>3. b = SubSeq(q, m, n)
  OBVIOUS
<1> HIDE DEF m, n
<1>4. a \in Seq(S) /\ Len(a) = k /\ \A j \in 1 .. k : a[j] = q[j]
  <2>1. \A j \in 1 .. k : q[j] \in S
    BY <1>1
  <2>2. /\ a \in Seq(S) /\ Len(a) = IF 1 <= k THEN k - 1 + 1 ELSE 0
        /\ \A j \in 1 .. k - 1 + 1 : a[j] = q[1 + j - 1]
    BY <1>1, <2>1, SubSeqProperties
  <2> QED BY <1>1, <2>2
<1>5. b \in Seq(S) /\ Len(b) = n - k /\ \A j \in 1 .. n - k : b[j] = q[k + j]
  <2>1. /\ b \in Seq(S) /\ Len(b) = IF m <= n THEN n - m + 1 ELSE 0
        /\ \A j \in 1 .. n - m + 1 : b[j] = q[m + j - 1]
    BY <1>1, <1>2, <1>3, SubSeqProperties
  <2>2. n - m + 1 = n - k /\ (m <= n \/ n - k = 0) /\ \A j \in 1 .. n - k : m + j - 1 = k + j
    BY <1>1
  <2> QED BY <2>1, <2>2
<1>8. ToSet(q) = {q[j] : j \in 1 .. n}
  BY Entries DEF n
<1>9. ToSet(a) = {a[j] : j \in 1 .. k}
  <2>1. DOMAIN a = 1 .. k
    BY <1>4, LenProperties
  <2> QED BY <2>1 DEF ToSet
<1>10. ToSet(b) = {b[j] : j \in 1 .. n - k}
  <2>1. DOMAIN b = 1 .. n - k
    BY <1>5, LenProperties
  <2> QED BY <2>1 DEF ToSet
<1>6. ASSUME NEW x \in ToSet(q) PROVE x \in ToSet(a) \cup ToSet(b)
  <2>1. PICK j \in 1 .. n : x = q[j]
    BY <1>8
  <2>2. CASE j <= k
    <3>1. j \in 1 .. k
      BY <1>1, <2>1, <2>2
    <3> QED BY <1>4, <1>9, <2>1, <3>1
  <2>3. CASE ~(j <= k)
    <3>1. j - k \in 1 .. n - k /\ k + (j - k) = j
      BY <1>1, <2>1, <2>3
    <3>2. b[j - k] = x
      BY <1>5, <2>1, <3>1
    <3> QED BY <1>10, <3>1, <3>2
  <2> QED BY <2>2, <2>3
<1>7. ASSUME NEW x \in ToSet(a) \cup ToSet(b) PROVE x \in ToSet(q)
  <2>1. CASE x \in ToSet(a)
    <3>1. PICK j \in 1 .. k : x = a[j]
      BY <1>9, <2>1
    <3>2. j \in 1 .. n /\ x = q[j]
      BY <1>1, <1>4, <3>1
    <3> QED BY <1>8, <3>2
  <2>2. CASE x \in ToSet(b)
    <3>1. PICK j \in 1 .. n - k : x = b[j]
      BY <1>10, <2>2
    <3>2. k + j \in 1 .. n /\ x = q[k + j]
      BY <1>1, <1>5, <3>1
    <3> QED BY <1>8, <3>2
  <2> QED BY <1>7, <2>1, <2>2
<1> QED BY <1>4, <1>5, <1>6, <1>7 DEF n, Cut

-----------------------------------------------------------------------------
(* The list of timers.                                                        *)

TimersOf == [id : Items, at : 0 .. MaxTime + 2]
InOrder(q) == \A j, k \in 1 .. Len(q) : j < k => q[j].at <= q[k].at

(* register_lua_timer_callback puts a timer where it belongs.                 *)
LEMMA InsertedInOrder ==
    ASSUME timers \in Seq(TimersOf), InOrder(timers), NEW e \in TimersOf,
           NEW r, r = Inserted(e)
    PROVE  r \in Seq(TimersOf) /\ InOrder(r) /\ ToSet(r) = ToSet(timers) \cup {e}
<1> DEFINE n == Len(timers)
           after == {k \in DOMAIN timers : timers[k].at > e.at}
           m == (IF after = {} THEN n + 1 ELSE Min(after)) - 1
<1>1. /\ n \in Nat /\ DOMAIN timers = 1 .. n /\ e.at \in Nat
      /\ \A k \in 1 .. n : timers[k] \in TimersOf /\ timers[k].at \in Nat
  <2>1. \A t \in TimersOf : t.at \in Nat
    BY LuaConstants DEF TimersOf
  <2> QED BY <2>1, Entries
<1>2. /\ m \in 0 .. n
      /\ \A k \in 1 .. m : timers[k].at <= e.at
      /\ m < n => timers[m + 1].at > e.at
  <2>1. CASE after = {}
    <3>1. m = n
      BY <1>1, <2>1
    <3> QED BY <1>1, <2>1, <3>1
  <2>2. CASE after # {}
    <3>1. after \subseteq Nat /\ after \subseteq 1 .. n
      BY <1>1
    <3> HIDE DEF after
    <3>2. Min(after) \in after /\ \A k \in after : Min(after) <= k
      BY <2>2, <3>1, MinOf
    <3>3. m = Min(after) - 1 /\ Min(after) \in 1 .. n
      BY <2>2, <3>1, <3>2
    <3>4. \A k \in 1 .. m : k \in 1 .. n /\ ~(Min(after) <= k)
      BY <1>1, <3>3
    <3>5. \A k \in 1 .. m : ~(timers[k].at > e.at)
      BY <1>1, <3>2, <3>4 DEF after
    <3>6. timers[m + 1].at > e.at
      BY <3>2, <3>3 DEF after
    <3>7. \A k \in 1 .. m : timers[k].at <= e.at
      BY <1>1, <3>4, <3>5
    <3> QED BY <1>1, <3>3, <3>6, <3>7
  <2> QED BY <2>1, <2>2
<1>3. r = (SubSeq(timers, 1, m) \o <<e>>) \o SubSeq(timers, m + 1, n)
  <2> DEFINE k == IF after = {} THEN n + 1 ELSE Min(after)
  <2>1. r = (SubSeq(timers, 1, k - 1) \o <<e>>) \o SubSeq(timers, k, n)
    BY DEF Inserted, InsertAt
  <2>2. k - 1 = m /\ k \in Int
    <3>1. m \in Int
      BY <1>2
    <3>2. CASE after = {}
      BY <1>1, <3>2
    <3>3. CASE after # {}
      <4>1. after \subseteq Nat
        BY <1>1
      <4>2. Min(after) \in Nat
        BY <3>3, <4>1, MinOf
      <4> QED BY <3>3, <4>2
    <3> QED BY <3>2, <3>3
  <2>3. k = m + 1
    <3> HIDE DEF k, m
    <3> QED BY <2>2, <1>2
  <2> HIDE DEF k, m
  <2> QED BY <2>1, <2>2, <2>3
<1> HIDE DEF m, n, after
<1> DEFINE a == SubSeq(timers, 1, m)
           b == SubSeq(timers, m + 1, n)
<1>4. /\ a \in Seq(TimersOf) /\ Len(a) = m /\ \A j \in 1 .. m : a[j] = timers[j]
      /\ b \in Seq(TimersOf) /\ Len(b) = n - m /\ \A j \in 1 .. n - m : b[j] = timers[m + j]
      /\ ToSet(timers) = ToSet(a) \cup ToSet(b)
  <2>1. m \in 0 .. Len(timers) /\ a = SubSeq(timers, 1, m) /\ b = SubSeq(timers, m + 1, Len(timers))
    BY <1>2 DEF n
  <2> HIDE DEF a, b
  <2>2. Cut(TimersOf, timers, m, a, b)
    BY <2>1, EntriesOfParts
  <2> QED BY <2>2 DEF n, Cut
<1> DEFINE c == a \o <<e>>
<1>5. c = Append(a, e)
  BY <1>4
<1>6. r = c \o b
  BY <1>3
<1> HIDE DEF a, b, c
<1>7. c \in Seq(TimersOf) /\ Len(c) = m + 1 /\ c[m + 1] = e /\ \A j \in 1 .. m : c[j] = timers[j]
  BY <1>4, <1>5, AppendProperties
<1>8. /\ r \in Seq(TimersOf) /\ Len(r) = n + 1
      /\ \A j \in 1 .. n + 1 : r[j] = IF j <= m THEN timers[j] ELSE IF j = m + 1 THEN e ELSE timers[j - 1]
  <2>1. /\ r \in Seq(TimersOf) /\ Len(r) = Len(c) + Len(b)
        /\ \A j \in 1 .. Len(c) + Len(b) : r[j] = IF j <= Len(c) THEN c[j] ELSE b[j - Len(c)]
    <3>1. b \in Seq(TimersOf) /\ c \in Seq(TimersOf)
      BY <1>4, <1>7
    <3> QED BY <1>6, <3>1, ConcatProperties
  <2>2. Len(c) + Len(b) = n + 1
    BY <1>1, <1>2, <1>4, <1>7
  <2>3. ASSUME NEW j \in 1 .. n + 1
        PROVE  r[j] = IF j <= m THEN timers[j] ELSE IF j = m + 1 THEN e ELSE timers[j - 1]
    <3>1. CASE j <= m + 1
      <4>1. r[j] = c[j]
        BY <1>7, <2>1, <2>2, <3>1
      <4>2. j \in 1 .. m \/ j = m + 1
        BY <1>2, <3>1
      <4> QED BY <1>2, <1>7, <4>1, <4>2
    <3>2. CASE ~(j <= m + 1)
      <4>1. j - (m + 1) \in 1 .. n - m /\ m + (j - (m + 1)) = j - 1 /\ ~(j <= m) /\ j # m + 1
        BY <1>1, <1>2, <3>2
      <4>2. r[j] = b[j - (m + 1)]
        BY <1>7, <2>1, <2>2, <3>2
      <4> QED BY <1>4, <4>1, <4>2
    <3> QED BY <3>1, <3>2
  <2> QED BY <2>1, <2>2, <2>3
<1>9. InOrder(r)
  <2> SUFFICES ASSUME NEW j \in 1 .. n + 1, NEW k \in 1 .. n + 1, j < k
               PROVE  r[j].at <= r[k].at
    BY <1>8 DEF InOrder
  <2>1. \A i, l \in 1 .. n : i < l => timers[i].at <= timers[l].at
    BY DEF InOrder, n
  <2>2. \A i \in m + 1 .. n : timers[i].at > e.at
    <3> SUFFICES ASSUME NEW i \in m + 1 .. n PROVE timers[i].at > e.at
      OBVIOUS
    <3>1. m < n /\ m + 1 \in 1 .. n /\ i \in 1 .. n /\ (i = m + 1 \/ m + 1 < i)
      BY <1>1, <1>2
    <3> QED BY <1>1, <1>2, <2>1, <3>1
  <2>3. CASE k <= m
    BY <1>1, <1>2, <1>8, <2>1, <2>3
  <2>4. CASE k = m + 1
    BY <1>1, <1>2, <1>8, <2>4
  <2>5. CASE m + 1 < k
    <3>1. k - 1 \in m + 1 .. n /\ k - 1 \in 1 .. n /\ ~(k <= m) /\ k # m + 1
      BY <1>1, <1>2, <2>5
    <3>2. r[k] = timers[k - 1] /\ timers[k - 1].at > e.at
      BY <1>8, <2>2, <3>1
    <3>3. CASE j <= m
      <4>1. r[j] = timers[j] /\ j \in 1 .. m
        BY <1>2, <1>8, <3>3
      <4> QED BY <1>1, <1>2, <3>1, <3>2, <4>1
    <3>4. CASE j = m + 1
      BY <1>1, <1>2, <1>8, <3>1, <3>2, <3>4
    <3>5. CASE m + 1 < j
      <4>1. r[j] = timers[j - 1] /\ j - 1 \in 1 .. n /\ j - 1 < k - 1
        BY <1>1, <1>2, <1>8, <3>5
      <4> QED BY <2>1, <3>1, <3>2, <4>1
    <3> QED BY <1>2, <3>3, <3>4, <3>5
  <2> QED BY <1>2, <2>3, <2>4, <2>5
<1>10. ToSet(r) = ToSet(timers) \cup {e}
  <2>1. DOMAIN r = 1 .. n + 1
    BY <1>8, LenProperties
  <2>2. ASSUME NEW x \in ToSet(r) PROVE x \in ToSet(timers) \cup {e}
    <3>1. PICK j \in 1 .. n + 1 : x = r[j]
      BY <2>1 DEF ToSet
    <3>2. \/ x = e
          \/ \E i \in 1 .. n : x = timers[i]
      <4>1. CASE j <= m
        BY <1>1, <1>2, <1>8, <3>1, <4>1
      <4>2. CASE j = m + 1
        BY <1>2, <1>8, <3>1, <4>2
      <4>3. CASE ~(j <= m) /\ j # m + 1
        <5>1. j - 1 \in 1 .. n /\ x = timers[j - 1]
          BY <1>1, <1>2, <1>8, <3>1, <4>3
        <5> QED BY <5>1
      <4> QED BY <4>1, <4>2, <4>3
    <3> QED BY <1>1, <3>2 DEF ToSet
  <2>3. ASSUME NEW x \in ToSet(timers) PROVE x \in ToSet(r)
    <3>1. PICK i \in 1 .. n : x = timers[i]
      BY <1>1 DEF ToSet
    <3>2. CASE i <= m
      <4>1. i \in 1 .. n + 1 /\ r[i] = x
        BY <1>1, <1>2, <1>8, <3>1, <3>2
      <4> QED BY <2>1, <4>1 DEF ToSet
    <3>3. CASE ~(i <= m)
      <4>1. i + 1 \in 1 .. n + 1 /\ ~(i + 1 <= m) /\ i + 1 # m + 1 /\ i + 1 - 1 = i
        BY <1>1, <1>2, <3>1, <3>3
      <4>2. r[i + 1] = x
        BY <1>8, <3>1, <4>1
      <4> QED BY <2>1, <4>1, <4>2 DEF ToSet
    <3> QED BY <3>2, <3>3
  <2>4. e \in ToSet(r)
    <3>1. m + 1 \in 1 .. n + 1 /\ r[m + 1] = e
      BY <1>1, <1>2, <1>8
    <3> QED BY <2>1, <3>1 DEF ToSet
  <2> QED BY <2>2, <2>3, <2>4
<1> QED BY <1>8, <1>9, <1>10

(* fire_lua_timers takes the timers that are due off the front of the list:   *)
(* it leaves none behind, and calls all it takes.                             *)
LEMMA TimersTaken ==
    ASSUME timers \in Seq(TimersOf), InOrder(timers), time \in Nat, TakeTimers
    PROVE  /\ timers' \in Seq(TimersOf) /\ InOrder(timers)'
           /\ \A t \in ToSet(timers') : t.at > time
           /\ ToSet(timers') \subseteq ToSet(timers)
           /\ batch' \in Seq(Items)
           /\ {t.id : t \in ToSet(timers)} \subseteq {t.id : t \in ToSet(timers')} \cup ToSet(batch')
<1> DEFINE len == Len(timers)
           K == {k \in DOMAIN timers : \A j \in 1 .. k : timers[j].at <= time}
           n == Cardinality(K)
<1>1. /\ len \in Nat /\ DOMAIN timers = 1 .. len
      /\ \A k \in 1 .. len : timers[k] \in TimersOf /\ timers[k].at \in Nat /\ timers[k].id \in Items
  <2>1. \A t \in TimersOf : t.at \in Nat /\ t.id \in Items
    BY LuaConstants DEF TimersOf
  <2> QED BY <2>1, Entries
<1>2. n \in 0 .. len /\ \A k \in n + 1 .. len : timers[k].at > time
  <2> DEFINE Late == {k \in 1 .. len + 1 : k = len + 1 \/ timers[k].at > time}
  <2>1. PICK m \in Late : \A k \in Late : m <= k
    <3>1. Late \subseteq Nat /\ len + 1 \in Late
      BY <1>1
    <3> HIDE DEF Late
    <3> QED BY <3>1, LeastOf
  <2>2. m \in 1 .. len + 1 /\ (m = len + 1 \/ timers[m].at > time)
    BY <2>1
  <2>3. \A k \in 1 .. m - 1 : timers[k].at <= time
    <3> SUFFICES ASSUME NEW k \in 1 .. m - 1 PROVE timers[k].at <= time
      OBVIOUS
    <3>1. k \in 1 .. len /\ ~(m <= k) /\ k \in 1 .. len + 1
      BY <1>1, <2>2
    <3>2. ~(timers[k].at > time)
      BY <2>1, <3>1
    <3> QED BY <1>1, <3>1, <3>2
  <2>4. K = 1 .. m - 1
    <3>1. ASSUME NEW k \in K PROVE k \in 1 .. m - 1
      <4>1. k \in 1 .. len /\ \A j \in 1 .. k : timers[j].at <= time
        BY <1>1
      <4>2. ~(m <= k)
        <5> SUFFICES ASSUME m <= k PROVE FALSE
          OBVIOUS
        <5>1. m \in 1 .. k /\ m \in 1 .. len
          BY <1>1, <2>2, <4>1
        <5> QED BY <1>1, <2>2, <4>1, <5>1
      <4> QED BY <2>2, <4>1, <4>2
    <3>2. ASSUME NEW k \in 1 .. m - 1 PROVE k \in K
      <4>1. k \in 1 .. len /\ \A j \in 1 .. k : j \in 1 .. m - 1
        BY <1>1, <2>2
      <4> QED BY <1>1, <2>3, <4>1
    <3> QED BY <3>1, <3>2
  <2>5. n = m - 1
    <3>1. m - 1 \in Int /\ 1 \in Int /\ Cardinality(1 .. m - 1) = IF 1 > m - 1 THEN 0 ELSE m - 1 - 1 + 1
      BY <2>2, FS_Interval
    <3> HIDE DEF K
    <3> QED BY <2>2, <2>4, <3>1
  <2>6. \A k \in m .. len : timers[k].at > time
    <3> SUFFICES ASSUME NEW k \in m .. len PROVE timers[k].at > time
      OBVIOUS
    <3>1. m \in 1 .. len /\ k \in 1 .. len /\ m <= k /\ timers[m].at > time
      BY <1>1, <2>2
    <3>2. timers[m].at <= timers[k].at
      <4>1. CASE m = k
        BY <1>1, <3>1, <4>1
      <4>2. CASE m # k
        BY <3>1, <4>2 DEF InOrder
      <4> QED BY <4>1, <4>2
    <3> QED BY <1>1, <3>1, <3>2
  <2> HIDE DEF n
  <2> QED BY <1>1, <2>2, <2>5, <2>6
<1>3. batch' = Reverse([k \in 1 .. n |-> timers[k].id]) /\ timers' = SubSeq(timers, n + 1, Len(timers))
  BY DEF TakeTimers
<1> HIDE DEF K, n, len
<1> DEFINE a == SubSeq(timers, 1, n)
<1>4. /\ a \in Seq(TimersOf) /\ Len(a) = n /\ \A j \in 1 .. n : a[j] = timers[j]
      /\ timers' \in Seq(TimersOf) /\ Len(timers') = len - n
      /\ \A j \in 1 .. len - n : timers'[j] = timers[n + j]
      /\ ToSet(timers) = ToSet(a) \cup ToSet(timers')
  <2>1. n \in 0 .. Len(timers) /\ a = SubSeq(timers, 1, n)
    BY <1>2 DEF len
  <2> HIDE DEF a
  <2>2. Cut(TimersOf, timers, n, a, timers')
    BY <1>3, <2>1, EntriesOfParts
  <2> QED BY <2>2 DEF len, Cut
<1> HIDE DEF a
<1>5. DOMAIN a = 1 .. n /\ DOMAIN timers' = 1 .. len - n
  BY <1>4, LenProperties
<1>6. InOrder(timers)'
  <2> SUFFICES ASSUME NEW j \in 1 .. len - n, NEW k \in 1 .. len - n, j < k
               PROVE  timers'[j].at <= timers'[k].at
    BY <1>4 DEF InOrder
  <2>1. n + j \in 1 .. len /\ n + k \in 1 .. len /\ n + j < n + k
    BY <1>1, <1>2
  <2> QED BY <1>4, <2>1 DEF InOrder, len
<1>7. ASSUME NEW t \in ToSet(timers') PROVE t.at > time
  <2>1. PICK j \in 1 .. len - n : t = timers'[j]
    BY <1>5 DEF ToSet
  <2>2. n + j \in n + 1 .. len
    BY <1>1, <1>2, <2>1
  <2> QED BY <1>2, <1>4, <2>1, <2>2
<1> DEFINE ofs == [k \in 1 .. n |-> timers[k].id]
<1>8. /\ ofs \in Seq(Items) /\ Len(ofs) = n
  <2>1. n \in Nat /\ \A k \in 1 .. n : timers[k].id \in Items
    BY <1>1, <1>2
  <2> QED BY <2>1
<1>9. batch' = [k \in 1 .. n |-> ofs[n - k + 1]]
  <2>1. batch' = Reverse(ofs)
    BY <1>3
  <2> HIDE DEF ofs
  <2> QED BY <1>8, <2>1 DEF Reverse
<1>10. batch' \in Seq(Items) /\ DOMAIN batch' = 1 .. n
  <2>1. ASSUME NEW k \in 1 .. n PROVE ofs[n - k + 1] \in Items
    <3>1. n - k + 1 \in 1 .. n
      BY <1>2
    <3> HIDE DEF ofs
    <3> QED BY <1>8, <3>1, Entries
  <2>2. n \in Nat
    BY <1>2
  <2> HIDE DEF ofs
  <2> DEFINE v(k) == ofs[n - k + 1]
  <2>3. \A k \in 1 .. n : v(k) \in Items
    BY <2>1
  <2>4. batch' = [k \in 1 .. n |-> v(k)]
    BY <1>9
  <2> HIDE DEF v
  <2> QED BY <2>2, <2>3, <2>4
<1>11. ASSUME NEW t \in ToSet(timers), t \notin ToSet(timers') PROVE t.id \in ToSet(batch')
  <2>1. PICK k \in 1 .. n : t = timers[k]
    <3>1. t \in ToSet(a)
      BY <1>4, <1>11
    <3>2. PICK k \in 1 .. n : t = a[k]
      BY <1>5, <3>1 DEF ToSet
    <3> QED BY <1>4, <3>2
  <2>2. n - k + 1 \in 1 .. n /\ n - (n - k + 1) + 1 = k
    BY <1>2, <2>1
  <2>3. batch'[n - k + 1] = t.id
    BY <1>9, <2>1, <2>2
  <2> QED BY <1>10, <2>2, <2>3 DEF ToSet
<1> QED BY <1>4, <1>6, <1>7, <1>10, <1>11

-----------------------------------------------------------------------------
(* The lists of checks and of commands.                                       *)

LEMMA LargestOf ==
    ASSUME NEW n \in Nat, NEW S, S \subseteq 1 .. n, S # {}
    PROVE  Max(S) \in S
<1> DEFINE R == {n - k : k \in S}
<1>1. PICK m \in R : \A k \in R : m <= k
  <2>1. R \subseteq Nat /\ R # {}
    <3>1. \A k \in S : n - k \in Nat
      OBVIOUS
    <3> QED BY <3>1
  <2> HIDE DEF R
  <2> QED BY <2>1, LeastOf
<1>2. PICK x \in S : m = n - x
  BY <1>1
<1>3. ASSUME NEW k \in S PROVE x >= k
  <2>1. n - k \in R
    OBVIOUS
  <2>2. n - x <= n - k /\ k \in 1 .. n /\ x \in 1 .. n
    BY <1>1, <1>2, <2>1
  <2> QED BY <2>2
<1> QED BY <1>2, <1>3 DEF Max

(* The lists that OnTempList builds of the first n checks.                    *)
PutOnTempList(q, k, near) == IF checks[k] \in near THEN <<checks[k]>> \o q ELSE q
TempLists(g, n, near) ==
    g = [k \in 0 .. n |-> IF k = 0 THEN << >> ELSE PutOnTempList(g[k - 1], k, near)]

LEMMA TempListsExist ==
    ASSUME NEW near
    PROVE  \A n \in Nat : \E g : TempLists(g, n, near)
<1> DEFINE Bad == {n \in Nat : ~\E g : TempLists(g, n, near)}
<1> SUFFICES ASSUME Bad # {} PROVE FALSE
  OBVIOUS
<1>1. PICK m \in Bad : \A n \in Bad : m <= n
  BY LeastOf
<1>2. m \in Nat
  BY <1>1
<1>3. CASE m = 0
  <2> DEFINE g == [k \in 0 .. 0 |-> << >>]
  <2>1. TempLists(g, 0, near)
    BY DEF TempLists
  <2> QED BY <1>1, <1>3, <2>1
<1>4. CASE m # 0
  <2>1. m - 1 \in Nat /\ m - 1 \notin Bad
    BY <1>1, <1>2, <1>4
  <2>2. PICK g : TempLists(g, m - 1, near)
    BY <2>1
  <2> DEFINE h == [k \in 0 .. m |-> IF k = 0 THEN << >> ELSE PutOnTempList(g[k - 1], k, near)]
  <2>3. ASSUME NEW k \in 0 .. m - 1 PROVE h[k] = g[k]
    BY <1>2, <2>2 DEF TempLists
  <2>4. ASSUME NEW k \in 0 .. m, k # 0 PROVE h[k - 1] = g[k - 1]
    <3>1. k - 1 \in 0 .. m - 1
      BY <1>2, <2>4
    <3> QED BY <2>3, <3>1
  <2>5. TempLists(h, m, near)
    <3> DEFINE f == [k \in 0 .. m |-> IF k = 0 THEN << >> ELSE PutOnTempList(h[k - 1], k, near)]
    <3>1. ASSUME NEW k \in 0 .. m PROVE h[k] = f[k]
      BY <2>4
    <3>2. h = f
      <4> HIDE DEF TempLists
      <4> QED BY <3>1
    <3> QED BY <3>2 DEF TempLists
  <2> QED BY <1>1, <2>5
<1> QED BY <1>3, <1>4

LEMMA OnTempListOK ==
    ASSUME checks \in Seq(Items), NEW near
    PROVE  OnTempList(near) \in Seq(Items)
<1> DEFINE n == Len(checks)
<1>1. n \in Nat /\ \A k \in 1 .. n : checks[k] \in Items
  BY Entries
<1>2. PICK g : TempLists(g, n, near) /\ OnTempList(near) = g[n]
  <2> DEFINE g == CHOOSE g : TempLists(g, n, near)
  <2>1. TempLists(g, n, near)
    <3>1. \E f : TempLists(f, n, near)
      BY <1>1, TempListsExist
    <3> QED BY <3>1
  <2>2. OnTempList(near) = g[n]
    BY DEF OnTempList, TempLists, PutOnTempList
  <2> QED BY <2>1, <2>2
<1> DEFINE Bad == {k \in 0 .. n : g[k] \notin Seq(Items)}
<1>3. Bad = {}
  <2> SUFFICES ASSUME Bad # {} PROVE FALSE
    OBVIOUS
  <2>1. PICK m \in Bad : \A k \in Bad : m <= k
    <3>1. Bad \subseteq Nat
      BY <1>1
    <3> HIDE DEF Bad
    <3> QED BY <3>1, LeastOf
  <2>2. m \in 0 .. n /\ g[m] \notin Seq(Items)
    BY <2>1
  <2>3. CASE m = 0
    <3>1. g[0] = << >>
      BY <1>1, <1>2 DEF TempLists
    <3> QED BY <2>2, <2>3, <3>1
  <2>4. CASE m # 0
    <3>1. m - 1 \in 0 .. n /\ ~(m <= m - 1) /\ m \in 1 .. n
      BY <1>1, <2>2, <2>4
    <3>2. g[m - 1] \in Seq(Items)
      BY <2>1, <3>1
    <3>3. g[m] = <<checks[m]>> \o g[m - 1] \/ g[m] = g[m - 1]
      BY <1>2, <2>2, <2>4 DEF TempLists, PutOnTempList
    <3>4. checks[m] \in Items
      BY <1>1, <3>1
    <3> QED BY <2>2, <3>2, <3>3, <3>4, EntriesOfFirst DEF PutFirst
  <2> QED BY <2>3, <2>4
<1> QED BY <1>1, <1>2, <1>3

(* enqueue_lua_command keeps what it does not drop.                           *)
LEMMA ChainedOK ==
    ASSUME commands.list \in Seq(Items), NEW i \in Items, NEW r, r = Chained(i)
    PROVE  /\ r \in Seq(Items) /\ BehindTail \subseteq ToSet(commands.list)
           /\ ToSet(commands.list) \cup {i} \subseteq ToSet(r) \cup BehindTail
<1> DEFINE q == commands.list
           S == {k \in 1 .. Len(q) : q[k] = commands.tail}
           m == TailAt
           a == SubSeq(q, 1, m)
           b == SubSeq(q, m + 1, Len(q))
<1>1. Len(q) \in Nat
  BY Entries
<1> HIDE DEF q
<1>2. m \in 0 .. Len(q)
  <2>1. m = IF S # {} THEN Min(S) ELSE 0
    BY DEF TailAt, SelectInSeq, q
  <2>2. S \subseteq Nat /\ S \subseteq 1 .. Len(q)
    BY <1>1
  <2> HIDE DEF S, m
  <2>3. S # {} => Min(S) \in S
    BY <2>2, MinOf
  <2>4. CASE S = {}
    BY <1>1, <2>1, <2>4
  <2>5. CASE S # {}
    <3>1. m \in 1 .. Len(q)
      BY <2>1, <2>2, <2>3, <2>5
    <3> QED BY <1>1, <3>1
  <2> QED BY <2>4, <2>5
<1>3. r = Append(a, i) /\ BehindTail = ToSet(b)
  BY DEF Chained, BehindTail, q
<1> HIDE DEF m
<1>4. Cut(Items, q, m, a, b)
  BY <1>2, EntriesOfParts DEF q
<1> HIDE DEF a, b
<1>5. a \in Seq(Items) /\ ToSet(q) = ToSet(a) \cup ToSet(b)
  BY <1>4 DEF Cut
<1>6. r \in Seq(Items) /\ ToSet(r) = ToSet(a) \cup {i}
  BY <1>3, <1>5, EntriesOfLast
<1> QED BY <1>3, <1>5, <1>6 DEF q

-----------------------------------------------------------------------------
(* The invariant.  While events are being called, all that were raised before *)
(* are in what is left of the batch; at any other time they are scheduled.    *)
(* Timers are in the batch only while they are being called, and their list   *)
(* is in the order of their fire times.                                       *)

EventsOfTheLoop ==
    /\ stage = "call events" =>
           Pending("event") \ skipped \subseteq ToSet(batch) \cup late \cup raced
    /\ stage \notin {"call events", "undefined"} =>
           Pending("event") \ skipped \subseteq ToSet(schedule) \cup late \cup raced

TimersOfTheLoop ==
    stage \notin {"call timers", "undefined"} =>
        Pending("timer") \subseteq {t.id : t \in ToSet(timers)}

LuaInvariant ==
    /\ LuaTypeOK /\ InOrder(timers)
    /\ EventsAreCalled /\ EventsOfTheLoop
    /\ TimersFireInTime /\ TimersOfTheLoop
    /\ CommandsAreRun

LEMMA LuaInvariantInit == LuaInit => LuaInvariant
<1> SUFFICES ASSUME LuaInit PROVE LuaInvariant
  OBVIOUS
<1>1. \A k \in {"event", "timer", "command"} : Pending(k) = {}
  BY DEF LuaInit, Pending
<1>2. LuaTypeOK
  BY LuaConstants DEF LuaInit, LuaTypeOK, Stages
<1>3. ToSet(timers) = {} /\ InOrder(timers)
  <2>1. timers = << >> /\ Len(<< >>) = 0 /\ << >> \in Seq(TimersOf)
    BY DEF LuaInit
  <2>2. 1 .. 0 = {}
    OBVIOUS
  <2> QED BY <2>1, <2>2 DEF InOrder, ToSet
<1> QED BY <1>1, <1>2, <1>3
    DEF LuaInvariant, EventsAreCalled, EventsOfTheLoop, TimersFireInTime, TimersOfTheLoop, CommandsAreRun

LEMMA PendingMade ==
    ASSUME LuaTypeOK, NEW S \in SUBSET Items, NEW k \in {"event", "timer", "check", "command"},
           Made(S, k)
    PROVE  /\ Pending(k)' \subseteq Pending(k) \cup S
           /\ \A l \in {"event", "timer", "check", "command"} \ {k} : Pending(l)' \subseteq Pending(l)
  BY DEF Pending, Made, LuaTypeOK

LEMMA PendingLeft ==
    ASSUME kind' = kind, \A i \in Items : fate'[i] = "pending" => fate[i] = "pending"
    PROVE  \A k : Pending(k)' \subseteq Pending(k)
  BY DEF Pending

LEMMA EventsStay ==
    ASSUME EventsAreCalled, EventsOfTheLoop, Pending("event")' \subseteq Pending("event"),
           UNCHANGED <<schedule, batch, late, skipped, raced>>, stage' \in {stage, "undefined"}
    PROVE  EventsAreCalled' /\ EventsOfTheLoop'
  BY DEF EventsAreCalled, EventsOfTheLoop

LEMMA TimersStay ==
    ASSUME TimersFireInTime, TimersOfTheLoop, Pending("timer")' \subseteq Pending("timer"),
           UNCHANGED <<timers, batch, time>>, stage' \in {stage, "undefined"}
    PROVE  TimersFireInTime' /\ TimersOfTheLoop'
  BY DEF TimersFireInTime, TimersOfTheLoop, Defined

LEMMA CommandsStay ==
    ASSUME CommandsAreRun, Pending("command")' \subseteq Pending("command"),
           UNCHANGED commandVars, stage = "undefined" => stage' = "undefined"
    PROVE  CommandsAreRun'
  BY DEF CommandsAreRun, commandVars, Defined

(* Types.                                                                     *)
LEMMA LuaTypeNext ==
    ASSUME LuaTypeOK, InOrder(timers), [LuaNext]_luaVars
    PROVE  LuaTypeOK' /\ InOrder(timers)'
<1>t1. schedule \in Seq(Items) /\ checks \in Seq(Items) /\ batch \in Seq(Items)
  BY Zenon DEF LuaTypeOK
<1>t2. time \in 0 .. MaxTime
  BY Zenon DEF LuaTypeOK
<1>t3. freed \subseteq Items /\ late \subseteq Items /\ skipped \subseteq Items
      /\ raced \subseteq Items /\ cut \subseteq Items
  BY Zenon DEF LuaTypeOK
<1>t4. commands \in [list : Seq(Items), tail : Items \cup {NoItem}]
  BY Zenon DEF LuaTypeOK
<1>t5. menu \in [reading : BOOLEAN, head : Seq(Items)]
  BY Zenon DEF LuaTypeOK
<1>t6. ToSet(schedule) \subseteq Items
  BY <1>t1, Entries
<1>t7. ASSUME NEW S \in SUBSET Items, NEW k \in {"event", "timer", "check", "command"}, Made(S, k)
       PROVE  /\ kind' \in [Items -> {"none", "event", "timer", "check", "command"}]
              /\ fate' \in [Items -> {"none", "pending", "called", "cleared", "gone"}]
  <2>1. /\ kind \in [Items -> {"none", "event", "timer", "check", "command"}]
        /\ fate \in [Items -> {"none", "pending", "called", "cleared", "gone"}]
    BY Zenon DEF LuaTypeOK
  <2> QED BY <1>t7, <2>1 DEF Made
<1>t8. ASSUME NEW i \in Items, MarkLate(i)
       PROVE  late' \subseteq Items
  BY <1>t3, <1>t8 DEF MarkLate
<1> USE DEF LuaTypeOK, Stages, lists, commandVars, raised
<1>000. timers' = timers => InOrder(timers)'
  BY DEF InOrder
<1>00. timers \in Seq(TimersOf)
  BY DEF TimersOf
<1>1. ASSUME NEW i \in Items, NEW others \in SUBSET (Items \ {i}), Raise(i, others)
      PROVE  LuaTypeOK' /\ InOrder(timers)'
  <2> HIDE DEF LuaTypeOK
  <2>1. schedule' \in Seq(Items)
    BY <1>1, <1>t1, EntriesOfFirst DEF Raise, PutFirst
  <2>2. late' \subseteq Items /\ skipped' \subseteq Items
    BY <1>1, <1>t3, <1>t8 DEF Raise
  <2>3. /\ Made({i} \cup others, "event")
        /\ UNCHANGED <<timers, checks, time, stage, batch, calling, menu, freed, raced, commands, cut>>
    BY <1>1 DEF Raise
  <2>4. /\ kind' \in [Items -> {"none", "event", "timer", "check", "command"}]
        /\ fate' \in [Items -> {"none", "pending", "called", "cleared", "gone"}]
    BY <2>3, <1>t7
  <2> QED BY <2>1, <2>2, <2>3, <2>4, <1>000 DEF LuaTypeOK
<1>2. ASSUME NEW i \in Items, MenuWrites(i) PROVE LuaTypeOK' /\ InOrder(timers)'
  <2> HIDE DEF LuaTypeOK
  <2>1. schedule' \in Seq(Items) /\ menu' \in [reading : BOOLEAN, head : Seq(Items)]
    BY <1>2, <1>t5, EntriesOfFirst DEF MenuWrites, PutFirst
  <2>2. late' \subseteq Items /\ raced' \subseteq Items
    BY <1>2, <1>t3, <1>t6, <1>t8 DEF MenuWrites
  <2>3. Made({i}, "event") /\ UNCHANGED <<timers, checks, time, stage, batch, calling, freed, skipped, commands, cut>>
    BY <1>2 DEF MenuWrites
  <2>4. /\ kind' \in [Items -> {"none", "event", "timer", "check", "command"}]
        /\ fate' \in [Items -> {"none", "pending", "called", "cleared", "gone"}]
    BY <2>3, <1>t7
  <2> QED BY <2>1, <2>2, <2>3, <2>4, <1>000 DEF LuaTypeOK
<1>3. ASSUME NEW i \in Items, RegisterCheck(i) PROVE LuaTypeOK' /\ InOrder(timers)'
  <2> HIDE DEF LuaTypeOK
  <2>1. checks' \in Seq(Items)
    BY <1>3, <1>t1, EntriesOfLast DEF RegisterCheck
  <2>3. Made({i}, "check") /\ UNCHANGED <<schedule, timers, time, stage, batch, calling, menu, freed, commands, cut, late, skipped, raced>>
    BY <1>3 DEF RegisterCheck
  <2>4. /\ kind' \in [Items -> {"none", "event", "timer", "check", "command"}]
        /\ fate' \in [Items -> {"none", "pending", "called", "cleared", "gone"}]
    BY <2>3, <1>t7
  <2> QED BY <2>1, <2>3, <2>4, <1>000 DEF LuaTypeOK
<1>4. ASSUME NEW i \in Items, EnqueueCommand(i) PROVE LuaTypeOK' /\ InOrder(timers)'
  <2>1. Chained(i) \in Seq(Items) /\ BehindTail \subseteq Items
    <3>1. commands.list \in Seq(Items)
      OBVIOUS
    <3>2. Chained(i) \in Seq(Items) /\ BehindTail \subseteq ToSet(commands.list)
      BY <3>1, ChainedOK
    <3> QED BY <3>1, <3>2, Entries
  <2> HIDE DEF LuaTypeOK
  <2>2. /\ commands' \in [list : Seq(Items), tail : Items \cup {NoItem}] /\ cut' \subseteq Items
        /\ stage' = stage \/ stage' = "undefined"
    BY <1>4, <1>t3, <1>t4, <2>1 DEF EnqueueCommand
  <2>3. Made({i}, "command") /\ UNCHANGED <<schedule, timers, checks, time, batch, calling, menu, freed, late, skipped, raced>>
    BY <1>4 DEF EnqueueCommand
  <2>4. /\ kind' \in [Items -> {"none", "event", "timer", "check", "command"}]
        /\ fate' \in [Items -> {"none", "pending", "called", "cleared", "gone"}]
    BY <2>3, <1>t7
  <2> QED BY <2>2, <2>3, <2>4, <1>000 DEF LuaTypeOK
<1>5. ASSUME NEW i \in Items, NEW ticks \in 0 .. 2, RegisterTimer(i, ticks)
      PROVE  LuaTypeOK' /\ InOrder(timers)'
  <2> DEFINE e == [id |-> i, at |-> time + ticks]
  <2>1. e \in TimersOf
    <3> HIDE DEF LuaTypeOK
    <3>1. time + ticks \in 0 .. MaxTime + 2
      BY <1>t2, LuaConstants
    <3> QED BY <3>1 DEF TimersOf
  <2>2. timers' = Inserted(e)
    BY <1>5 DEF RegisterTimer
  <2> HIDE DEF e
  <2>3. timers' \in Seq(TimersOf) /\ InOrder(timers')
    BY <1>00, <2>1, <2>2, InsertedInOrder
  <2>4. timers' \in Seq([id : Items, at : 0 .. MaxTime + 2]) /\ InOrder(timers)'
    BY <2>3 DEF TimersOf, InOrder
  <2> QED BY <1>5, <2>4 DEF RegisterTimer, Made
<1>6. CASE MenuReads
  BY <1>6, <1>000 DEF MenuReads
<1>7. CASE ClearAll
  <2>1. CASE Corrupt
    <3>1. Undefined
      BY <1>7, <2>1 DEF ClearAll
    <3> QED BY <3>1, <1>000 DEF Undefined
  <2>2. CASE ~Corrupt
    <3> HIDE DEF LuaTypeOK
    <3>2. schedule' = << >> /\ timers' = << >> /\ checks' = << >> /\ freed' = freed \cup ToSet(schedule)
      BY <1>7, <2>2 DEF ClearAll
    <3>3. InOrder(timers)'
      <4>1. timers' \in Seq(TimersOf) /\ Len(timers') = 0 /\ 1 .. 0 = {}
        BY <3>2
      <4> QED BY <4>1 DEF InOrder
    <3>4. UNCHANGED <<time, stage, batch, calling, menu, kind, commands, cut, late, skipped, raced>>
      BY <1>7, <2>2 DEF ClearAll
    <3>5. fate' \in [Items -> {"none", "pending", "called", "cleared", "gone"}]
      <4>1. fate \in [Items -> {"none", "pending", "called", "cleared", "gone"}]
        BY Zenon DEF LuaTypeOK
      <4>2. \E C : fate' = [i \in Items |-> IF i \in C /\ fate[i] = "pending" THEN "cleared" ELSE fate[i]]
        BY <1>7, <2>2 DEF ClearAll
      <4> QED BY <4>1, <4>2
    <3>6. freed' \subseteq Items
      BY <1>t3, <1>t6, <3>2
    <3>7. /\ schedule' \in Seq(Items) /\ checks' \in Seq(Items)
          /\ timers' \in Seq([id : Items, at : 0 .. MaxTime + 2])
      BY <3>2
    <3> QED BY <3>3, <3>4, <3>5, <3>6, <3>7 DEF LuaTypeOK
  <2> QED BY <2>1, <2>2
<1>8. CASE Move
  <2>1. time' \in 0 .. MaxTime
    <3> HIDE DEF LuaTypeOK
    <3>1. time < MaxTime /\ time' = time + 1
      BY <1>8 DEF Move
    <3> QED BY <1>t2, <3>1, LuaConstants
  <2> QED BY <1>8, <1>000, <2>1 DEF Move, Leaves
<1>9. CASE TakeTimers
  <2>1. timers' \in Seq([id : Items, at : 0 .. MaxTime + 2]) /\ InOrder(timers)' /\ batch' \in Seq(Items)
    <3> HIDE DEF LuaTypeOK
    <3>1. time \in Nat
      BY <1>t2, LuaConstants
    <3>2. timers' \in Seq(TimersOf) /\ InOrder(timers)' /\ batch' \in Seq(Items)
      BY <1>9, <1>00, <3>1, TimersTaken
    <3> QED BY <3>2 DEF TimersOf
  <2> QED BY <1>9, <2>1 DEF TakeTimers, Leaves
<1>10. CASE BeginEvents
  BY <1>10, <1>000 DEF BeginEvents, Walk, Leaves
<1>11. CASE EndEvents
  <2>1. ToSet(schedule) \subseteq Items
    BY Entries
  <2> QED BY <1>11, <2>1, <1>000 DEF EndEvents, Undefined
<1>12. ASSUME NEW near \in SUBSET ToSet(checks), NEW gone \in SUBSET ToSet(checks), TakeChecks(near, gone)
       PROVE  LuaTypeOK' /\ InOrder(timers)'
  <2> DEFINE taken == {k \in DOMAIN checks : checks[k] \in near \cup gone}
             n == Len(checks)
  <2> HIDE DEF LuaTypeOK
  <2>1. checks' \in Seq(Items)
    <3>1. checks' = IF taken = {} THEN checks ELSE SubSeq(checks, Max(taken) + 1, n)
      BY <1>12 DEF TakeChecks
    <3>2. n \in Nat /\ taken \subseteq 1 .. n /\ \A k \in 1 .. n : checks[k] \in Items
      BY <1>t1, Entries
    <3> HIDE DEF taken, n
    <3>3. CASE taken # {}
      <4> DEFINE m == Max(taken) + 1
      <4>1. m \in Nat /\ m >= 1
        <5>1. Max(taken) \in 1 .. n
          BY <3>2, <3>3, LargestOf
        <5> QED BY <3>2, <5>1
      <4>2. checks' = SubSeq(checks, m, n)
        BY <3>1, <3>3
      <4> HIDE DEF m
      <4>3. \A k \in m .. n : checks[k] \in Items
        BY <3>2, <4>1
      <4> QED BY <3>2, <4>1, <4>2, <4>3, SubSeqProperties
    <3> QED BY <1>t1, <3>1, <3>3
  <2>2. batch' \in Seq(Items)
    BY <1>12, <1>t1, OnTempListOK DEF TakeChecks
  <2>3. fate' \in [Items -> {"none", "pending", "called", "cleared", "gone"}]
    <3>1. fate \in [Items -> {"none", "pending", "called", "cleared", "gone"}]
      BY Zenon DEF LuaTypeOK
    <3> QED BY <1>12, <3>1 DEF TakeChecks
  <2>4. stage' = "call checks" /\ UNCHANGED <<schedule, timers, time, calling, menu, freed, kind, commands, cut, late, skipped, raced>>
    BY <1>12 DEF TakeChecks, Leaves
  <2> QED BY <2>1, <2>2, <2>3, <2>4, <1>000 DEF LuaTypeOK
<1>13. CASE Call
  <2>1. CASE Undefined
    BY <2>1, <1>000 DEF Undefined
  <2>2. CASE Head(batch) \notin freed
    <3>1. Head(batch) \in Items /\ Tail(batch) \in Seq(Items)
      BY <1>13, EntriesOfTail DEF Call
    <3> QED BY <1>13, <2>2, <3>1, <1>000 DEF Call
  <2> QED BY <1>13, <2>1, <2>2 DEF Call
<1>14. CASE RunScript
  <2>1. Head(commands.list) \in Items /\ Tail(commands.list) \in Seq(Items)
    BY <1>14, EntriesOfTail DEF RunScript
  <2>2. commands' = [list |-> Tail(commands.list), tail |-> commands.tail]
    BY <1>14 DEF RunScript
  <2> QED BY <1>14, <2>1, <2>2, <1>000 DEF RunScript
<1>15. CASE Return
  BY <1>15, <1>000 DEF Return
<1>16. CASE Continue
  BY <1>16, <1>000 DEF Continue, Leaves, After
<1>17. CASE UNCHANGED luaVars
  BY <1>17, <1>000 DEF luaVars
<1> QED BY <1>1, <1>2, <1>3, <1>4, <1>5, <1>6, <1>7, <1>8, <1>9, <1>10, <1>11, <1>12, <1>13, <1>14,
           <1>15, <1>16, <1>17 DEF LuaNext

(* Events.                                                                    *)
LEMMA EventsNext ==
    ASSUME LuaTypeOK, EventsAreCalled, EventsOfTheLoop, [LuaNext]_luaVars
    PROVE  EventsAreCalled' /\ EventsOfTheLoop'
<1> USE DEF lists, commandVars, raised
<1>t. schedule \in Seq(Items) /\ batch \in Seq(Items) /\ menu.head \in Seq(Items)
  BY DEF LuaTypeOK
<1>u. ASSUME Undefined PROVE EventsAreCalled' /\ EventsOfTheLoop'
  <2>1. Pending("event")' \subseteq Pending("event")
    BY <1>u, PendingLeft DEF Undefined
  <2> QED BY <1>u, <2>1, EventsStay DEF Undefined
<1>m. ASSUME NEW S \in SUBSET Items, NEW k \in {"timer", "check", "command"}, Made(S, k),
             UNCHANGED <<schedule, batch, late, skipped, raced>>, stage' \in {stage, "undefined"}
      PROVE  EventsAreCalled' /\ EventsOfTheLoop'
  <2>1. Pending("event")' \subseteq Pending("event")
    BY <1>m, PendingMade
  <2> QED BY <1>m, <2>1, EventsStay
<1>1. ASSUME NEW i \in Items, NEW others \in SUBSET (Items \ {i}), Raise(i, others)
      PROVE  EventsAreCalled' /\ EventsOfTheLoop'
  <2>1. Pending("event")' \subseteq Pending("event") \cup {i} \cup others
    BY <1>1, PendingMade DEF Raise
  <2>2. schedule' \in Seq(Items) /\ ToSet(schedule') = {i} \cup ToSet(schedule)
    <3>1. schedule' = PutFirst(i, schedule)
      BY <1>1 DEF Raise, PutFirst
    <3> QED BY <1>t, <3>1, EntriesOfFirst
  <2>3. UNCHANGED <<stage, batch, raced>> /\ late \subseteq late' /\ (stage = "call events" => i \in late')
    BY <1>1 DEF Raise, MarkLate
  <2>4. skipped' = skipped \cup others
    BY <1>1 DEF Raise
  <2> QED BY <2>1, <2>2, <2>3, <2>4 DEF EventsAreCalled, EventsOfTheLoop
<1>2. ASSUME NEW i \in Items, MenuWrites(i) PROVE EventsAreCalled' /\ EventsOfTheLoop'
  <2>1. Pending("event")' \subseteq Pending("event") \cup {i}
    BY <1>2, PendingMade DEF MenuWrites
  <2>2. schedule' \in Seq(Items) /\ ToSet(schedule') = {i} \cup ToSet(menu.head)
    <3>1. schedule' = PutFirst(i, menu.head)
      BY <1>2 DEF MenuWrites, PutFirst
    <3> QED BY <1>t, <3>1, EntriesOfFirst
  <2>3. UNCHANGED <<stage, batch, skipped>> /\ late \subseteq late' /\ (stage = "call events" => i \in late')
    BY <1>2 DEF MenuWrites, MarkLate
  <2>4. raced' = raced \cup (ToSet(schedule) \ ToSet(menu.head))
    BY <1>2 DEF MenuWrites
  <2> QED BY <2>1, <2>2, <2>3, <2>4 DEF EventsAreCalled, EventsOfTheLoop
<1>3. ASSUME NEW i \in Items, RegisterCheck(i) PROVE EventsAreCalled' /\ EventsOfTheLoop'
  BY <1>3, <1>m DEF RegisterCheck
<1>4. ASSUME NEW i \in Items, EnqueueCommand(i) PROVE EventsAreCalled' /\ EventsOfTheLoop'
  BY <1>4, <1>m DEF EnqueueCommand
<1>5. ASSUME NEW i \in Items, NEW ticks \in 0 .. 2, RegisterTimer(i, ticks)
      PROVE  EventsAreCalled' /\ EventsOfTheLoop'
  BY <1>5, <1>m DEF RegisterTimer
<1>6. CASE MenuReads
  <2>1. Pending("event")' \subseteq Pending("event")
    BY <1>6, PendingLeft DEF MenuReads
  <2> QED BY <1>6, <2>1, EventsStay DEF MenuReads
<1>7. CASE ClearAll
  <2>1. CASE Corrupt
    BY <1>7, <1>u, <2>1 DEF ClearAll
  <2>2. CASE ~Corrupt
    <3>1. Pending("event")' \subseteq Pending("event") \ ToSet(schedule)
      BY <1>7, <2>2 DEF ClearAll, Pending
    <3>2. UNCHANGED <<stage, batch, late, skipped, raced>>
      BY <1>7, <2>2 DEF ClearAll
    <3> QED BY <3>1, <3>2 DEF EventsAreCalled, EventsOfTheLoop
  <2> QED BY <2>1, <2>2
<1>8. CASE Move
  <2>1. Pending("event")' \subseteq Pending("event")
    BY <1>8, PendingLeft DEF Move
  <2> QED BY <1>8, <2>1 DEF Move, Leaves, EventsAreCalled, EventsOfTheLoop
<1>9. CASE TakeTimers
  <2>1. Pending("event")' \subseteq Pending("event")
    BY <1>9, PendingLeft DEF TakeTimers
  <2>2. stage = "timers" /\ stage' = "call timers" /\ UNCHANGED <<schedule, late, skipped, raced>>
    BY <1>9 DEF TakeTimers, Leaves
  <2> QED BY <2>1, <2>2 DEF EventsAreCalled, EventsOfTheLoop
<1>10. CASE BeginEvents
  <2>1. Pending("event")' \subseteq Pending("event")
    BY <1>10, PendingLeft DEF BeginEvents
  <2>2. stage = "events" /\ stage' = "call events" /\ batch' = schedule /\ UNCHANGED <<schedule, late, skipped, raced>>
    BY <1>10 DEF BeginEvents, Leaves, Walk
  <2> QED BY <2>1, <2>2 DEF EventsAreCalled, EventsOfTheLoop
<1>11. CASE EndEvents
  <2>1. CASE Corrupt
    BY <1>11, <1>u, <2>1 DEF EndEvents
  <2>2. CASE ~Corrupt
    <3>1. Pending("event")' \subseteq Pending("event")
      BY <1>11, <2>2, PendingLeft DEF EndEvents
    <3>2. ToSet(batch) = {}
      <4>1. batch = << >>
        BY <1>11 DEF EndEvents
      <4>2. DOMAIN << >> = {}
        OBVIOUS
      <4> QED BY <4>1, <4>2 DEF ToSet
    <3>3. stage = "call events" /\ stage' = "checks" /\ UNCHANGED <<late, skipped, raced>>
      BY <1>11, <2>2 DEF EndEvents
    <3> QED BY <3>1, <3>2, <3>3 DEF EventsAreCalled, EventsOfTheLoop
  <2> QED BY <2>1, <2>2
<1>12. ASSUME NEW near \in SUBSET ToSet(checks), NEW gone \in SUBSET ToSet(checks), TakeChecks(near, gone)
       PROVE  EventsAreCalled' /\ EventsOfTheLoop'
  <2>1. Pending("event")' \subseteq Pending("event")
    BY <1>12 DEF TakeChecks, Pending
  <2>2. stage = "checks" /\ stage' = "call checks" /\ UNCHANGED <<schedule, late, skipped, raced>>
    BY <1>12 DEF TakeChecks, Leaves
  <2> QED BY <2>1, <2>2 DEF EventsAreCalled, EventsOfTheLoop
<1>13. CASE Call
  <2>1. CASE Head(batch) \in freed
    BY <1>13, <1>u, <2>1 DEF Call
  <2>2. CASE Head(batch) \notin freed
    <3>1. Pending("event")' \subseteq Pending("event") \ {Head(batch)}
      <4>1. fate \in [Items -> {"none", "pending", "called", "cleared", "gone"}]
        BY DEF LuaTypeOK
      <4> QED BY <1>13, <2>2, <4>1 DEF Call, Pending
    <3>2. ToSet(batch) = {Head(batch)} \cup ToSet(batch')
      BY <1>13, <2>2, <1>t, EntriesOfTail DEF Call
    <3>3. UNCHANGED <<schedule, stage, late, skipped, raced>>
      BY <1>13, <2>2 DEF Call
    <3> QED BY <3>1, <3>2, <3>3 DEF EventsAreCalled, EventsOfTheLoop
  <2> QED BY <2>1, <2>2
<1>14. CASE RunScript
  <2>1. Pending("event")' \subseteq Pending("event")
    <3>1. fate \in [Items -> {"none", "pending", "called", "cleared", "gone"}]
      BY DEF LuaTypeOK
    <3> QED BY <1>14, <3>1 DEF RunScript, Pending
  <2> QED BY <1>14, <2>1, EventsStay DEF RunScript
<1>15. CASE Return
  <2>1. Pending("event")' \subseteq Pending("event")
    BY <1>15, PendingLeft DEF Return
  <2> QED BY <1>15, <2>1, EventsStay DEF Return
<1>16. CASE Continue
  <2>1. Pending("event")' \subseteq Pending("event")
    BY <1>16, PendingLeft DEF Continue
  <2>2. /\ stage \notin {"call events", "undefined"} /\ stage' \notin {"call events", "undefined"}
        /\ UNCHANGED <<schedule, batch, late, skipped, raced>>
    BY <1>16 DEF Continue, Leaves, After
  <2> QED BY <2>1, <2>2 DEF EventsAreCalled, EventsOfTheLoop
<1>17. CASE UNCHANGED luaVars
  <2>1. Pending("event")' \subseteq Pending("event")
    BY <1>17, PendingLeft DEF luaVars
  <2> QED BY <1>17, <2>1, EventsStay DEF luaVars
<1> QED BY <1>1, <1>2, <1>3, <1>4, <1>5, <1>6, <1>7, <1>8, <1>9, <1>10, <1>11, <1>12, <1>13, <1>14,
           <1>15, <1>16, <1>17 DEF LuaNext

(* Timers.                                                                    *)
LEMMA TimersNext ==
    ASSUME LuaTypeOK, InOrder(timers), TimersFireInTime, TimersOfTheLoop, [LuaNext]_luaVars
    PROVE  TimersFireInTime' /\ TimersOfTheLoop'
<1> USE DEF lists, commandVars, raised
<1>t. batch \in Seq(Items) /\ timers \in Seq(TimersOf) /\ time \in 0 .. MaxTime /\ time \in Nat /\ time \in Int
  <2>1. batch \in Seq(Items) /\ timers \in Seq(TimersOf) /\ time \in 0 .. MaxTime
    BY Zenon DEF LuaTypeOK, TimersOf
  <2> QED BY <2>1, LuaConstants
<1>at. \A t \in ToSet(timers) : t.at \in Nat
  <2>1. ToSet(timers) \subseteq TimersOf
    BY <1>t, Entries
  <2>2. \A t \in TimersOf : t.at \in Nat
    BY LuaConstants DEF TimersOf
  <2> QED BY <2>1, <2>2
<1>u. ASSUME Undefined PROVE TimersFireInTime' /\ TimersOfTheLoop'
  <2>1. Pending("timer")' \subseteq Pending("timer")
    BY <1>u, PendingLeft DEF Undefined
  <2> QED BY <1>u, <2>1, TimersStay DEF Undefined
<1>m. ASSUME NEW S \in SUBSET Items, NEW k \in {"event", "check", "command"}, Made(S, k),
             UNCHANGED <<timers, batch, time>>, stage' \in {stage, "undefined"}
      PROVE  TimersFireInTime' /\ TimersOfTheLoop'
  <2>1. Pending("timer")' \subseteq Pending("timer")
    BY <1>m, PendingMade
  <2> QED BY <1>m, <2>1, TimersStay
<1>1. ASSUME NEW i \in Items, NEW others \in SUBSET (Items \ {i}), Raise(i, others)
      PROVE  TimersFireInTime' /\ TimersOfTheLoop'
  BY <1>1, <1>m DEF Raise
<1>2. ASSUME NEW i \in Items, MenuWrites(i) PROVE TimersFireInTime' /\ TimersOfTheLoop'
  BY <1>2, <1>m DEF MenuWrites
<1>3. ASSUME NEW i \in Items, RegisterCheck(i) PROVE TimersFireInTime' /\ TimersOfTheLoop'
  BY <1>3, <1>m DEF RegisterCheck
<1>4. ASSUME NEW i \in Items, EnqueueCommand(i) PROVE TimersFireInTime' /\ TimersOfTheLoop'
  BY <1>4, <1>m DEF EnqueueCommand
<1>5. ASSUME NEW i \in Items, NEW ticks \in 0 .. 2, RegisterTimer(i, ticks)
      PROVE  TimersFireInTime' /\ TimersOfTheLoop'
  <2> DEFINE e == [id |-> i, at |-> time + ticks]
  <2>1. e \in TimersOf /\ e.id = i /\ e.at >= time
    <3>1. time + ticks \in 0 .. MaxTime + 2 /\ time + ticks >= time
      BY <1>t, LuaConstants
    <3> QED BY <3>1 DEF TimersOf
  <2>2. timers' = Inserted(e) /\ UNCHANGED <<stage, batch, time>>
    BY <1>5 DEF RegisterTimer
  <2>3. Pending("timer")' \subseteq Pending("timer") \cup {i}
    BY <1>5, PendingMade DEF RegisterTimer
  <2> HIDE DEF e
  <2>4. ToSet(timers') = ToSet(timers) \cup {e}
    BY <1>t, <2>1, <2>2, InsertedInOrder
  <2>5. Defined' => \A t \in ToSet(timers') : t.at >= IF stage' = "timers" THEN time' - 1 ELSE time'
    <3>1. ASSUME Defined', NEW t \in ToSet(timers')
          PROVE  t.at >= IF stage' = "timers" THEN time' - 1 ELSE time'
      <4>1. CASE t = e
        <5>1. e.at \in Nat
          BY <2>1, LuaConstants DEF TimersOf
        <5> QED BY <1>t, <2>1, <2>2, <4>1, <5>1
      <4>2. CASE t \in ToSet(timers)
        BY <2>2, <3>1, <4>2 DEF TimersFireInTime, Defined
      <4> QED BY <2>4, <4>1, <4>2
    <3> QED BY <3>1
  <2>6. {t.id : t \in ToSet(timers')} = {t.id : t \in ToSet(timers)} \cup {i}
    BY <2>1, <2>4
  <2> QED BY <2>2, <2>3, <2>5, <2>6 DEF TimersFireInTime, TimersOfTheLoop
<1>6. CASE MenuReads
  <2>1. Pending("timer")' \subseteq Pending("timer")
    BY <1>6, PendingLeft DEF MenuReads
  <2> QED BY <1>6, <2>1, TimersStay DEF MenuReads
<1>7. CASE ClearAll
  <2>1. CASE Corrupt
    BY <1>7, <1>u, <2>1 DEF ClearAll
  <2>2. CASE ~Corrupt
    <3>1. Pending("timer")' \subseteq Pending("timer") \ {t.id : t \in ToSet(timers)}
      BY <1>7, <2>2 DEF ClearAll, Pending
    <3>2. UNCHANGED <<stage, batch, time>> /\ timers' = << >>
      BY <1>7, <2>2 DEF ClearAll
    <3>3. ToSet(timers') = {}
      <4>1. DOMAIN << >> = {}
        OBVIOUS
      <4> QED BY <3>2, <4>1 DEF ToSet
    <3> QED BY <3>1, <3>2, <3>3 DEF TimersFireInTime, TimersOfTheLoop
  <2> QED BY <2>1, <2>2
<1>8. CASE Move
  <2>1. Pending("timer")' \subseteq Pending("timer")
    BY <1>8, PendingLeft DEF Move
  <2>2. stage = "move" /\ stage' = "timers" /\ time' = time + 1 /\ UNCHANGED <<timers, batch>>
    BY <1>8 DEF Move, Leaves
  <2>3. \A t \in ToSet(timers) : t.at >= time' - 1
    <3>1. \A t \in ToSet(timers) : t.at >= time
      BY <2>2 DEF TimersFireInTime, Defined
    <3> QED BY <1>t, <2>2, <3>1
  <2> QED BY <2>1, <2>2, <2>3 DEF TimersFireInTime, TimersOfTheLoop
<1>9. CASE TakeTimers
  <2>1. Pending("timer")' \subseteq Pending("timer")
    BY <1>9, PendingLeft DEF TakeTimers
  <2>2. stage = "timers" /\ stage' = "call timers" /\ time' = time
    BY <1>9 DEF TakeTimers, Leaves
  <2>3. /\ timers' \in Seq(TimersOf) /\ \A t \in ToSet(timers') : t.at > time
        /\ {t.id : t \in ToSet(timers)} \subseteq {t.id : t \in ToSet(timers')} \cup ToSet(batch')
    BY <1>9, <1>t, TimersTaken
  <2>4. \A t \in ToSet(timers') : t.at >= time
    <3>1. ToSet(timers') \subseteq TimersOf
      BY <2>3, Entries
    <3>2. \A t \in TimersOf : t.at \in Nat
      BY LuaConstants DEF TimersOf
    <3> QED BY <1>t, <2>3, <3>1, <3>2
  <2>5. Pending("timer") \subseteq {t.id : t \in ToSet(timers)}
    BY <2>2 DEF TimersOfTheLoop
  <2>6. Pending("timer")' \subseteq {t.id : t \in ToSet(timers')} \cup ToSet(batch')
    BY <2>1, <2>3, <2>5
  <2> QED BY <2>2, <2>4, <2>6 DEF TimersFireInTime, TimersOfTheLoop
<1>10. CASE BeginEvents
  <2>1. Pending("timer")' \subseteq Pending("timer")
    BY <1>10, PendingLeft DEF BeginEvents
  <2>2. stage = "events" /\ stage' = "call events" /\ UNCHANGED <<timers, time>>
    BY <1>10 DEF BeginEvents, Leaves
  <2> QED BY <2>1, <2>2 DEF TimersFireInTime, TimersOfTheLoop, Defined
<1>11. CASE EndEvents
  <2>1. CASE Corrupt
    BY <1>11, <1>u, <2>1 DEF EndEvents
  <2>2. CASE ~Corrupt
    <3>1. Pending("timer")' \subseteq Pending("timer")
      BY <1>11, <2>2, PendingLeft DEF EndEvents
    <3>3. stage = "call events" /\ stage' = "checks" /\ UNCHANGED <<timers, time, batch>>
      BY <1>11, <2>2 DEF EndEvents
    <3> QED BY <3>1, <3>3 DEF TimersFireInTime, TimersOfTheLoop, Defined
  <2> QED BY <2>1, <2>2
<1>12. ASSUME NEW near \in SUBSET ToSet(checks), NEW gone \in SUBSET ToSet(checks), TakeChecks(near, gone)
       PROVE  TimersFireInTime' /\ TimersOfTheLoop'
  <2>1. Pending("timer")' \subseteq Pending("timer")
    BY <1>12 DEF TakeChecks, Pending
  <2>2. stage = "checks" /\ stage' = "call checks" /\ UNCHANGED <<timers, time>>
    BY <1>12 DEF TakeChecks, Leaves
  <2> QED BY <2>1, <2>2 DEF TimersFireInTime, TimersOfTheLoop, Defined
<1>13. CASE Call
  <2>1. CASE Head(batch) \in freed
    BY <1>13, <1>u, <2>1 DEF Call
  <2>2. CASE Head(batch) \notin freed
    <3>1. Pending("timer")' \subseteq Pending("timer") \ {Head(batch)}
      <4>1. fate \in [Items -> {"none", "pending", "called", "cleared", "gone"}]
        BY DEF LuaTypeOK
      <4> QED BY <1>13, <2>2, <4>1 DEF Call, Pending
    <3>2. ToSet(batch) = {Head(batch)} \cup ToSet(batch')
      BY <1>13, <2>2, <1>t, EntriesOfTail DEF Call
    <3>3. UNCHANGED <<timers, stage, time>>
      BY <1>13, <2>2 DEF Call
    <3> QED BY <3>1, <3>2, <3>3 DEF TimersFireInTime, TimersOfTheLoop, Defined
  <2> QED BY <2>1, <2>2
<1>14. CASE RunScript
  <2>1. Pending("timer")' \subseteq Pending("timer")
    <3>1. fate \in [Items -> {"none", "pending", "called", "cleared", "gone"}]
      BY DEF LuaTypeOK
    <3> QED BY <1>14, <3>1 DEF RunScript, Pending
  <2> QED BY <1>14, <2>1, TimersStay DEF RunScript
<1>15. CASE Return
  <2>1. Pending("timer")' \subseteq Pending("timer")
    BY <1>15, PendingLeft DEF Return
  <2> QED BY <1>15, <2>1, TimersStay DEF Return
<1>16. CASE Continue
  <2>1. Pending("timer")' \subseteq Pending("timer")
    BY <1>16, PendingLeft DEF Continue
  <2>2. /\ stage \notin {"timers", "undefined"} /\ stage' \notin {"timers", "call timers", "undefined"}
        /\ UNCHANGED <<timers, batch, time>>
    BY <1>16 DEF Continue, Leaves, After
  <2>3. ToSet(batch) = {}
    <3>1. batch = << >>
      BY <1>16 DEF Continue
    <3>2. DOMAIN << >> = {}
      OBVIOUS
    <3> QED BY <3>1, <3>2 DEF ToSet
  <2> QED BY <2>1, <2>2, <2>3 DEF TimersFireInTime, TimersOfTheLoop, Defined
<1>17. CASE UNCHANGED luaVars
  <2>1. Pending("timer")' \subseteq Pending("timer")
    BY <1>17, PendingLeft DEF luaVars
  <2> QED BY <1>17, <2>1, TimersStay DEF luaVars
<1> QED BY <1>1, <1>2, <1>3, <1>4, <1>5, <1>6, <1>7, <1>8, <1>9, <1>10, <1>11, <1>12, <1>13, <1>14,
           <1>15, <1>16, <1>17 DEF LuaNext

(* Commands.                                                                  *)
LEMMA CommandsNext ==
    ASSUME LuaTypeOK, CommandsAreRun, [LuaNext]_luaVars
    PROVE  CommandsAreRun'
<1> USE DEF lists, raised
<1>t. commands.list \in Seq(Items) /\ fate \in [Items -> {"none", "pending", "called", "cleared", "gone"}]
  BY DEF LuaTypeOK
<1>s. ASSUME UNCHANGED <<kind, commandVars>>, stage = "undefined" => stage' = "undefined",
             \A i \in Items : fate'[i] = "pending" => fate[i] = "pending"
      PROVE  CommandsAreRun'
  BY <1>s, PendingLeft, CommandsStay
<1>m. ASSUME NEW S \in SUBSET Items, NEW k \in {"event", "timer", "check"}, Made(S, k), UNCHANGED <<commandVars, stage>>
      PROVE  CommandsAreRun'
  <2>1. Pending("command")' \subseteq Pending("command")
    BY <1>m, PendingMade
  <2> QED BY <1>m, <2>1, CommandsStay
<1>1. ASSUME NEW i \in Items, NEW others \in SUBSET (Items \ {i}), Raise(i, others)
      PROVE  CommandsAreRun'
  BY <1>1, <1>m DEF Raise
<1>2. ASSUME NEW i \in Items, MenuWrites(i) PROVE CommandsAreRun'
  BY <1>2, <1>m DEF MenuWrites
<1>3. ASSUME NEW i \in Items, RegisterCheck(i) PROVE CommandsAreRun'
  BY <1>3, <1>m DEF RegisterCheck
<1>4. ASSUME NEW i \in Items, EnqueueCommand(i) PROVE CommandsAreRun'
  <2>1. CASE stage' = "undefined"
    BY <2>1 DEF CommandsAreRun, Defined
  <2>2. CASE stage' # "undefined"
    <3>1. Pending("command")' \subseteq Pending("command") \cup {i}
      BY <1>4, PendingMade DEF EnqueueCommand
    <3>2. commands'.list = Chained(i) /\ cut' = cut \cup BehindTail /\ stage' = stage
      BY <1>4, <2>2 DEF EnqueueCommand
    <3>3. ToSet(commands.list) \cup {i} \subseteq ToSet(Chained(i)) \cup BehindTail
      BY <1>t, ChainedOK
    <3> QED BY <2>2, <3>1, <3>2, <3>3 DEF CommandsAreRun, Defined
  <2> QED BY <2>1, <2>2
<1>5. ASSUME NEW i \in Items, NEW ticks \in 0 .. 2, RegisterTimer(i, ticks) PROVE CommandsAreRun'
  BY <1>5, <1>m DEF RegisterTimer
<1>6. CASE MenuReads
  BY <1>6, <1>s DEF MenuReads
<1>u. ASSUME Undefined PROVE CommandsAreRun'
  BY <1>u, <1>s DEF Undefined
<1>7. CASE ClearAll
  <2>1. CASE Corrupt
    BY <1>7, <1>u, <2>1 DEF ClearAll
  <2>2. CASE ~Corrupt
    BY <1>7, <2>2, <1>s DEF ClearAll
  <2> QED BY <2>1, <2>2
<1>8. CASE Move
  BY <1>8, <1>s DEF Move, Leaves
<1>9. CASE TakeTimers
  BY <1>9, <1>s DEF TakeTimers, Leaves
<1>10. CASE BeginEvents
  BY <1>10, <1>s DEF BeginEvents, Leaves
<1>11. CASE EndEvents
  BY <1>11, <1>s, <1>u DEF EndEvents
<1>12. ASSUME NEW near \in SUBSET ToSet(checks), NEW gone \in SUBSET ToSet(checks), TakeChecks(near, gone)
       PROVE  CommandsAreRun'
  BY <1>12, <1>s DEF TakeChecks, Leaves
<1>13. CASE Call
  <2>1. CASE Head(batch) \in freed
    BY <1>13, <1>u, <2>1 DEF Call
  <2>2. CASE Head(batch) \notin freed
    BY <1>13, <1>s, <1>t, <2>2 DEF Call
  <2> QED BY <2>1, <2>2
<1>14. CASE RunScript
  <2> DEFINE i == Head(commands.list)
  <2>1. Pending("command")' \subseteq Pending("command") \ {i}
    BY <1>14, <1>t DEF RunScript, Pending
  <2>2. commands'.list = Tail(commands.list) /\ UNCHANGED <<stage, cut>>
    <3>1. commands \in [list : Seq(Items), tail : Items \cup {NoItem}]
      BY Zenon DEF LuaTypeOK
    <3> QED BY <1>14, <3>1 DEF RunScript
  <2>3. ToSet(commands.list) = {i} \cup ToSet(Tail(commands.list))
    <3>1. commands.list # << >>
      BY <1>14 DEF RunScript
    <3> QED BY <1>t, <3>1, EntriesOfTail
  <2> QED BY <2>1, <2>2, <2>3 DEF CommandsAreRun, Defined
<1>15. CASE Return
  BY <1>15, <1>s DEF Return
<1>16. CASE Continue
  BY <1>16, <1>s DEF Continue, Leaves
<1>17. CASE UNCHANGED luaVars
  BY <1>17, <1>s DEF luaVars
<1> QED BY <1>1, <1>2, <1>3, <1>4, <1>5, <1>6, <1>7, <1>8, <1>9, <1>10, <1>11, <1>12, <1>13, <1>14,
           <1>15, <1>16, <1>17 DEF LuaNext

LEMMA LuaInvariantHolds == LuaSpec => []LuaInvariant
<1>1. LuaInvariant /\ [LuaNext]_luaVars => LuaInvariant'
  BY LuaTypeNext, EventsNext, TimersNext, CommandsNext DEF LuaInvariant
<1> QED BY <1>1, LuaInvariantInit, PTL DEF LuaSpec

(* The lists of events, timers, checks and commands stay what they are: lists *)
(* of entries that were made, whatever scripts do while they are called.      *)
THEOREM LuaTypes == LuaSpec => []LuaTypeOK
<1>1. LuaInvariant => LuaTypeOK
  BY DEF LuaInvariant
<1> QED BY <1>1, LuaInvariantHolds, PTL

(* Of each event the first callback is called: fire_lua_callbacks loses none  *)
(* but those raised while it is at work and those the menu's race drops, for  *)
(* any number of events, raised at any time.  The other callbacks of an event *)
(* are skipped by schedule_callback8 before that.                             *)
THEOREM EventsCalled == LuaSpec => []EventsAreCalled
<1>1. LuaInvariant => EventsAreCalled
  BY DEF LuaInvariant
<1> QED BY <1>1, LuaInvariantHolds, PTL

(* fire_lua_timers leaves no timer behind its time, since the list is kept in *)
(* the order of fire times by register_lua_timer_callback.                    *)
THEOREM TimersFired == LuaSpec => []TimersFireInTime
<1>1. LuaInvariant => TimersFireInTime
  BY DEF LuaInvariant
<1> QED BY <1>1, LuaInvariantHolds, PTL

(* A queued script waits in the queue until it is run, or is dropped by       *)
(* another enqueue_lua_command.                                               *)
THEOREM CommandsRun == LuaSpec => []CommandsAreRun
<1>1. LuaInvariant => CommandsAreRun
  BY DEF LuaInvariant
<1> QED BY <1>1, LuaInvariantHolds, PTL
=============================================================================
