---------------------------- MODULE LuaCallbacks -----------------------------
(* How scripts are called back: events, timers and proximity checks.  Other   *)
(* threads raise events while the game's thread calls scripts, without        *)
(* universe_mutex, and scripts raise and register more while they are called. *)
EXTENDS Integers, Sequences, FiniteSets, SequencesExt

CONSTANTS
    Items,      \* entries: callbacks that are scheduled, timers, checks, commands
    NoItem,     \* NULL
    MaxTime     \* bound on universe_timestamp

ASSUME LuaAssumption == MaxTime \in Nat /\ NoItem \notin Items

VARIABLES
    schedule,   \* callback_schedule, newest first
    timers,     \* lua_timer, with fire times
    checks,     \* lua_proximity_check
    time,       \* universe_timestamp
    stage,      \* where the game's thread is in its loop
    batch,      \* what its present loop has still to call
    calling,    \* it is in a script
    commands,   \* lua_command_queue_head and what follows it, and _tail
    menu,       \* process_textscreen_op, between its read of the list's head
                \* and its write: without universe_mutex
    freed,      \* entries that have been freed
    kind, fate, \* what became of each entry (history)
    late,       \* raised while fire_lua_callbacks was at work (history)
    skipped,    \* for the callbacks of an event after its first (history)
    raced,      \* dropped from the list by process_textscreen_op (history)
    cut         \* commands dropped behind the tail of the queue (history)

lists == <<schedule, timers, checks>>
commandVars == <<commands, cut>>
raised == <<late, skipped, raced>>
luaVars == <<lists, time, stage, batch, calling, menu, freed, kind, fate,
             commandVars, raised>>

Stages == {"move", "timers", "call timers", "events", "call events", "checks",
           "call checks", "scripts", "undefined"}

LuaTypeOK ==
    /\ schedule \in Seq(Items) /\ checks \in Seq(Items) /\ batch \in Seq(Items)
    /\ timers \in Seq([id : Items, at : 0 .. MaxTime + 2])
    /\ time \in 0 .. MaxTime
    /\ stage \in Stages
    /\ calling \in BOOLEAN
    /\ menu \in [reading : BOOLEAN, head : Seq(Items)]
    /\ freed \subseteq Items /\ late \subseteq Items
    /\ skipped \subseteq Items /\ raced \subseteq Items
    /\ commands \in [list : Seq(Items), tail : Items \cup {NoItem}]
    /\ cut \subseteq Items
    /\ kind \in [Items -> {"none", "event", "timer", "check", "command"}]
    /\ fate \in [Items -> {"none", "pending", "called", "cleared", "gone"}]

(* A first script runs.                                                       *)
LuaInit ==
    /\ schedule = << >> /\ timers = << >> /\ checks = << >> /\ batch = << >>
    /\ time = 0
    /\ stage = "scripts"
    /\ calling = TRUE
    /\ commands = [list |-> << >>, tail |-> NoItem] /\ cut = {}
    /\ menu = [reading |-> FALSE, head |-> << >>]
    /\ freed = {} /\ late = {} /\ skipped = {} /\ raced = {}
    /\ kind = [i \in Items |-> "none"]
    /\ fate = [i \in Items |-> "none"]

-----------------------------------------------------------------------------
(* What scripts and other threads do.                                         *)

Made(S, k) ==
    /\ \A i \in S : kind[i] = "none"
    /\ kind' = [i \in Items |-> IF i \in S THEN k ELSE kind[i]]
    /\ fate' = [i \in Items |-> IF i \in S THEN "pending" ELSE fate[i]]

Defined == stage # "undefined"
MarkLate(i) == late' = IF stage = "call events" THEN late \cup {i} ELSE late

MAXCALLBACKS == 3

(* schedule_callback8, for an event with one callback or more, by any thread  *)
(* that holds universe_mutex: the loop over the callbacks ends with the       *)
(* first, and the others are never scheduled.                                 *)
Raise(i, others) ==
    /\ Defined
    /\ i \notin others /\ Cardinality(others) < MAXCALLBACKS
    /\ Made({i} \cup others, "event")
    /\ schedule' = <<i>> \o schedule
    /\ skipped' = skipped \cup others
    /\ MarkLate(i)
    /\ UNCHANGED <<timers, checks, time, stage, batch, calling, menu, freed, raced, commandVars>>

(* A choice from a user menu: schedule_one_callback without universe_mutex.   *)
MenuReads ==
    /\ Defined
    /\ ~menu.reading
    /\ menu' = [reading |-> TRUE, head |-> schedule]
    /\ UNCHANGED <<lists, time, stage, batch, calling, freed,
                   kind, fate, commandVars, raised>>

MenuWrites(i) ==
    /\ Defined
    /\ menu.reading
    /\ Made({i}, "event")
    /\ schedule' = <<i>> \o menu.head
    /\ raced' = raced \cup (ToSet(schedule) \ ToSet(menu.head))
    /\ menu' = [reading |-> FALSE, head |-> << >>]
    /\ MarkLate(i)
    /\ UNCHANGED <<timers, checks, time, stage, batch, calling, freed, skipped, commandVars>>

(* Mutant: the newest timer is the first.                                     *)
InFront(e) == <<e>> \o timers

(* register_lua_timer_callback keeps the list in the order of fire times.     *)
Inserted(e) ==
    LET after == {k \in DOMAIN timers : timers[k].at > e.at}
        k == IF after = {} THEN Len(timers) + 1 ELSE Min(after)
    IN  InsertAt(timers, k, e)

InScript == Defined /\ calling

RegisterTimer(i, ticks) ==
    /\ InScript
    /\ Made({i}, "timer")
    /\ timers' = Inserted([id |-> i, at |-> time + ticks])
    /\ UNCHANGED <<schedule, checks, time, stage, batch, calling, menu, freed, commandVars, raised>>

(* register_lua_proximity_callback, of two objects that have no check yet     *)
(* (otherwise theirs is changed in its place).                                *)
RegisterCheck(i) ==
    /\ InScript
    /\ Made({i}, "check")
    /\ checks' = Append(checks, i)
    /\ UNCHANGED <<schedule, timers, time, stage, batch, calling, menu, freed, commandVars, raised>>

(* To free what has been freed, or to look at it, has no defined outcome.     *)
Undefined ==
    /\ stage' = "undefined"
    /\ UNCHANGED <<lists, time, batch, calling, menu, freed,
                   kind, fate, commandVars, raised>>

(* Mutant: the head of the queue is set whatever it was.                      *)
AsHead(i) == <<i>>

(* What follows the head of the queue when i is linked to its tail.           *)
TailAt == SelectInSeq(commands.list, LAMBDA j : j = commands.tail)
Chained(i) == Append(SubSeq(commands.list, 1, TailAt), i)

BehindTail == ToSet(SubSeq(commands.list, TailAt + 1, Len(commands.list)))

(* enqueue_lua_command, from a script or the demon's screen: the tail is      *)
(* never moved on, and may have been freed.                                   *)
EnqueueCommand(i) ==
    /\ Defined
    /\ Made({i}, "command")
    /\ \/ commands.list # << >> /\ commands.tail \in freed
          /\ stage' = "undefined"
          /\ UNCHANGED commandVars
       \/ /\ commands.list = << >> \/ commands.tail \notin freed
          /\ commands' = [list |-> Chained(i),
                          tail |-> IF commands.list = << >> THEN i ELSE commands.tail]
          /\ cut' = cut \cup BehindTail
          /\ UNCHANGED stage
    /\ UNCHANGED <<lists, time, batch, calling, menu, freed, raised>>

Corrupt == ToSet(schedule) \cap freed # {}

(* process_demon_clear_all, from the demon's screen or from a script.         *)
ClearAll ==
    /\ Defined
    /\ \/ Corrupt /\ Undefined
       \/ /\ ~Corrupt
          /\ schedule' = << >> /\ timers' = << >> /\ checks' = << >>
          /\ freed' = freed \cup ToSet(schedule)
          /\ fate' = [i \in Items |->
                        IF i \in ToSet(schedule) \cup ToSet(checks) \cup {t.id : t \in ToSet(timers)}
                           /\ fate[i] = "pending"
                        THEN "cleared" ELSE fate[i]]
          /\ UNCHANGED <<time, stage, batch, calling, menu, kind, commandVars, raised>>

-----------------------------------------------------------------------------
(* The loop of the game's thread.                                             *)

Leaves(from, to) == stage = from /\ ~calling /\ stage' = to

(* move_objects, up to where it gives universe_mutex back.                    *)
Move ==
    /\ Leaves("move", "timers")
    /\ time < MaxTime
    /\ time' = time + 1
    /\ UNCHANGED <<lists, batch, calling, menu, freed, kind, fate, commandVars, raised>>

(* fire_lua_timers takes those off the list first, the last becomes first.    *)
TakeTimers ==
    /\ Leaves("timers", "call timers")
    /\ LET n == Cardinality({k \in DOMAIN timers : \A j \in 1 .. k : timers[j].at <= time})
       IN /\ batch' = Reverse([k \in 1 .. n |-> timers[k].id])
          /\ timers' = SubSeq(timers, n + 1, Len(timers))
    /\ UNCHANGED <<schedule, checks, time, calling, menu, freed, kind, fate, commandVars, raised>>

(* Mutant: the newest is passed over.                                         *)
WalkRest == IF schedule = << >> THEN << >> ELSE Tail(schedule)

(* fire_lua_callbacks goes through the list that others add to.               *)
Walk == schedule

BeginEvents ==
    /\ Leaves("events", "call events")
    /\ batch' = Walk
    /\ UNCHANGED <<lists, time, calling, menu, freed, kind, fate, commandVars, raised>>

(* ... and then frees all that is in it.                                      *)
EndEvents ==
    /\ stage = "call events" /\ ~calling
    /\ batch = << >>
    /\ \/ Corrupt /\ Undefined
       \/ /\ ~Corrupt
          /\ stage' = "checks"
          /\ schedule' = << >>
          /\ freed' = freed \cup ToSet(schedule)
          /\ UNCHANGED <<timers, checks, time, batch, calling, menu, kind, fate, commandVars, raised>>

(* The checks of near, each put before those found so far.                    *)
OnTempList(near) ==
    LET Upto[k \in 0 .. Len(checks)] ==
            IF k = 0 THEN << >>
            ELSE IF checks[k] \in near THEN <<checks[k]>> \o Upto[k - 1] ELSE Upto[k - 1]
    IN  Upto[Len(checks)]

(* fire_lua_proximity_checks: "last" is never set, so whatever is taken off   *)
(* the list takes off all that stands before it as well.                      *)
TakeChecks(near, gone) ==
    /\ Leaves("checks", "call checks")
    /\ near \cap gone = {}
    /\ LET taken == {k \in DOMAIN checks : checks[k] \in near \cup gone}
       IN checks' = IF taken = {} THEN checks ELSE SubSeq(checks, Max(taken) + 1, Len(checks))
    /\ batch' = OnTempList(near)
    /\ fate' = [i \in Items |-> IF i \in gone THEN "gone" ELSE fate[i]]
    /\ UNCHANGED <<schedule, timers, time, calling, menu, freed, kind, commandVars, raised>>

After(s) == CASE s = "call timers" -> "events"
              [] s = "call checks" -> "scripts"
              [] s = "scripts"     -> "move"

(* One callback: the entry after it has been looked up before.                *)
Call ==
    /\ stage \in {"call timers", "call events", "call checks"}
    /\ ~calling
    /\ batch # << >>
    /\ \/ Head(batch) \in freed /\ Undefined
       \/ /\ Head(batch) \notin freed
          /\ batch' = Tail(batch)
          /\ calling' = TRUE
          /\ fate' = [fate EXCEPT ![Head(batch)] = "called"]
          /\ UNCHANGED <<lists, time, stage, menu, freed, kind, commandVars, raised>>

(* process_lua_commands: a command is taken off the queue, freed and run.     *)
RunScript ==
    /\ stage = "scripts" /\ ~calling
    /\ commands.list # << >>
    /\ LET i == Head(commands.list) IN
       /\ commands' = [commands EXCEPT !.list = Tail(@)]
       /\ freed' = freed \cup {i}
       /\ fate' = [fate EXCEPT ![i] = "called"]
    /\ calling' = TRUE
    /\ UNCHANGED <<lists, time, stage, batch, menu, kind, cut, raised>>

Return ==
    /\ InScript
    /\ calling' = FALSE
    /\ UNCHANGED <<lists, time, stage, batch, menu, freed, kind, fate, commandVars, raised>>

Continue ==
    /\ stage \in {"call timers", "call checks", "scripts"}
    /\ batch = << >>
    /\ stage = "scripts" => commands.list = << >>
    /\ Leaves(stage, After(stage))
    /\ UNCHANGED <<lists, time, batch, calling, menu, freed, kind, fate, commandVars, raised>>

LuaNext ==
    \/ \E i \in Items :
          \/ \E others \in SUBSET (Items \ {i}) : Raise(i, others)
          \/ MenuWrites(i) \/ RegisterCheck(i) \/ EnqueueCommand(i)
          \/ \E ticks \in 0 .. 2 : RegisterTimer(i, ticks)
    \/ MenuReads
    \/ ClearAll
    \/ Move \/ TakeTimers \/ BeginEvents \/ EndEvents
    \/ \E near, gone \in SUBSET ToSet(checks) : TakeChecks(near, gone)
    \/ Call \/ RunScript \/ Return \/ Continue

LuaSpec == LuaInit /\ [][LuaNext]_luaVars

-----------------------------------------------------------------------------
(* Properties.                                                                *)

Pending(k) == {i \in Items : kind[i] = k /\ fate[i] = "pending"}

(* schedule_callback8 is to add "all the callbacks for that event", and adds  *)
(* the first.  For that one an event is lost only if it was raised while      *)
(* callbacks were being called (a script's own doing included), or by the     *)
(* menu's race: whatever was raised before the loop is called in it or waits  *)
(* for it.                                                                    *)
EventsAreCalled ==
    Pending("event") \ skipped \subseteq
        ToSet(schedule) \cup ToSet(batch) \cup late \cup raced

(* A timer waits until it is called or cleared, and is not overdue: scripts   *)
(* that register timers from timers keep the list in order.                   *)
TimersFireInTime ==
    /\ Pending("timer") \subseteq {t.id : t \in ToSet(timers)} \cup ToSet(batch)
    /\ Defined => \A t \in ToSet(timers) : t.at >= IF stage = "timers" THEN time - 1 ELSE time

(* A script that is queued is run, unless it stood behind the tail of the     *)
(* queue when another was queued.                                             *)
CommandsAreRun ==
    Defined => Pending("command") \subseteq ToSet(commands.list) \cup cut

(* doc/lua-api.txt: "when the objects indicated by oid1 and oid2 are within   *)
(* the specified distance of one another, the specified callback is called".  *)
(* So a check waits until then, or until an object of its is gone.            *)
ChecksWait ==
    Pending("check") \subseteq ToSet(checks) \cup ToSet(batch)
==============================================================================
