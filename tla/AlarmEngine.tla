---------------------------- MODULE AlarmEngine ----------------------------
(***************************************************************************)
(* The alarm engine: Ns3QuicAlarmEngine, the BaseAlarm bookkeeping and the *)
(* Ns3Alarm that quiche sees, over one event of the ns-3 simulator.        *)
(*                                                                         *)
(* quiche asks for alarms (Set, Update, Cancel).  The engine keeps them in *)
(* a multimap ordered by time and keeps ONE simulator event, timer, for    *)
(* the earliest of them.  When it expires, OnTimeout first takes every due *)
(* entry out of the multimap and then calls the callbacks one by one; a    *)
(* callback is free to operate on any alarm, those it waits with included. *)
(*                                                                         *)
(* The simulator is single-threaded, so an action is either one call made  *)
(* by the simulated program, one callback of OnTimeout, or time passing.   *)
(* The build is waf's default, debug: a failed NS_ASSERT or QUICHE_DCHECK  *)
(* ends the program.  Undefined behaviour ends the model too, since        *)
(* nothing can be said of what follows; fault names which of them it was.  *)
(***************************************************************************)
EXTENDS Integers, FiniteSets, Functions

CONSTANTS
    Alarms,     \* the alarm objects a program creates
    NoAlarm,    \* not an alarm
    Horizon,    \* bound: Simulator::Stop, the last instant modelled
    MaxLag      \* bound: how far behind the clock a requested deadline may be

ASSUME EngineAssumption ==
    /\ IsFiniteSet(Alarms)
    /\ NoAlarm \notin Alarms
    /\ Horizon \in Nat \ {0}
    /\ MaxLag \in Nat

VARIABLES
    now,            \* Simulator::Now() in microseconds; starts above QuicTime::Zero()
    alive,          \* the alarms that are constructed
    deadline,       \* QuicAlarm::deadline_; 0 (QuicTime::Zero()) when not set
    registered,     \* BaseAlarm::registered_
    alarm_map,      \* alarm_map_ and all_alarms_: the alarms that have an entry
    timer,          \* timer_: when the simulator event fires, 0 when not running
    in_timeout,     \* OnTimeout is on the stack
    cbs,            \* OnTimeout's vector: entries taken out, not called yet
    running,        \* the alarm whose delegate is executing, or NoAlarm
    engine_alive,   \* the engine object has not been destroyed
    fault           \* "none", or how the program ended

vars == <<now, alive, deadline, registered, alarm_map, timer, in_timeout, cbs,
          running, engine_alive, fault>>

Asserts == {"registered_twice",   \* DCHECK in BaseAlarm::OnRegistration
            "map_empty",          \* NS_ASSERT in ReregisterAlarm
            "timer_idle",         \* NS_ASSERT_MSG at the end of ReregisterAlarm
            "timer_in_past"}      \* NS_ASSERT_MSG in UpdateTimer

Undefined == {"stale_token",      \* an erased multimap iterator is used
              "engine_freed"}     \* a destroyed engine is called

(***************************************************************************)
(* alarm_map_ is a multimap: keys in order, equal keys in insertion order. *)
(* RegisterAlarm inserts only a callback that all_alarms_ does not hold,   *)
(* so a callback has at most one entry: the map is kept by callback, rank  *)
(* being the place of the entry among those with the same time.            *)
(***************************************************************************)
Entry == [time : Nat, rank : Nat]

Insert(m, a, t) ==
    [b \in DOMAIN m \cup {a} |->
        IF b = a
        THEN [time |-> t, rank |-> Cardinality({c \in DOMAIN m : m[c].time = t})]
        ELSE m[b]]

Erase(m, a) ==
    [b \in DOMAIN m \ {a} |->
        IF m[b].time = m[a].time /\ m[b].rank > m[a].rank
        THEN [m[b] EXCEPT !.rank = @ - 1]
        ELSE m[b]]

Precedes(e, f) == e.time < f.time \/ (e.time = f.time /\ e.rank <= f.rank)

\* t is the first key of m, or 0 when there is none.
IsEarliest(m, t) ==
    IF DOMAIN m = {}
    THEN t = 0
    ELSE /\ \E a \in DOMAIN m : m[a].time = t
         /\ \A a \in DOMAIN m : t <= m[a].time

Init ==
    /\ now = 1
    /\ alive = {}
    /\ deadline = [a \in Alarms |-> 0]
    /\ registered = [a \in Alarms |-> FALSE]
    /\ alarm_map = [a \in {} |-> [time |-> 0, rank |-> 0]]
    /\ timer = 0
    /\ in_timeout = FALSE
    /\ cbs = alarm_map
    /\ running = NoAlarm
    /\ engine_alive = TRUE
    /\ fault = "none"

-----------------------------------------------------------------------------
(* The engine's own routines.  Each gives registered', alarm_map', timer'  *)
(* and fault'.                                                             *)

Abort(f) ==
    /\ fault' = f
    /\ UNCHANGED <<registered, alarm_map, timer>>

\* Cancel the event if it runs; schedule one for the first key of the map m.
UpdateTimer(m) ==
    \E t \in 0..Horizon :
        /\ IsEarliest(m, t)
        /\ timer' = IF t < now THEN 0 ELSE t
        /\ fault' = IF t # 0 /\ t < now THEN "timer_in_past" ELSE fault

\* Mistake: a running timer is never brought forward.
RegisterAlarm_IdleOnly(a, timeout_us) ==
    LET t == IF timeout_us < now THEN now ELSE timeout_us
        m == IF a \in DOMAIN alarm_map THEN alarm_map ELSE Insert(alarm_map, a, t)
    IN  /\ engine_alive
        /\ alarm_map' = m
        /\ registered' = [registered EXCEPT ![a] = TRUE]
        /\ IF timer = 0 THEN UpdateTimer(m) ELSE UNCHANGED <<timer, fault>>

\* Mistake: a time that has passed is taken as it comes, as in ReregisterAlarm.
RegisterAlarm_KeepsLate(a, timeout_us) ==
    LET m == IF a \in DOMAIN alarm_map THEN alarm_map ELSE Insert(alarm_map, a, timeout_us)
        update == \A b \in DOMAIN alarm_map : timeout_us < alarm_map[b].time
    IN  /\ engine_alive
        /\ alarm_map' = m
        /\ registered' = [registered EXCEPT ![a] = TRUE]
        /\ IF timer = 0 \/ update THEN UpdateTimer(m) ELSE UNCHANGED <<timer, fault>>

RegisterAlarm(a, timeout_us) ==
    LET t == IF timeout_us < now THEN now ELSE timeout_us
        m == IF a \in DOMAIN alarm_map THEN alarm_map ELSE Insert(alarm_map, a, t)
        update == \A b \in DOMAIN alarm_map : t < alarm_map[b].time
    IN  CASE ~engine_alive -> Abort("engine_freed")
          [] engine_alive /\ a \notin DOMAIN alarm_map /\ registered[a] ->
                Abort("registered_twice")
          [] OTHER ->
                /\ alarm_map' = m
                /\ registered' = [registered EXCEPT ![a] = @ \/ a \notin DOMAIN alarm_map]
                /\ IF timer = 0 \/ update
                   THEN UpdateTimer(m)
                   ELSE UNCHANGED <<timer, fault>>

\* Mistakes: the entry, or registered_, is left behind.
UnregisterAlarm_KeepsEntry(a) ==
    /\ registered' = [registered EXCEPT ![a] = FALSE]
    /\ UNCHANGED <<alarm_map, timer, fault>>

UnregisterAlarm_KeepsRegistered(a) ==
    IF a \notin DOMAIN alarm_map
    THEN Abort("stale_token")
    ELSE /\ alarm_map' = Erase(alarm_map, a)
         /\ UNCHANGED <<registered, timer, fault>>

\* The timer is left as it is: it may now fire for nothing, never too late.
UnregisterAlarm(a) ==
    IF a \notin DOMAIN alarm_map
    THEN Abort("stale_token")
    ELSE /\ alarm_map' = Erase(alarm_map, a)
         /\ registered' = [registered EXCEPT ![a] = FALSE]
         /\ UNCHANGED <<timer, fault>>

UnregisterIfRegistered(a) ==
    IF registered[a]
    THEN UnregisterAlarm(a)
    ELSE UNCHANGED <<registered, alarm_map, timer, fault>>

\* Mistake: the entry goes back in under its old key.
ReregisterAlarm_OldTime(a, timeout_us) ==
    IF a \notin DOMAIN alarm_map
    THEN Abort("stale_token")
    ELSE UNCHANGED <<registered, alarm_map, timer, fault>>

\* Unlike RegisterAlarm, the timeout is used as it comes.
ReregisterAlarm(a, timeout_us) ==
    LET rest == Erase(alarm_map, a)
        m == Insert(rest, a, timeout_us)
        update == timer = 0 \/ \A b \in DOMAIN rest : timeout_us < rest[b].time
    IN  IF a \notin DOMAIN alarm_map
        THEN Abort("stale_token")
        ELSE IF DOMAIN rest = {}
        THEN Abort("map_empty")
        ELSE /\ alarm_map' = m
             /\ UNCHANGED registered
             /\ IF update
                THEN UpdateTimer(m)
                ELSE /\ UNCHANGED timer
                     /\ fault' = IF timer = 0 THEN "timer_idle" ELSE fault

-----------------------------------------------------------------------------
(* The simulated program.  It runs in an event of its own, or in the       *)
(* delegate that OnTimeout is calling.                                     *)

Working == fault = "none"

MayCall == Working /\ (in_timeout => running # NoAlarm)

\* What quiche asks for: a time not before now, up to MaxLag.
Requests == {t \in 1..Horizon : t + MaxLag >= now}

CreateAlarm(a) ==
    /\ MayCall
    /\ engine_alive
    /\ a \notin alive
    /\ alive' = alive \cup {a}
    /\ UNCHANGED <<now, deadline, registered, alarm_map, timer, in_timeout, cbs,
                   running, engine_alive, fault>>

\* QuicAlarm::Set is for an alarm that is not set.
Set(a, t) ==
    /\ MayCall
    /\ a \in alive
    /\ deadline[a] = 0
    /\ deadline' = [deadline EXCEPT ![a] = t]
    /\ RegisterAlarm(a, t)
    /\ UNCHANGED <<now, alive, in_timeout, cbs, running, engine_alive>>

\* QuicAlarm::Cancel returns at once for an alarm that is not set.
Cancel(a) ==
    /\ MayCall
    /\ a \in alive
    /\ deadline[a] # 0
    /\ deadline' = [deadline EXCEPT ![a] = 0]
    /\ UnregisterIfRegistered(a)
    /\ UNCHANGED <<now, alive, in_timeout, cbs, running, engine_alive>>

\* QuicAlarm::Update of a set alarm; of one that is not set it is Set, and a
\* change smaller than the granularity is no step.
Update(a, t) ==
    /\ MayCall
    /\ a \in alive
    /\ deadline[a] # 0
    /\ deadline' = [deadline EXCEPT ![a] = t]
    /\ IF registered[a] THEN ReregisterAlarm(a, t) ELSE RegisterAlarm(a, t)
    /\ UNCHANGED <<now, alive, in_timeout, cbs, running, engine_alive>>

\* A delegate does not destroy its own alarm.
DestroyAlarm(a) ==
    /\ MayCall
    /\ a \in alive
    /\ a # running
    /\ alive' = alive \ {a}
    /\ deadline' = [deadline EXCEPT ![a] = 0]
    /\ UnregisterIfRegistered(a)
    /\ UNCHANGED <<now, in_timeout, cbs, running, engine_alive>>

\* StopApplication destroys the engine: Shutdown clears the map and tells the
\* alarms, and nothing cancels the simulator event.
DestroyEngine ==
    /\ Working
    /\ ~in_timeout
    /\ engine_alive
    /\ engine_alive' = FALSE
    /\ registered' = [a \in Alarms |-> registered[a] /\ a \notin DOMAIN alarm_map]
    /\ alarm_map' = Restrict(alarm_map, {})
    /\ UNCHANGED <<now, alive, deadline, timer, in_timeout, cbs, running, fault>>

-----------------------------------------------------------------------------
(* The simulator and OnTimeout.                                            *)

\* The event fires: OnTimeout takes the due entries out of the map.
TimerExpire ==
    /\ Working
    /\ ~in_timeout
    /\ timer = now
    /\ timer' = 0
    /\ LET batch == {a \in DOMAIN alarm_map : alarm_map[a].time <= now}
       IN  /\ cbs' = Restrict(alarm_map, batch)
           /\ alarm_map' = Restrict(alarm_map, DOMAIN alarm_map \ batch)
    /\ in_timeout' = engine_alive
    /\ fault' = IF engine_alive THEN "none" ELSE "engine_freed"
    /\ UNCHANGED <<now, alive, deadline, registered, running, engine_alive>>

\* The next callback of the batch: Ns3AlarmImpl::OnAlarm, then QuicAlarm::Fire,
\* which calls the delegate if the alarm is set.  OnAlarm returns 0, so the
\* engine's own loop and its RegisterAlarm are not taken.
FireNext(a) ==
    /\ Working
    /\ in_timeout
    /\ running = NoAlarm
    /\ a \in DOMAIN cbs
    /\ \A b \in DOMAIN cbs : Precedes(cbs[a], cbs[b])
    /\ cbs' = Restrict(cbs, DOMAIN cbs \ {a})
    /\ registered' = [registered EXCEPT ![a] = FALSE]
    /\ deadline' = [deadline EXCEPT ![a] = 0]
    /\ running' = IF deadline[a] = 0 THEN NoAlarm ELSE a
    /\ UNCHANGED <<now, alive, alarm_map, timer, in_timeout, engine_alive, fault>>

\* The delegate returns.
EndCallback ==
    /\ Working
    /\ running # NoAlarm
    /\ running' = NoAlarm
    /\ UNCHANGED <<now, alive, deadline, registered, alarm_map, timer,
                   in_timeout, cbs, engine_alive, fault>>

\* Mistake: no event is scheduled for what is left in the map.
FinishTimeout_NoRearm ==
    /\ Working
    /\ in_timeout
    /\ running = NoAlarm
    /\ DOMAIN cbs = {}
    /\ in_timeout' = FALSE
    /\ UNCHANGED <<now, alive, deadline, registered, alarm_map, timer, cbs, running,
                   engine_alive, fault>>

\* OnTimeout's last statement.
FinishTimeout ==
    /\ Working
    /\ in_timeout
    /\ running = NoAlarm
    /\ DOMAIN cbs = {}
    /\ UpdateTimer(alarm_map)
    /\ in_timeout' = FALSE
    /\ UNCHANGED <<now, alive, deadline, registered, alarm_map, cbs, running,
                   engine_alive>>

\* Time moves on when no event is left at this instant.
Tick ==
    /\ Working
    /\ ~in_timeout
    /\ timer = 0 \/ timer > now
    /\ now < Horizon
    /\ now' = now + 1
    /\ UNCHANGED <<alive, deadline, registered, alarm_map, timer, in_timeout,
                   cbs, running, engine_alive, fault>>

-----------------------------------------------------------------------------
\* One call of the simulated program.
Operation ==
    \/ \E a \in Alarms :
        \/ CreateAlarm(a)
        \/ Cancel(a)
        \/ DestroyAlarm(a)
        \/ \E t \in Requests : Set(a, t) \/ Update(a, t)
    \/ DestroyEngine

\* One step of the simulator's event loop.
EventLoop ==
    \/ TimerExpire
    \/ \E a \in Alarms : FireNext(a)
    \/ EndCallback
    \/ FinishTimeout
    \/ Tick

Next == Operation \/ EventLoop

Spec == Init /\ [][Next]_vars

-----------------------------------------------------------------------------
(* Properties.                                                             *)

TypeOK ==
    /\ now \in 1..Horizon
    /\ alive \subseteq Alarms
    /\ deadline \in [Alarms -> 0..Horizon]
    /\ registered \in [Alarms -> BOOLEAN]
    /\ DOMAIN alarm_map \subseteq Alarms
    /\ alarm_map \in [DOMAIN alarm_map -> Entry]
    /\ timer \in 0..Horizon
    /\ in_timeout \in BOOLEAN
    /\ DOMAIN cbs \subseteq Alarms
    /\ cbs \in [DOMAIN cbs -> Entry]
    /\ running \in Alarms \cup {NoAlarm}
    /\ engine_alive \in BOOLEAN
    /\ fault \in {"none"} \cup Asserts \cup Undefined

Sound == Working /\ engine_alive

(***************************************************************************)
(* An alarm quiche believes set is never lost: it is in the map, or in the *)
(* batch OnTimeout is working through, and registered_ says exactly that.  *)
(***************************************************************************)
SetAlarmIsHeld ==
    Sound => \A a \in Alarms :
        /\ deadline[a] # 0 <=> a \in DOMAIN alarm_map \cup DOMAIN cbs
        /\ registered[a] <=> a \in DOMAIN alarm_map \cup DOMAIN cbs
        /\ ~(a \in DOMAIN alarm_map /\ a \in DOMAIN cbs)

(***************************************************************************)
(* Between events the one simulator event covers every entry: it runs      *)
(* whenever the map holds an entry, and fires no later than the first one, *)
(* although UnregisterAlarm and ReregisterAlarm mostly leave it alone.     *)
(***************************************************************************)
TimerCovers ==
    Sound /\ ~in_timeout => \A a \in DOMAIN alarm_map :
        timer # 0 /\ now <= timer /\ timer <= alarm_map[a].time

(***************************************************************************)
(* No alarm is overdue: simulated time never passes the deadline of a set  *)
(* alarm by more than the lag of the request itself (with MaxLag = 0,      *)
(* never), whatever the callbacks did to the timer.                        *)
(***************************************************************************)
NeverOverdue ==
    Sound => \A a \in Alarms : deadline[a] # 0 => now <= deadline[a] + MaxLag

(***************************************************************************)
(* The alarms OnTimeout takes together are all due at this very instant,   *)
(* so the window in which a callback can touch an alarm that is out of the *)
(* map but not yet called is a tie of deadlines and nothing wider.         *)
(***************************************************************************)
BatchIsATie ==
    Sound => \A a \in DOMAIN cbs : cbs[a].time = now

(***************************************************************************)
(* Assertions that do hold: an alarm is not registered twice (the DCHECK   *)
(* of OnRegistration), ReregisterAlarm leaves a running timer, and unless  *)
(* quiche asks for a time already past no timer is scheduled in the past.  *)
(***************************************************************************)
AssertionsHold ==
    /\ fault \notin {"registered_twice", "timer_idle"}
    /\ MaxLag = 0 => fault # "timer_in_past"

(***************************************************************************)
(* The stale token is reached only from a delegate: an event of the        *)
(* simulated program that runs outside OnTimeout always finds the token of *)
(* a registered alarm valid, and so does the delegate of the last alarm of *)
(* a batch.                                                                *)
(***************************************************************************)
StaleTokenOnlyInBatch ==
    fault = "stale_token" => running # NoAlarm /\ DOMAIN cbs # {}

(***************************************************************************)
(* A delegate is called only at its alarm's instant: never early, never    *)
(* later than the request was, and never for an alarm that was cancelled,  *)
(* moved away or destroyed since, also not by a timer left over from it.   *)
(***************************************************************************)
Punctual ==
    [][\A a \in Alarms : running' = a /\ running # a =>
            /\ a \in alive
            /\ deadline[a] # 0
            /\ deadline[a] <= now
            /\ now <= deadline[a] + MaxLag]_vars

(***************************************************************************)
(* The assertion of UpdateTimer, that no event is scheduled in the past,   *)
(* fails exactly when a call moves an entry from now or later to before    *)
(* now, as ReregisterAlarm does with a late deadline and RegisterAlarm     *)
(* does not: never in a Set, never for what Unregister or a callback left  *)
(* in the map, and no such move gets past it.                              *)
(***************************************************************************)
LateSetIsClamped ==
    [][Working =>
        (fault' = "timer_in_past" <=>
            \E a \in DOMAIN alarm_map \cap DOMAIN alarm_map' :
                now <= alarm_map[a].time /\ alarm_map'[a].time < now)]_vars

-----------------------------------------------------------------------------
\* What quiche sees of the engine, as AlarmPromise states it.  The promise is
\* void once the program has failed or the engine is destroyed.
Promise == INSTANCE AlarmPromise WITH
    clock <- now,
    due <- deadline,
    ringing <- running,
    void <- fault # "none" \/ ~engine_alive

(***************************************************************************)
(* Refinement: every step of the engine is a step of AlarmPromise or       *)
(* leaves what quiche sees of it unchanged.                                *)
(***************************************************************************)
KeepsPromise == Promise!Spec
=============================================================================
