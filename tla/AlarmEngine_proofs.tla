------------------------ MODULE AlarmEngine_proofs ------------------------
(***************************************************************************)
(* Safety of the alarm engine for every set of alarms, every horizon and   *)
(* every lag of the requests.                                              *)
(***************************************************************************)
EXTENDS AlarmEngine, FiniteSetTheorems, TLAPS

USE EngineAssumption

(***************************************************************************)
(* The inductive invariant.  Beside the properties it must say that the    *)
(* entries carry the deadlines quiche asked for, that the simulator event  *)
(* precedes every entry whenever it runs (also inside OnTimeout, where it  *)
(* may not run although entries remain), and that a destroyed engine has   *)
(* let go of every alarm.                                                  *)
(***************************************************************************)
EntriesCarryDeadlines ==
    Sound => /\ \A a \in DOMAIN alarm_map :
                    /\ deadline[a] <= alarm_map[a].time
                    /\ alarm_map[a].time <= deadline[a] + MaxLag
                    /\ now <= alarm_map[a].time
             /\ \A a \in DOMAIN cbs :
                    /\ deadline[a] <= cbs[a].time
                    /\ cbs[a].time <= deadline[a] + MaxLag
                    /\ cbs[a].time = now

TimerPrecedes ==
    Working /\ timer # 0 =>
        /\ now <= timer
        /\ engine_alive => \A a \in DOMAIN alarm_map : timer <= alarm_map[a].time

TimerRuns ==
    Sound /\ ~in_timeout /\ timer = 0 => DOMAIN alarm_map = {}

ControlOK ==
    /\ Working /\ ~in_timeout => DOMAIN cbs = {} /\ running = NoAlarm
    /\ ~engine_alive => ~in_timeout
    /\ Working => \A a \in Alarms : deadline[a] # 0 => a \in alive

FreedIsClean ==
    Working /\ ~engine_alive =>
        /\ DOMAIN alarm_map = {}
        /\ \A a \in Alarms : ~registered[a]

IInv ==
    /\ TypeOK
    /\ SetAlarmIsHeld
    /\ EntriesCarryDeadlines
    /\ TimerPrecedes
    /\ TimerRuns
    /\ ControlOK
    /\ FreedIsClean
    /\ AssertionsHold
    /\ StaleTokenOnlyInBatch

-----------------------------------------------------------------------------
(* Lemmas on the multimap.                                                 *)

LEMMA InsertFacts ==
    ASSUME NEW m, DOMAIN m \subseteq Alarms, m \in [DOMAIN m -> Entry],
           NEW a \in Alarms, NEW t \in Nat
    PROVE  /\ DOMAIN Insert(m, a, t) = DOMAIN m \cup {a}
           /\ Insert(m, a, t) \in [DOMAIN m \cup {a} -> Entry]
           /\ Insert(m, a, t)[a].time = t
           /\ \A b \in DOMAIN m \ {a} : Insert(m, a, t)[b] = m[b]
<1> DEFINE ties == {c \in DOMAIN m : m[c].time = t}
<1>1. Cardinality(ties) \in Nat
    <2>1. ties \subseteq Alarms
        OBVIOUS
    <2>2. IsFiniteSet(ties)
        BY <2>1, FS_Subset
    <2> QED BY <2>2, FS_CardinalityType
<1>2. [time |-> t, rank |-> Cardinality(ties)] \in Entry
    BY <1>1 DEF Entry
<1>3. \A b \in DOMAIN m : m[b] \in Entry
    OBVIOUS
<1> HIDE DEF ties
<1>4. Insert(m, a, t) =
        [b \in DOMAIN m \cup {a} |->
            IF b = a THEN [time |-> t, rank |-> Cardinality(ties)] ELSE m[b]]
    BY DEF Insert, ties
<1> QED BY <1>2, <1>3, <1>4

LEMMA EraseFacts ==
    ASSUME NEW m, m \in [DOMAIN m -> Entry], NEW a \in DOMAIN m
    PROVE  /\ DOMAIN Erase(m, a) = DOMAIN m \ {a}
           /\ Erase(m, a) \in [DOMAIN m \ {a} -> Entry]
           /\ \A b \in DOMAIN m \ {a} : Erase(m, a)[b].time = m[b].time
<1>1. SUFFICES ASSUME NEW b \in DOMAIN m \ {a}
      PROVE  LET e == IF m[b].time = m[a].time /\ m[b].rank > m[a].rank
                      THEN [m[b] EXCEPT !.rank = @ - 1]
                      ELSE m[b]
             IN  e \in Entry /\ e.time = m[b].time
    BY DEF Erase
<1>2. m[a] \in Entry /\ m[b] \in Entry
    OBVIOUS
<1>3. CASE m[b].time = m[a].time /\ m[b].rank > m[a].rank
    <2>1. [m[b] EXCEPT !.rank = @ - 1] = [time |-> m[b].time, rank |-> m[b].rank - 1]
        BY <1>2 DEF Entry
    <2>2. m[b].rank - 1 \in Nat
        BY <1>2, <1>3 DEF Entry
    <2> QED BY <1>2, <1>3, <2>1, <2>2 DEF Entry
<1>4. CASE ~(m[b].time = m[a].time /\ m[b].rank > m[a].rank)
    BY <1>2, <1>4
<1> QED BY <1>3, <1>4

\* Rescheduling for a map without overdue entries gives an event that covers
\* it, and no assertion fails.
LEMMA UpdateTimerFacts ==
    ASSUME NEW m, m \in [DOMAIN m -> Entry], UpdateTimer(m),
           now \in 1..Horizon, Working,
           \A b \in DOMAIN m : now <= m[b].time
    PROVE  /\ timer' \in 0..Horizon
           /\ fault' = "none"
           /\ timer' = 0 <=> DOMAIN m = {}
           /\ timer' # 0 => now <= timer' /\ \A b \in DOMAIN m : timer' <= m[b].time
<1>1. PICK t \in 0..Horizon :
        /\ IsEarliest(m, t)
        /\ timer' = IF t < now THEN 0 ELSE t
        /\ fault' = IF t # 0 /\ t < now THEN "timer_in_past" ELSE fault
    BY DEF UpdateTimer
<1>2. CASE DOMAIN m = {}
    BY <1>1, <1>2 DEF IsEarliest, Working
<1>3. CASE DOMAIN m # {}
    <2>1. PICK a \in DOMAIN m : m[a].time = t
        BY <1>1, <1>3 DEF IsEarliest
    <2>2. now <= t /\ t # 0
        BY <2>1
    <2> QED BY <1>1, <1>3, <2>2 DEF IsEarliest, Working
<1> QED BY <1>2, <1>3

-----------------------------------------------------------------------------
(* Lemmas on the engine's routines.                                        *)

\* RegisterAlarm of an alarm that is not registered: unless the engine is
\* gone, it gets an entry at its time, or now, and the event covers it.
LEMMA RegisterFacts ==
    ASSUME IInv, Working, NEW a \in Alarms, NEW t \in Requests,
           ~registered[a], RegisterAlarm(a, t)
    PROVE  /\ registered' \in [Alarms -> BOOLEAN]
           /\ DOMAIN alarm_map' \subseteq Alarms
           /\ alarm_map' \in [DOMAIN alarm_map' -> Entry]
           /\ timer' \in 0..Horizon
           /\ fault' \in {"none", "engine_freed"}
           /\ fault' = "engine_freed" => ~engine_alive
           /\ fault' = "none" =>
                /\ engine_alive
                /\ a \notin DOMAIN alarm_map
                /\ registered' = [registered EXCEPT ![a] = TRUE]
                /\ DOMAIN alarm_map' = DOMAIN alarm_map \cup {a}
                /\ \A b \in DOMAIN alarm_map : alarm_map'[b] = alarm_map[b]
                /\ alarm_map'[a].time = IF t < now THEN now ELSE t
                /\ timer' # 0
                /\ now <= timer'
                /\ \A b \in DOMAIN alarm_map' : timer' <= alarm_map'[b].time
<1> DEFINE u == IF t < now THEN now ELSE t
           m == Insert(alarm_map, a, u)
           update == \A b \in DOMAIN alarm_map : u < alarm_map[b].time
<1> USE DEF IInv, TypeOK, Working, Sound
<1>1. u \in Nat /\ u \in 1..Horizon /\ now <= u
    BY DEF Requests
<1>2. CASE ~engine_alive
    BY <1>2 DEF RegisterAlarm, Abort, Asserts, Undefined
<1>3. CASE engine_alive
    <2>1. a \notin DOMAIN alarm_map
        BY <1>3 DEF SetAlarmIsHeld
    <2>2. /\ alarm_map' = m
          /\ registered' = [registered EXCEPT ![a] = @ \/ a \notin DOMAIN alarm_map]
          /\ IF timer = 0 \/ update THEN UpdateTimer(m) ELSE UNCHANGED <<timer, fault>>
        BY <1>3, <2>1 DEF RegisterAlarm
    <2>3. /\ DOMAIN m = DOMAIN alarm_map \cup {a}
          /\ m \in [DOMAIN alarm_map \cup {a} -> Entry]
          /\ m[a].time = u
          /\ \A b \in DOMAIN alarm_map \ {a} : m[b] = alarm_map[b]
        <3> HIDE DEF u
        <3>1. u \in Nat /\ DOMAIN alarm_map \subseteq Alarms
                /\ alarm_map \in [DOMAIN alarm_map -> Entry]
            BY <1>1
        <3> QED BY ONLY <3>1, a \in Alarms, InsertFacts
    <2> HIDE DEF m, u
    <2>4. \A b \in DOMAIN alarm_map : now <= alarm_map[b].time
        BY <1>3 DEF EntriesCarryDeadlines
    <2>5. \A b \in DOMAIN m : now <= m[b].time
        BY <1>1, <2>1, <2>3, <2>4
    <2>6. registered' = [registered EXCEPT ![a] = TRUE]
        BY <2>1, <2>2
    <2>7. CASE timer = 0 \/ update
        BY <1>3, <2>1, <2>2, <2>3, <2>5, <2>6, <2>7, UpdateTimerFacts DEF u
    <2>8. CASE timer # 0 /\ ~update
        <3>1. \A b \in DOMAIN alarm_map : timer <= alarm_map[b].time
            BY <1>3, <2>8 DEF TimerPrecedes
        <3>2. PICK c \in DOMAIN alarm_map : alarm_map[c].time <= u
            <4>1. \A b \in DOMAIN alarm_map : alarm_map[b].time \in Nat
                BY DEF Entry
            <4> QED BY <1>1, <2>8, <4>1 DEF u
        <3>3. \A b \in DOMAIN alarm_map : alarm_map[b].time \in Nat
            BY DEF Entry
        <3>4. timer <= u
            BY <1>1, <3>1, <3>2, <3>3
        <3>5. \A b \in DOMAIN m : timer <= m[b].time
            BY <2>1, <2>3, <3>1, <3>4
        <3>6. now <= timer
            BY <2>8 DEF TimerPrecedes
        <3>7. timer' = timer /\ fault' = "none" /\ alarm_map' = m
            BY <2>2, <2>8
        <3> HIDE DEF update
        <3> QED BY <1>3, <2>1, <2>3, <2>6, <2>8, <3>5, <3>6, <3>7 DEF u
    <2> QED BY <2>7, <2>8
<1> QED BY <1>2, <1>3

\* UnregisterAlarm, when registered_ says so: the token is dead only for an
\* alarm that waits in the batch of an OnTimeout.
LEMMA UnregisterFacts ==
    ASSUME IInv, MayCall, NEW a \in Alarms, UnregisterIfRegistered(a)
    PROVE  /\ registered' \in [Alarms -> BOOLEAN]
           /\ DOMAIN alarm_map' \subseteq Alarms
           /\ alarm_map' \in [DOMAIN alarm_map' -> Entry]
           /\ timer' = timer
           /\ fault' \in {"none", "stale_token"}
           /\ fault' = "stale_token" => running # NoAlarm /\ DOMAIN cbs # {}
           /\ fault' = "stale_token" => alarm_map' = alarm_map
           /\ fault' = "none" =>
                /\ registered' = [registered EXCEPT ![a] = FALSE]
                /\ DOMAIN alarm_map' = DOMAIN alarm_map \ {a}
                /\ \A b \in DOMAIN alarm_map' : alarm_map'[b].time = alarm_map[b].time
                /\ engine_alive => a \notin DOMAIN cbs
<1> USE DEF IInv, TypeOK, MayCall, Working, Sound
<1>1. CASE ~registered[a]
    <2>1. UNCHANGED <<registered, alarm_map, timer, fault>>
        BY <1>1 DEF UnregisterIfRegistered
    <2>2. registered = [registered EXCEPT ![a] = FALSE]
        BY <1>1
    <2>3. a \notin DOMAIN alarm_map
        BY <1>1 DEF SetAlarmIsHeld, FreedIsClean
    <2>4. engine_alive => a \notin DOMAIN cbs
        BY <1>1 DEF SetAlarmIsHeld
    <2> QED BY <2>1, <2>2, <2>3, <2>4
<1>2. CASE registered[a] /\ a \notin DOMAIN alarm_map
    <2>1. Abort("stale_token")
        BY <1>2 DEF UnregisterIfRegistered, UnregisterAlarm
    <2>2. engine_alive /\ a \in DOMAIN cbs
        BY <1>2 DEF SetAlarmIsHeld, FreedIsClean
    <2>3. running # NoAlarm
        BY <2>2 DEF ControlOK
    <2> QED BY <2>1, <2>2, <2>3 DEF Abort
<1>3. CASE registered[a] /\ a \in DOMAIN alarm_map
    <2>1. /\ alarm_map' = Erase(alarm_map, a)
          /\ registered' = [registered EXCEPT ![a] = FALSE]
          /\ UNCHANGED <<timer, fault>>
        BY <1>3 DEF UnregisterIfRegistered, UnregisterAlarm
    <2>2. /\ DOMAIN Erase(alarm_map, a) = DOMAIN alarm_map \ {a}
          /\ Erase(alarm_map, a) \in [DOMAIN alarm_map \ {a} -> Entry]
          /\ \A b \in DOMAIN alarm_map \ {a} :
                Erase(alarm_map, a)[b].time = alarm_map[b].time
        BY <1>3, EraseFacts
    <2>3. engine_alive => a \notin DOMAIN cbs
        BY <1>3 DEF SetAlarmIsHeld
    <2> QED BY <2>1, <2>2, <2>3
<1> QED BY <1>1, <1>2, <1>3

\* ReregisterAlarm of a registered alarm: the same, and it may fail on the
\* only entry of the map, or on a time that is already past.
LEMMA ReregisterFacts ==
    ASSUME IInv, MayCall, NEW a \in Alarms, NEW t \in Requests,
           registered[a], ReregisterAlarm(a, t)
    PROVE  /\ registered' = registered
           /\ DOMAIN alarm_map' \subseteq Alarms
           /\ alarm_map' \in [DOMAIN alarm_map' -> Entry]
           /\ timer' \in 0..Horizon
           /\ fault' \in {"none", "stale_token", "map_empty", "timer_in_past"}
           /\ fault' = "timer_in_past" => MaxLag # 0
           /\ fault' = "timer_in_past" =>
                /\ t < now
                /\ a \in DOMAIN alarm_map
                /\ a \in DOMAIN alarm_map'
                /\ alarm_map'[a].time = t
           /\ fault' \in {"stale_token", "map_empty"} => alarm_map' = alarm_map
           /\ fault' = "stale_token" => running # NoAlarm /\ DOMAIN cbs # {}
           /\ fault' = "none" =>
                /\ engine_alive
                /\ a \in DOMAIN alarm_map
                /\ DOMAIN alarm_map' = DOMAIN alarm_map
                /\ \A b \in DOMAIN alarm_map \ {a} :
                        alarm_map'[b].time = alarm_map[b].time
                /\ alarm_map'[a].time = t
                /\ now <= t
                /\ timer' # 0
                /\ now <= timer'
                /\ \A b \in DOMAIN alarm_map' : timer' <= alarm_map'[b].time
<1> DEFINE rest == Erase(alarm_map, a)
           m == Insert(rest, a, t)
           update == timer = 0 \/ \A b \in DOMAIN rest : t < rest[b].time
<1> USE DEF IInv, TypeOK, MayCall, Working, Sound
<1>1. t \in Nat /\ t \in 1..Horizon /\ t + MaxLag >= now
    BY DEF Requests
<1>2. engine_alive
    BY DEF FreedIsClean
<1>3. CASE a \notin DOMAIN alarm_map
    <2>1. Abort("stale_token")
        BY <1>3 DEF ReregisterAlarm
    <2>2. a \in DOMAIN cbs
        BY <1>2, <1>3 DEF SetAlarmIsHeld
    <2>3. running # NoAlarm
        BY <2>2 DEF ControlOK
    <2> QED BY <2>1, <2>2, <2>3 DEF Abort
<1>4. CASE a \in DOMAIN alarm_map
    <2>1. /\ DOMAIN rest = DOMAIN alarm_map \ {a}
          /\ rest \in [DOMAIN alarm_map \ {a} -> Entry]
          /\ \A b \in DOMAIN alarm_map \ {a} : rest[b].time = alarm_map[b].time
        BY <1>4, EraseFacts
    <2> HIDE DEF rest
    <2>2. /\ DOMAIN m = DOMAIN alarm_map
          /\ m \in [DOMAIN alarm_map -> Entry]
          /\ m[a].time = t
          /\ \A b \in DOMAIN alarm_map \ {a} : m[b].time = alarm_map[b].time
        <3>1. /\ t \in Nat /\ DOMAIN rest \subseteq Alarms
              /\ rest \in [DOMAIN rest -> Entry]
            BY <1>1, <2>1
        <3>2. /\ DOMAIN m = DOMAIN rest \cup {a}
              /\ m \in [DOMAIN rest \cup {a} -> Entry]
              /\ m[a].time = t
              /\ \A b \in DOMAIN rest \ {a} : m[b] = rest[b]
            BY ONLY <3>1, a \in Alarms, InsertFacts
        <3> QED BY <1>4, <2>1, <3>2
    <2> HIDE DEF m
    <2>3. CASE DOMAIN rest = {}
        <3>1. Abort("map_empty")
            BY <1>4, <2>3 DEF ReregisterAlarm, rest
        <3> QED BY <3>1 DEF Abort
    <2>4. CASE DOMAIN rest # {}
        <3>1. /\ alarm_map' = m
              /\ registered' = registered
              /\ IF update
                 THEN UpdateTimer(m)
                 ELSE /\ UNCHANGED timer
                      /\ fault' = IF timer = 0 THEN "timer_idle" ELSE fault
            BY <1>4, <2>4 DEF ReregisterAlarm, rest, m
        <3>2. \A b \in DOMAIN alarm_map : now <= alarm_map[b].time /\ alarm_map[b].time \in Nat
            BY <1>2 DEF EntriesCarryDeadlines, Entry
        <3>3. CASE update /\ now <= t
            <4>1. \A b \in DOMAIN m : now <= m[b].time
                BY <2>2, <3>2, <3>3
            <4>2. UpdateTimer(m)
                BY <3>1, <3>3
            <4>3. DOMAIN m # {}
                BY <1>4, <2>2
            <4>4. /\ timer' \in 0..Horizon
                  /\ fault' = "none"
                  /\ timer' = 0 <=> DOMAIN m = {}
                  /\ timer' # 0 => now <= timer' /\ \A b \in DOMAIN m : timer' <= m[b].time
                BY <2>2, <4>1, <4>2, UpdateTimerFacts
            <4> QED BY <1>2, <1>4, <2>2, <3>1, <3>3, <4>3, <4>4
        <3>4. CASE update /\ t < now
            <4>1. PICK e \in 0..Horizon :
                    /\ IsEarliest(m, e)
                    /\ timer' = IF e < now THEN 0 ELSE e
                    /\ fault' = IF e # 0 /\ e < now THEN "timer_in_past" ELSE fault
                BY <3>1, <3>4 DEF UpdateTimer
            <4>2. e <= t /\ \E b \in DOMAIN m : m[b].time = e
                BY <1>4, <2>2, <4>1 DEF IsEarliest
            <4>3. e # 0
                <5>1. PICK b \in DOMAIN m : m[b].time = e
                    BY <4>2
                <5>2. CASE b = a
                    BY <1>1, <2>2, <5>1, <5>2
                <5>3. CASE b # a
                    BY <2>2, <3>2, <5>1, <5>3
                <5> QED BY <5>2, <5>3
            <4>4. fault' = "timer_in_past" /\ timer' = 0
                BY <1>1, <3>4, <4>1, <4>2, <4>3
            <4> QED BY <1>1, <1>4, <2>2, <3>1, <3>4, <4>4
        <3>5. CASE ~update
            <4>1. timer # 0
                BY <3>5
            <4>2. /\ now <= timer
                  /\ \A b \in DOMAIN alarm_map : timer <= alarm_map[b].time
                BY <1>2, <4>1 DEF TimerPrecedes
            <4>3. PICK c \in DOMAIN rest : rest[c].time <= t
                <5>1. \A b \in DOMAIN rest : rest[b].time \in Nat
                    BY <2>1, <3>2
                <5> QED BY <1>1, <3>5, <5>1
            <4>4. timer <= t
                BY <1>1, <2>1, <3>2, <4>2, <4>3
            <4>5. \A b \in DOMAIN m : timer <= m[b].time
                BY <2>2, <4>2, <4>4
            <4>6. now <= t
                BY <1>1, <4>2, <4>4
            <4>7. fault' = "none" /\ timer' = timer
                BY <3>1, <3>5, <4>1
            <4> QED BY <1>2, <1>4, <2>2, <3>1, <4>1, <4>2, <4>5, <4>6, <4>7
        <3> QED BY <1>1, <3>3, <3>4, <3>5
    <2> QED BY <2>3, <2>4
<1> QED BY <1>3, <1>4

-----------------------------------------------------------------------------
(* The invariant is inductive.                                             *)

LEMMA InitIInv == Init => IInv
<1> SUFFICES ASSUME Init PROVE IInv
    OBVIOUS
<1> USE DEF Init
<1>1. DOMAIN alarm_map = {} /\ alarm_map \in [{} -> Entry]
    BY DEF Entry
<1>2. TypeOK
    <2>1. cbs = alarm_map
        OBVIOUS
    <2>2. now \in 1..Horizon /\ timer \in 0..Horizon
        OBVIOUS
    <2>3. deadline \in [Alarms -> 0..Horizon] /\ registered \in [Alarms -> BOOLEAN]
        OBVIOUS
    <2>4. in_timeout \in BOOLEAN /\ engine_alive \in BOOLEAN
        OBVIOUS
    <2>5. fault \in {"none"} \cup Asserts \cup Undefined
        OBVIOUS
    <2>6. alive \subseteq Alarms /\ running \in Alarms \cup {NoAlarm}
        OBVIOUS
    <2> QED BY ONLY <1>1, <2>1, <2>2, <2>3, <2>4, <2>5, <2>6 DEF TypeOK
<1> QED BY <1>1, <1>2 DEF IInv, SetAlarmIsHeld, EntriesCarryDeadlines, TimerPrecedes,
        TimerRuns, ControlOK, FreedIsClean, AssertionsHold, StaleTokenOnlyInBatch

LEMMA CreateAlarmIInv ==
    ASSUME IInv, NEW a \in Alarms, CreateAlarm(a) PROVE IInv'
<1> USE DEF IInv, CreateAlarm, MayCall, Working, Sound
<1>1. TypeOK'
    BY DEF TypeOK
<1>2. SetAlarmIsHeld' /\ EntriesCarryDeadlines'
    BY DEF SetAlarmIsHeld, EntriesCarryDeadlines
<1>3. TimerPrecedes' /\ TimerRuns' /\ FreedIsClean'
    BY DEF TimerPrecedes, TimerRuns, FreedIsClean
<1>4. ControlOK'
    BY DEF ControlOK
<1>5. AssertionsHold' /\ StaleTokenOnlyInBatch'
    BY DEF AssertionsHold, StaleTokenOnlyInBatch
<1> QED BY <1>1, <1>2, <1>3, <1>4, <1>5

LEMMA SetIInv ==
    ASSUME IInv, NEW a \in Alarms, NEW t \in Requests, Set(a, t) PROVE IInv'
<1> USE DEF IInv, Set, MayCall, Working, Sound
<1>1. ~registered[a] /\ (engine_alive => a \notin DOMAIN alarm_map \cup DOMAIN cbs)
    BY DEF SetAlarmIsHeld, FreedIsClean
<1>2. /\ registered' \in [Alarms -> BOOLEAN]
      /\ DOMAIN alarm_map' \subseteq Alarms
      /\ alarm_map' \in [DOMAIN alarm_map' -> Entry]
      /\ timer' \in 0..Horizon
      /\ fault' \in {"none", "engine_freed"}
      /\ fault' = "none" =>
            /\ engine_alive
            /\ a \notin DOMAIN alarm_map
            /\ registered' = [registered EXCEPT ![a] = TRUE]
            /\ DOMAIN alarm_map' = DOMAIN alarm_map \cup {a}
            /\ \A b \in DOMAIN alarm_map : alarm_map'[b] = alarm_map[b]
            /\ alarm_map'[a].time = IF t < now THEN now ELSE t
            /\ timer' # 0
            /\ now <= timer'
            /\ \A b \in DOMAIN alarm_map' : timer' <= alarm_map'[b].time
    BY <1>1, RegisterFacts
<1>3. t \in 1..Horizon /\ t + MaxLag >= now /\ now \in 1..Horizon
    BY DEF Requests, TypeOK
<1>4. TypeOK'
    <2>1. deadline' \in [Alarms -> 0..Horizon]
        BY <1>3 DEF TypeOK
    <2>2. fault' \in {"none"} \cup Asserts \cup Undefined
        BY <1>2 DEF Undefined
    <2>3. UNCHANGED <<now, alive, in_timeout, cbs, running, engine_alive>>
        OBVIOUS
    <2> HIDE DEF Set, MayCall, Working, Sound
    <2> QED BY <1>2, <2>1, <2>2, <2>3 DEF TypeOK
<1>5. SetAlarmIsHeld'
    <2> SUFFICES ASSUME Sound', NEW b \in Alarms
                 PROVE  /\ deadline'[b] # 0 <=> b \in DOMAIN alarm_map' \cup DOMAIN cbs'
                        /\ registered'[b] <=> b \in DOMAIN alarm_map' \cup DOMAIN cbs'
                        /\ ~(b \in DOMAIN alarm_map' /\ b \in DOMAIN cbs')
        BY DEF SetAlarmIsHeld
    <2>1. CASE b = a
        BY <1>1, <1>2, <1>3, <2>1 DEF TypeOK
    <2>2. CASE b # a
        BY <1>2, <2>2 DEF TypeOK, SetAlarmIsHeld
    <2> QED BY <2>1, <2>2
<1>6. EntriesCarryDeadlines'
    <2> SUFFICES ASSUME Sound' PROVE EntriesCarryDeadlines'
        BY DEF EntriesCarryDeadlines
    <2>1. \A b \in DOMAIN alarm_map' :
            /\ deadline'[b] <= alarm_map'[b].time
            /\ alarm_map'[b].time <= deadline'[b] + MaxLag
            /\ now <= alarm_map'[b].time
        <3> TAKE b \in DOMAIN alarm_map'
        <3>1. CASE b = a
            BY <1>2, <1>3, <3>1 DEF TypeOK
        <3>2. CASE b # a
            BY <1>2, <3>2 DEF TypeOK, EntriesCarryDeadlines
        <3> QED BY <3>1, <3>2
    <2>2. \A b \in DOMAIN cbs : deadline'[b] = deadline[b]
        BY <1>1, <1>2 DEF TypeOK
    <2> QED BY <1>2, <2>1, <2>2 DEF EntriesCarryDeadlines
<1>7. TimerPrecedes' /\ TimerRuns' /\ FreedIsClean'
    <2>1. CASE fault' = "none"
        BY <1>2, <2>1 DEF TimerPrecedes, TimerRuns, FreedIsClean
    <2>2. CASE fault' # "none"
        BY <2>2 DEF TimerPrecedes, TimerRuns, FreedIsClean
    <2> QED BY <2>1, <2>2
<1>8. ControlOK'
    BY <1>2 DEF ControlOK, TypeOK
<1>9. AssertionsHold' /\ StaleTokenOnlyInBatch'
    BY <1>2 DEF AssertionsHold, StaleTokenOnlyInBatch
<1> QED BY <1>4, <1>5, <1>6, <1>7, <1>8, <1>9

\* Cancel and DestroyAlarm differ in alive only.
LEMMA UnregisterIInv ==
    ASSUME IInv, MayCall, NEW a \in Alarms,
           UnregisterIfRegistered(a),
           deadline' = [deadline EXCEPT ![a] = 0],
           alive' \in {alive, alive \ {a}},
           UNCHANGED <<now, in_timeout, cbs, running, engine_alive>>
    PROVE  IInv'
<1> USE DEF IInv, MayCall, Working, Sound
<1>1. /\ registered' \in [Alarms -> BOOLEAN]
      /\ DOMAIN alarm_map' \subseteq Alarms
      /\ alarm_map' \in [DOMAIN alarm_map' -> Entry]
      /\ timer' = timer
      /\ fault' \in {"none", "stale_token"}
      /\ fault' = "stale_token" => running # NoAlarm /\ DOMAIN cbs # {}
      /\ fault' = "none" =>
            /\ registered' = [registered EXCEPT ![a] = FALSE]
            /\ DOMAIN alarm_map' = DOMAIN alarm_map \ {a}
            /\ \A b \in DOMAIN alarm_map' : alarm_map'[b].time = alarm_map[b].time
            /\ engine_alive => a \notin DOMAIN cbs
    BY UnregisterFacts
<1>2. /\ deadline' \in [Alarms -> 0..Horizon]
      /\ deadline'[a] = 0
      /\ \A b \in Alarms \ {a} : deadline'[b] = deadline[b]
    BY DEF TypeOK
<1>3. TypeOK'
    BY <1>1, <1>2 DEF TypeOK, Undefined
<1>4. SetAlarmIsHeld'
    <2> SUFFICES ASSUME Sound', NEW b \in Alarms
                 PROVE  /\ deadline'[b] # 0 <=> b \in DOMAIN alarm_map' \cup DOMAIN cbs'
                        /\ registered'[b] <=> b \in DOMAIN alarm_map' \cup DOMAIN cbs'
                        /\ ~(b \in DOMAIN alarm_map' /\ b \in DOMAIN cbs')
        BY DEF SetAlarmIsHeld
    <2>1. CASE b = a
        BY <1>1, <1>2, <2>1 DEF TypeOK
    <2>2. CASE b # a
        BY <1>1, <1>2, <2>2 DEF TypeOK, SetAlarmIsHeld
    <2> QED BY <2>1, <2>2
<1>5. EntriesCarryDeadlines'
    <2> SUFFICES ASSUME Sound' PROVE EntriesCarryDeadlines'
        BY DEF EntriesCarryDeadlines
    <2>1. \A b \in DOMAIN alarm_map' :
            b \in DOMAIN alarm_map /\ deadline'[b] = deadline[b]
                /\ alarm_map'[b].time = alarm_map[b].time
        BY <1>1, <1>2 DEF TypeOK
    <2>2. \A b \in DOMAIN cbs : deadline'[b] = deadline[b]
        BY <1>1, <1>2 DEF TypeOK
    <2>3. Sound
        BY <1>1
    <2> QED BY <2>1, <2>2, <2>3 DEF EntriesCarryDeadlines
<1>6. TimerPrecedes' /\ TimerRuns' /\ FreedIsClean'
    BY <1>1 DEF TimerPrecedes, TimerRuns, FreedIsClean, TypeOK
<1>7. ControlOK'
    BY <1>1, <1>2 DEF ControlOK
<1>8. AssertionsHold' /\ StaleTokenOnlyInBatch'
    BY <1>1 DEF AssertionsHold, StaleTokenOnlyInBatch
<1> QED BY <1>3, <1>4, <1>5, <1>6, <1>7, <1>8

LEMMA CancelIInv ==
    ASSUME IInv, NEW a \in Alarms, Cancel(a) PROVE IInv'
BY UnregisterIInv DEF Cancel

LEMMA DestroyAlarmIInv ==
    ASSUME IInv, NEW a \in Alarms, DestroyAlarm(a) PROVE IInv'
BY UnregisterIInv DEF DestroyAlarm

LEMMA UpdateIInv ==
    ASSUME IInv, NEW a \in Alarms, NEW t \in Requests, Update(a, t) PROVE IInv'
<1> USE DEF IInv, MayCall, Working, Sound
<1>0. /\ MayCall /\ deadline[a] # 0
      /\ deadline' = [deadline EXCEPT ![a] = t]
      /\ UNCHANGED <<now, alive, in_timeout, cbs, running, engine_alive>>
    BY DEF Update
<1>1. t \in 1..Horizon /\ t + MaxLag >= now /\ now \in 1..Horizon
    BY DEF Requests, TypeOK
<1>2. engine_alive => registered[a]
    BY <1>0 DEF SetAlarmIsHeld
<1>3. CASE ~registered[a]
    <2>1. RegisterAlarm(a, t) /\ ~engine_alive
        BY <1>2, <1>3 DEF Update
    <2>2. Abort("engine_freed")
        BY <2>1 DEF RegisterAlarm
    <2>3. TypeOK'
        <3>1. deadline' \in [Alarms -> 0..Horizon]
            BY <1>0, <1>1 DEF TypeOK
        <3>2. fault' \in {"none"} \cup Asserts \cup Undefined
            BY <2>2 DEF Abort, Undefined
        <3> QED BY <1>0, <2>2, <3>1, <3>2 DEF TypeOK, Abort
    <2>4. fault' = "engine_freed" /\ UNCHANGED <<in_timeout, engine_alive>>
        BY <1>0, <2>2 DEF Abort
    <2> QED BY <2>3, <2>4 DEF SetAlarmIsHeld, EntriesCarryDeadlines, TimerPrecedes,
            TimerRuns, ControlOK, FreedIsClean, AssertionsHold, StaleTokenOnlyInBatch
<1>4. CASE registered[a]
    <2>1. ReregisterAlarm(a, t)
        BY <1>4 DEF Update
    <2>2. /\ registered' = registered
          /\ DOMAIN alarm_map' \subseteq Alarms
          /\ alarm_map' \in [DOMAIN alarm_map' -> Entry]
          /\ timer' \in 0..Horizon
          /\ fault' \in {"none", "stale_token", "map_empty", "timer_in_past"}
          /\ fault' = "timer_in_past" => MaxLag # 0
          /\ fault' = "stale_token" => running # NoAlarm /\ DOMAIN cbs # {}
          /\ fault' = "none" =>
                /\ engine_alive
                /\ a \in DOMAIN alarm_map
                /\ DOMAIN alarm_map' = DOMAIN alarm_map
                /\ \A b \in DOMAIN alarm_map \ {a} :
                        alarm_map'[b].time = alarm_map[b].time
                /\ alarm_map'[a].time = t
                /\ now <= t
                /\ timer' # 0
                /\ now <= timer'
                /\ \A b \in DOMAIN alarm_map' : timer' <= alarm_map'[b].time
        BY <1>0, <1>4, <2>1, ReregisterFacts
    <2>3. /\ deadline' \in [Alarms -> 0..Horizon]
          /\ deadline'[a] = t
          /\ \A b \in Alarms \ {a} : deadline'[b] = deadline[b]
        BY <1>0, <1>1 DEF TypeOK
    <2>4. TypeOK'
        <3>1. fault' \in {"none"} \cup Asserts \cup Undefined
            BY <2>2 DEF Asserts, Undefined
        <3>2. registered' \in [Alarms -> BOOLEAN]
            BY <2>2 DEF TypeOK
        <3> QED BY <1>0, <2>2, <2>3, <3>1, <3>2 DEF TypeOK
    <2>5. AssertionsHold' /\ StaleTokenOnlyInBatch' /\ ControlOK'
        BY <1>0, <2>2, <2>3 DEF AssertionsHold, StaleTokenOnlyInBatch, ControlOK
    <2>6. CASE fault' # "none"
        BY <2>4, <2>5, <2>6 DEF SetAlarmIsHeld, EntriesCarryDeadlines, TimerPrecedes,
            TimerRuns, FreedIsClean
    <2>7. CASE fault' = "none"
        <3>1. Sound /\ a \notin DOMAIN cbs
            BY <1>0, <2>2, <2>7 DEF SetAlarmIsHeld
        <3>2. SetAlarmIsHeld'
            BY <1>0, <1>1, <2>2, <2>3, <2>7, <3>1 DEF SetAlarmIsHeld, TypeOK
        <3>3. EntriesCarryDeadlines'
            <4>1. \A b \in DOMAIN alarm_map' :
                    /\ deadline'[b] <= alarm_map'[b].time
                    /\ alarm_map'[b].time <= deadline'[b] + MaxLag
                    /\ now <= alarm_map'[b].time
                <5> TAKE b \in DOMAIN alarm_map'
                <5>1. CASE b = a
                    BY <1>1, <2>2, <2>3, <2>7, <5>1
                <5>2. CASE b # a
                    BY <2>2, <2>3, <2>7, <3>1, <5>2 DEF EntriesCarryDeadlines, TypeOK
                <5> QED BY <5>1, <5>2
            <4>2. \A b \in DOMAIN cbs : deadline'[b] = deadline[b]
                BY <2>3, <3>1 DEF TypeOK
            <4> QED BY <1>0, <3>1, <4>1, <4>2 DEF EntriesCarryDeadlines
        <3>4. TimerPrecedes' /\ TimerRuns' /\ FreedIsClean'
            BY <1>0, <2>2, <2>7 DEF TimerPrecedes, TimerRuns, FreedIsClean
        <3> QED BY <2>4, <2>5, <3>2, <3>3, <3>4
    <2> QED BY <2>6, <2>7
<1> QED BY <1>3, <1>4

LEMMA DestroyEngineIInv ==
    ASSUME IInv, DestroyEngine PROVE IInv'
<1> USE DEF IInv, DestroyEngine, Working, Sound
<1>1. DOMAIN alarm_map' = {} /\ alarm_map' \in [DOMAIN alarm_map' -> Entry]
    BY DEF Restrict
<1>2. \A a \in Alarms : ~registered'[a]
    BY DEF SetAlarmIsHeld, ControlOK
<1>3. TypeOK'
    <2>1. registered' \in [Alarms -> BOOLEAN]
        BY DEF TypeOK
    <2>2. DOMAIN alarm_map' \subseteq Alarms
        BY <1>1
    <2> QED BY <1>1, <2>1, <2>2 DEF TypeOK
<1>4. SetAlarmIsHeld' /\ EntriesCarryDeadlines' /\ TimerRuns'
    BY DEF SetAlarmIsHeld, EntriesCarryDeadlines, TimerRuns
<1>5. TimerPrecedes' /\ ControlOK'
    BY DEF TimerPrecedes, ControlOK
<1>6. FreedIsClean' /\ AssertionsHold' /\ StaleTokenOnlyInBatch'
    BY <1>1, <1>2 DEF FreedIsClean, AssertionsHold, StaleTokenOnlyInBatch
<1> QED BY <1>3, <1>4, <1>5, <1>6

\* The batch is taken at an instant no entry precedes: it is a tie.
LEMMA TimerExpireIInv ==
    ASSUME IInv, TimerExpire PROVE IInv'
<1> DEFINE batch == {a \in DOMAIN alarm_map : alarm_map[a].time <= now}
<1> USE DEF IInv, Working, Sound
<1>1. /\ fault = "none" /\ ~in_timeout /\ timer = now /\ timer' = 0
      /\ cbs' = Restrict(alarm_map, batch)
      /\ alarm_map' = Restrict(alarm_map, DOMAIN alarm_map \ batch)
      /\ in_timeout' = engine_alive
      /\ fault' = IF engine_alive THEN "none" ELSE "engine_freed"
      /\ UNCHANGED <<now, alive, deadline, registered, running, engine_alive>>
    BY DEF TimerExpire
<1>2. /\ DOMAIN cbs' = batch
      /\ DOMAIN alarm_map' = DOMAIN alarm_map \ batch
      /\ \A a \in DOMAIN cbs' : cbs'[a] = alarm_map[a]
      /\ \A a \in DOMAIN alarm_map' : alarm_map'[a] = alarm_map[a]
      /\ cbs' \in [DOMAIN cbs' -> Entry]
      /\ alarm_map' \in [DOMAIN alarm_map' -> Entry]
    BY <1>1 DEF Restrict, TypeOK
<1>3. DOMAIN cbs = {}
    BY <1>1 DEF ControlOK
<1>4. TypeOK'
    <2>1. fault' \in {"none"} \cup Asserts \cup Undefined
        BY <1>1 DEF Undefined
    <2>2. timer' \in 0..Horizon /\ in_timeout' \in BOOLEAN
        BY <1>1 DEF TypeOK
    <2>3. DOMAIN cbs' \subseteq Alarms /\ DOMAIN alarm_map' \subseteq Alarms
        BY <1>2 DEF TypeOK
    <2>4. UNCHANGED <<now, alive, deadline, registered, running, engine_alive>>
        BY <1>1
    <2> HIDE DEF batch
    <2> QED BY ONLY TypeOK, <1>2, <2>1, <2>2, <2>3, <2>4 DEF TypeOK
<1>5. SetAlarmIsHeld'
    BY <1>1, <1>2, <1>3 DEF SetAlarmIsHeld
<1>6. EntriesCarryDeadlines'
    <2> SUFFICES ASSUME Sound' PROVE EntriesCarryDeadlines'
        BY DEF EntriesCarryDeadlines
    <2>1. Sound
        BY <1>1
    <2>2. \A a \in DOMAIN alarm_map : alarm_map[a].time \in Nat /\ now \in Nat
        BY DEF TypeOK, Entry
    <2>3. \A a \in batch : alarm_map[a].time = now
        BY <2>1, <2>2 DEF EntriesCarryDeadlines
    <2> QED BY <1>1, <1>2, <2>1, <2>3 DEF EntriesCarryDeadlines
<1>7. TimerPrecedes' /\ TimerRuns' /\ ControlOK'
    BY <1>1, <1>2 DEF TimerPrecedes, TimerRuns, ControlOK
<1>8. FreedIsClean' /\ AssertionsHold' /\ StaleTokenOnlyInBatch'
    BY <1>1, <1>2 DEF FreedIsClean, AssertionsHold, StaleTokenOnlyInBatch
<1> QED BY <1>4, <1>5, <1>6, <1>7, <1>8

LEMMA FireNextIInv ==
    ASSUME IInv, NEW a \in Alarms, FireNext(a) PROVE IInv'
<1> USE DEF IInv, Working, Sound
<1>1. /\ fault = "none" /\ in_timeout /\ a \in DOMAIN cbs
      /\ cbs' = Restrict(cbs, DOMAIN cbs \ {a})
      /\ registered' = [registered EXCEPT ![a] = FALSE]
      /\ deadline' = [deadline EXCEPT ![a] = 0]
      /\ running' = IF deadline[a] = 0 THEN NoAlarm ELSE a
      /\ UNCHANGED <<now, alive, alarm_map, timer, in_timeout, engine_alive, fault>>
    BY DEF FireNext
<1>2. /\ DOMAIN cbs' = DOMAIN cbs \ {a}
      /\ \A b \in DOMAIN cbs' : cbs'[b] = cbs[b]
      /\ cbs' \in [DOMAIN cbs' -> Entry]
    BY <1>1 DEF Restrict, TypeOK
<1>3. engine_alive /\ a \notin DOMAIN alarm_map
    BY <1>1 DEF ControlOK, SetAlarmIsHeld
<1>4. TypeOK'
    <2>1. registered' \in [Alarms -> BOOLEAN] /\ deadline' \in [Alarms -> 0..Horizon]
        BY <1>1 DEF TypeOK
    <2>2. DOMAIN cbs' \subseteq Alarms /\ running' \in Alarms \cup {NoAlarm}
        BY <1>1, <1>2 DEF TypeOK
    <2> QED BY <1>1, <1>2, <2>1, <2>2 DEF TypeOK
<1>5. SetAlarmIsHeld'
    BY <1>1, <1>2, <1>3 DEF SetAlarmIsHeld, TypeOK
<1>6. EntriesCarryDeadlines'
    <2>1. \A b \in Alarms \ {a} : deadline'[b] = deadline[b]
        BY <1>1 DEF TypeOK
    <2>2. DOMAIN alarm_map \subseteq Alarms \ {a} /\ DOMAIN cbs' \subseteq Alarms \ {a}
        BY <1>2, <1>3 DEF TypeOK
    <2> QED BY <1>1, <1>2, <1>3, <2>1, <2>2 DEF EntriesCarryDeadlines
<1>7. TimerPrecedes' /\ TimerRuns' /\ FreedIsClean'
    BY <1>1, <1>3 DEF TimerPrecedes, TimerRuns, FreedIsClean
<1>8. ControlOK' /\ AssertionsHold' /\ StaleTokenOnlyInBatch'
    BY <1>1, <1>3 DEF ControlOK, AssertionsHold, StaleTokenOnlyInBatch, TypeOK
<1> QED BY <1>4, <1>5, <1>6, <1>7, <1>8

LEMMA EndCallbackIInv ==
    ASSUME IInv, EndCallback PROVE IInv'
<1> USE DEF IInv, EndCallback, Working, Sound
<1>1. TypeOK'
    BY DEF TypeOK
<1>2. SetAlarmIsHeld' /\ EntriesCarryDeadlines'
    BY DEF SetAlarmIsHeld, EntriesCarryDeadlines
<1>3. TimerPrecedes' /\ TimerRuns' /\ FreedIsClean'
    BY DEF TimerPrecedes, TimerRuns, FreedIsClean
<1>4. ControlOK' /\ AssertionsHold' /\ StaleTokenOnlyInBatch'
    BY DEF ControlOK, AssertionsHold, StaleTokenOnlyInBatch
<1> QED BY <1>1, <1>2, <1>3, <1>4

\* Whatever the callbacks left of the event, it covers the map again.
LEMMA FinishTimeoutIInv ==
    ASSUME IInv, FinishTimeout PROVE IInv'
<1> USE DEF IInv, Working, Sound
<1>1. /\ fault = "none" /\ in_timeout /\ running = NoAlarm /\ DOMAIN cbs = {}
      /\ UpdateTimer(alarm_map)
      /\ in_timeout' = FALSE
      /\ UNCHANGED <<now, alive, deadline, registered, alarm_map, cbs, running,
                     engine_alive>>
    BY DEF FinishTimeout
<1>2. engine_alive /\ now \in 1..Horizon /\ alarm_map \in [DOMAIN alarm_map -> Entry]
    BY <1>1 DEF ControlOK, TypeOK
<1>3. \A b \in DOMAIN alarm_map : now <= alarm_map[b].time
    BY <1>1, <1>2 DEF EntriesCarryDeadlines
<1>4. /\ timer' \in 0..Horizon
      /\ fault' = "none"
      /\ timer' = 0 <=> DOMAIN alarm_map = {}
      /\ timer' # 0 => now <= timer'
            /\ \A b \in DOMAIN alarm_map : timer' <= alarm_map[b].time
    BY <1>1, <1>2, <1>3, UpdateTimerFacts
<1>5. TypeOK'
    BY <1>1, <1>4 DEF TypeOK
<1>6. SetAlarmIsHeld' /\ EntriesCarryDeadlines'
    BY <1>1, <1>4 DEF SetAlarmIsHeld, EntriesCarryDeadlines
<1>7. TimerPrecedes' /\ TimerRuns' /\ FreedIsClean'
    BY <1>1, <1>2, <1>4 DEF TimerPrecedes, TimerRuns, FreedIsClean
<1>8. ControlOK' /\ AssertionsHold' /\ StaleTokenOnlyInBatch'
    BY <1>1, <1>4 DEF ControlOK, AssertionsHold, StaleTokenOnlyInBatch
<1> QED BY <1>5, <1>6, <1>7, <1>8

\* Time moves only when the event, hence every entry, lies ahead.
LEMMA TickIInv ==
    ASSUME IInv, Tick PROVE IInv'
<1> USE DEF IInv, Working, Sound
<1>1. /\ fault = "none" /\ ~in_timeout /\ (timer = 0 \/ timer > now) /\ now < Horizon
      /\ now' = now + 1
      /\ UNCHANGED <<alive, deadline, registered, alarm_map, timer, in_timeout,
                     cbs, running, engine_alive, fault>>
    BY DEF Tick
<1>2. now \in 1..Horizon /\ timer \in 0..Horizon /\ now' \in 1..Horizon
    BY <1>1 DEF TypeOK
<1>3. TypeOK'
    BY <1>1, <1>2 DEF TypeOK
<1>4. DOMAIN cbs = {}
    BY <1>1 DEF ControlOK
<1>5. engine_alive => \A b \in DOMAIN alarm_map : now' <= alarm_map[b].time
    <2> SUFFICES ASSUME engine_alive, NEW b \in DOMAIN alarm_map
                 PROVE  now + 1 <= alarm_map[b].time
        BY <1>1
    <2>1. timer # 0
        BY <1>1 DEF TimerRuns
    <2>2. timer <= alarm_map[b].time
        BY <1>1, <2>1 DEF TimerPrecedes
    <2>3. alarm_map[b].time \in Nat
        BY DEF TypeOK, Entry
    <2> QED BY <1>1, <1>2, <2>1, <2>2, <2>3
<1>6. SetAlarmIsHeld' /\ FreedIsClean' /\ TimerRuns'
    BY <1>1 DEF SetAlarmIsHeld, FreedIsClean, TimerRuns
<1>7. EntriesCarryDeadlines'
    BY <1>1, <1>4, <1>5 DEF EntriesCarryDeadlines
<1>8. TimerPrecedes'
    BY <1>1, <1>2 DEF TimerPrecedes
<1>9. ControlOK' /\ AssertionsHold' /\ StaleTokenOnlyInBatch'
    BY <1>1 DEF ControlOK, AssertionsHold, StaleTokenOnlyInBatch
<1> QED BY <1>3, <1>6, <1>7, <1>8, <1>9

LEMMA NextIInv == IInv /\ [Next]_vars => IInv'
<1> SUFFICES ASSUME IInv, [Next]_vars PROVE IInv'
    OBVIOUS
<1>1. CASE Operation
    <2>1. ASSUME NEW a \in Alarms, CreateAlarm(a) PROVE IInv'
        BY <2>1, CreateAlarmIInv
    <2>2. ASSUME NEW a \in Alarms, Cancel(a) PROVE IInv'
        BY <2>2, CancelIInv
    <2>3. ASSUME NEW a \in Alarms, DestroyAlarm(a) PROVE IInv'
        BY <2>3, DestroyAlarmIInv
    <2>4. ASSUME NEW a \in Alarms, NEW t \in Requests, Set(a, t) PROVE IInv'
        BY <2>4, SetIInv
    <2>5. ASSUME NEW a \in Alarms, NEW t \in Requests, Update(a, t) PROVE IInv'
        BY <2>5, UpdateIInv
    <2>6. CASE DestroyEngine
        BY <2>6, DestroyEngineIInv
    <2> QED BY <1>1, <2>1, <2>2, <2>3, <2>4, <2>5, <2>6 DEF Operation
<1>2. CASE EventLoop
    <2>1. CASE TimerExpire
        BY <2>1, TimerExpireIInv
    <2>2. ASSUME NEW a \in Alarms, FireNext(a) PROVE IInv'
        BY <2>2, FireNextIInv
    <2>3. CASE EndCallback
        BY <2>3, EndCallbackIInv
    <2>4. CASE FinishTimeout
        BY <2>4, FinishTimeoutIInv
    <2>5. CASE Tick
        BY <2>5, TickIInv
    <2> QED BY <1>2, <2>1, <2>2, <2>3, <2>4, <2>5 DEF EventLoop
<1>3. CASE UNCHANGED vars
    BY <1>3 DEF vars, IInv, TypeOK, SetAlarmIsHeld, EntriesCarryDeadlines, TimerPrecedes,
        TimerRuns, ControlOK, FreedIsClean, AssertionsHold, StaleTokenOnlyInBatch,
        Sound, Working
<1> QED BY <1>1, <1>2, <1>3 DEF Next

LEMMA Inductive == Spec => []IInv
<1>1. Init => IInv
    BY InitIInv
<1>2. IInv /\ [Next]_vars => IInv'
    BY NextIInv
<1> QED BY <1>1, <1>2, PTL DEF Spec

\* Simulated time never goes back.
LEMMA NowAdvances ==
    ASSUME now \in Nat, Next
    PROVE  now' \in Nat /\ now <= now'
<1>1. CASE Tick
    BY <1>1 DEF Tick
<1>2. ASSUME NEW a \in Alarms, NEW t \in Requests, Set(a, t) \/ Update(a, t)
      PROVE  now' = now
    BY <1>2 DEF Set, Update
<1>3. CASE DestroyEngine \/ TimerExpire \/ EndCallback \/ FinishTimeout
    BY <1>3 DEF DestroyEngine, TimerExpire, EndCallback, FinishTimeout
<1>4. ASSUME NEW a \in Alarms, FireNext(a)
      PROVE  now' = now
    BY <1>4 DEF FireNext
<1>5. ASSUME NEW a \in Alarms, CreateAlarm(a) \/ Cancel(a) \/ DestroyAlarm(a)
      PROVE  now' = now
    BY <1>5 DEF CreateAlarm, Cancel, DestroyAlarm
<1> QED BY <1>1, <1>2, <1>3, <1>4, <1>5 DEF Next, Operation, EventLoop

\* Rescheduling at the end of OnTimeout meets no overdue entry.
LEMMA FinishFacts ==
    ASSUME IInv, FinishTimeout
    PROVE  fault' = "none"
<1>1. Sound /\ UpdateTimer(alarm_map)
    BY DEF FinishTimeout, IInv, ControlOK, Sound, Working
<1>2. \A b \in DOMAIN alarm_map : now <= alarm_map[b].time
    BY <1>1 DEF IInv, EntriesCarryDeadlines
<1>3. alarm_map \in [DOMAIN alarm_map -> Entry] /\ now \in 1..Horizon
    BY DEF IInv, TypeOK
<1> QED BY <1>1, <1>2, <1>3, UpdateTimerFacts DEF Sound

-----------------------------------------------------------------------------
(* The theorems.                                                           *)

(***************************************************************************)
(* Every variable of the engine keeps its type, across all the calls a     *)
(* program or a delegate may make of RegisterAlarm, ReregisterAlarm,       *)
(* UnregisterAlarm and OnTimeout.                                          *)
(***************************************************************************)
THEOREM TypeCorrect == Spec => []TypeOK
<1>1. IInv => TypeOK
    BY DEF IInv
<1> QED BY <1>1, Inductive, PTL

(***************************************************************************)
(* The engine neither loses a set alarm nor holds one that is not set: the *)
(* deadline of QuicAlarm, BaseAlarm::registered_ and the multimap with the *)
(* batch of OnTimeout agree.                                               *)
(***************************************************************************)
THEOREM NoAlarmLost == Spec => []SetAlarmIsHeld
<1>1. IInv => SetAlarmIsHeld
    BY DEF IInv
<1> QED BY <1>1, Inductive, PTL

(***************************************************************************)
(* Between events, timer_ runs whenever alarm_map_ holds an entry and      *)
(* expires no later than the first one.                                    *)
(***************************************************************************)
THEOREM TimerAlwaysCovers == Spec => []TimerCovers
<1>1. IInv => TimerCovers
    BY DEF IInv, TimerCovers, TimerPrecedes, TimerRuns, Sound
<1> QED BY <1>1, Inductive, PTL

(***************************************************************************)
(* Simulated time never runs past the deadline of a set alarm, but for the *)
(* lag its request already had.                                            *)
(***************************************************************************)
THEOREM NoAlarmOverdue == Spec => []NeverOverdue
<1>1. IInv => NeverOverdue
    <2> SUFFICES ASSUME IInv, Sound, NEW a \in Alarms, deadline[a] # 0
                 PROVE  now <= deadline[a] + MaxLag
        BY DEF NeverOverdue
    <2> USE DEF IInv
    <2>1. now \in Nat /\ deadline[a] \in Nat
        BY DEF TypeOK
    <2>2. CASE a \in DOMAIN alarm_map
        <3>1. alarm_map[a].time \in Nat
            BY <2>2 DEF TypeOK, Entry
        <3> QED BY <2>1, <2>2, <3>1 DEF EntriesCarryDeadlines
    <2>3. CASE a \in DOMAIN cbs
        BY <2>1, <2>3 DEF EntriesCarryDeadlines
    <2> QED BY <2>2, <2>3 DEF SetAlarmIsHeld
<1> QED BY <1>1, Inductive, PTL

(***************************************************************************)
(* OnTimeout only ever works through alarms due at the same instant.       *)
(***************************************************************************)
THEOREM BatchIsAlwaysATie == Spec => []BatchIsATie
<1>1. IInv => BatchIsATie
    BY DEF IInv, BatchIsATie, EntriesCarryDeadlines
<1> QED BY <1>1, Inductive, PTL

(***************************************************************************)
(* Of the engine's assertions, those on double registration and on the     *)
(* timer of ReregisterAlarm cannot fail, nor can the one of UpdateTimer    *)
(* when no request lies in the past.                                       *)
(***************************************************************************)
THEOREM AssertionsNeverFail == Spec => []AssertionsHold
<1>1. IInv => AssertionsHold
    BY DEF IInv
<1> QED BY <1>1, Inductive, PTL

(***************************************************************************)
(* An erased token is used only by a delegate that operates on an alarm    *)
(* which waits in the same batch.                                          *)
(***************************************************************************)
THEOREM StaleTokenNeedsABatch == Spec => []StaleTokenOnlyInBatch
<1>1. IInv => StaleTokenOnlyInBatch
    BY DEF IInv
<1> QED BY <1>1, Inductive, PTL

(***************************************************************************)
(* A delegate runs only for an alarm that is set, at its instant.          *)
(***************************************************************************)
THEOREM AlarmsArePunctual == Spec => Punctual
<1>1. IInv /\ [Next]_vars =>
        [\A a \in Alarms : running' = a /\ running # a =>
            /\ a \in alive
            /\ deadline[a] # 0
            /\ deadline[a] <= now
            /\ now <= deadline[a] + MaxLag]_vars
    <2> SUFFICES ASSUME IInv, Next, NEW a \in Alarms, running' = a, running # a
                 PROVE  /\ a \in alive
                        /\ deadline[a] # 0
                        /\ deadline[a] <= now
                        /\ now <= deadline[a] + MaxLag
        OBVIOUS
    <2>1. FireNext(a)
        <3>1. PICK b \in Alarms : FireNext(b)
            <4>1. ~Operation
                BY DEF Operation, CreateAlarm, Set, Cancel, Update, DestroyAlarm, DestroyEngine
            <4>2. ~TimerExpire /\ ~FinishTimeout /\ ~Tick
                BY DEF TimerExpire, FinishTimeout, Tick
            <4>3. ~EndCallback
                BY DEF EndCallback
            <4> QED BY <4>1, <4>2, <4>3 DEF Next, EventLoop
        <3>2. b = a
            BY <3>1 DEF FireNext
        <3> QED BY <3>1, <3>2
    <2>2. /\ Sound /\ a \in DOMAIN cbs /\ deadline[a] # 0 /\ a \in alive
        BY <2>1 DEF FireNext, IInv, ControlOK, SetAlarmIsHeld, Sound, Working
    <2>3. deadline[a] <= now /\ now <= deadline[a] + MaxLag
        BY <2>2 DEF IInv, EntriesCarryDeadlines
    <2> QED BY <2>2, <2>3
<1> QED BY <1>1, Inductive, PTL DEF Spec, Punctual

(***************************************************************************)
(* UpdateTimer's assertion fails exactly in a move of an entry from now or *)
(* later to a time that is past.  RegisterAlarm raises a late deadline to  *)
(* now, no other caller of UpdateTimer meets an overdue entry, and a late  *)
(* move always becomes the first entry, so UpdateTimer always sees it.     *)
(***************************************************************************)
THEOREM LateSetsAreClamped == Spec => LateSetIsClamped
<1> DEFINE Late(a) == now <= alarm_map[a].time /\ alarm_map'[a].time < now
           LateMove == \E a \in DOMAIN alarm_map \cap DOMAIN alarm_map' : Late(a)
<1>1. ASSUME IInv, Next, Working, fault' = "timer_in_past"
      PROVE  LateMove
    <2>1. ASSUME NEW a \in Alarms, NEW t \in Requests, Update(a, t)
          PROVE  LateMove
        <3>1. registered[a]
            <4>1. CASE ~registered[a]
                <5>1. RegisterAlarm(a, t)
                    BY <2>1, <4>1 DEF Update
                <5>2. fault' \in {"none", "engine_freed"}
                    BY <1>1, <4>1, <5>1, RegisterFacts
                <5> QED BY <1>1, <5>2
            <4> QED BY <4>1
        <3>2. /\ t < now
              /\ a \in DOMAIN alarm_map /\ a \in DOMAIN alarm_map'
              /\ alarm_map'[a].time = t
            BY <1>1, <2>1, <3>1, ReregisterFacts DEF Update
        <3>3. now <= alarm_map[a].time
            BY <1>1, <3>2 DEF IInv, EntriesCarryDeadlines, FreedIsClean, Sound
        <3> QED BY <3>2, <3>3
    <2>2. ASSUME NEW a \in Alarms, NEW t \in Requests, Set(a, t)
          PROVE  FALSE
        <3>1. ~registered[a]
            BY <1>1, <2>2 DEF Set, IInv, SetAlarmIsHeld, FreedIsClean, ControlOK, Sound
        <3>2. fault' \in {"none", "engine_freed"}
            BY <1>1, <2>2, <3>1, RegisterFacts DEF Set
        <3> QED BY <1>1, <3>2
    <2>3. ASSUME NEW a \in Alarms, Cancel(a) \/ DestroyAlarm(a)
          PROVE  FALSE
        <3>1. UnregisterIfRegistered(a)
            BY <2>3 DEF Cancel, DestroyAlarm
        <3> QED BY <1>1, <3>1 DEF UnregisterIfRegistered, UnregisterAlarm, Abort, Working
    <2>4. ~FinishTimeout
        BY <1>1, FinishFacts
    <2>5. ASSUME NEW a \in Alarms, CreateAlarm(a) \/ FireNext(a)
          PROVE  FALSE
        BY <1>1, <2>5 DEF CreateAlarm, FireNext, Working
    <2>6. ~DestroyEngine /\ ~TimerExpire /\ ~EndCallback /\ ~Tick
        BY <1>1 DEF DestroyEngine, TimerExpire, EndCallback, Tick, Working
    <2> QED BY <1>1, <2>1, <2>2, <2>3, <2>4, <2>5, <2>6 DEF Next, Operation, EventLoop
<1>2. ASSUME IInv, Next, Working, LateMove
      PROVE  fault' = "timer_in_past"
    <2>1. engine_alive
        BY <1>2 DEF IInv, FreedIsClean
    <2>2. PICK b \in DOMAIN alarm_map \cap DOMAIN alarm_map' : Late(b)
        BY <1>2
    <2>3. now \in Nat /\ alarm_map[b].time \in Nat
        BY <1>2 DEF IInv, TypeOK, Entry
    <2>4. alarm_map' # alarm_map
        BY <2>2, <2>3
    <2> HIDE DEF LateMove
    <2>5. fault' # "none"
        <3> SUFFICES ASSUME fault' = "none" PROVE FALSE
            OBVIOUS
        <3>1. IInv'
            BY <1>2, NextIInv
        <3>2. now <= now' /\ now' \in Nat
            BY <1>2, <2>3, NowAdvances
        <3>3. engine_alive'
            BY <2>2, <3>1 DEF IInv, FreedIsClean, Working
        <3>4. now' <= alarm_map'[b].time /\ alarm_map'[b].time \in Nat
            BY <2>2, <3>1, <3>3 DEF IInv, TypeOK, EntriesCarryDeadlines, Entry, Sound, Working
        <3> QED BY <2>2, <2>3, <3>2, <3>4
    <2>6. ASSUME NEW a \in Alarms, NEW t \in Requests, Set(a, t) \/ Update(a, t)
          PROVE  fault' = "timer_in_past"
        <3>1. CASE ~registered[a]
            <4>1. RegisterAlarm(a, t)
                BY <1>2, <2>1, <2>6, <3>1 DEF Set, Update
            <4> QED BY <1>2, <2>1, <2>5, <3>1, <4>1, RegisterFacts
        <3>2. CASE registered[a]
            <4>1. Update(a, t)
                BY <1>2, <2>1, <2>6, <3>2 DEF Set, IInv, SetAlarmIsHeld, Sound
            <4> QED BY <1>2, <2>4, <2>5, <3>2, <4>1, ReregisterFacts DEF Update
        <3> QED BY <3>1, <3>2
    <2>7. ASSUME NEW a \in Alarms, Cancel(a) \/ DestroyAlarm(a)
          PROVE  FALSE
        <3>1. UnregisterIfRegistered(a) /\ MayCall
            BY <2>7 DEF Cancel, DestroyAlarm
        <3> QED BY <1>2, <2>4, <2>5, <3>1, UnregisterFacts
    <2>8. ~FinishTimeout
        BY <1>2, <2>5, FinishFacts
    <2>9. ASSUME NEW a \in Alarms, CreateAlarm(a) \/ FireNext(a)
          PROVE  FALSE
        BY <1>2, <2>5, <2>9 DEF CreateAlarm, FireNext, Working
    <2>10. ~DestroyEngine /\ ~TimerExpire /\ ~EndCallback /\ ~Tick
        BY <1>2, <2>1, <2>5 DEF DestroyEngine, TimerExpire, EndCallback, Tick, Working
    <2> QED BY <1>2, <2>6, <2>7, <2>8, <2>9, <2>10 DEF Next, Operation, EventLoop
<1>3. IInv /\ [Next]_vars => [Working => (fault' = "timer_in_past" <=> LateMove)]_vars
    BY <1>1, <1>2
<1> QED BY <1>3, Inductive, PTL DEF Spec, LateSetIsClamped

(***************************************************************************)
(* The engine implements the promise QUIC relies on: each alarm rings once *)
(* for each arming, at its deadline, and no step of the timer, the map or  *)
(* the batch shows.                                                        *)
(***************************************************************************)
THEOREM EngineKeepsPromise == Spec => KeepsPromise
<1>1. Init => Promise!Init
    BY DEF Init, Promise!Init
<1>2. IInv /\ [Next]_vars => [Promise!Next]_(Promise!vars)
    <2> SUFFICES ASSUME IInv, [Next]_vars
                 PROVE  Promise!Next \/ UNCHANGED Promise!vars
        OBVIOUS
    <2> USE DEF Promise!Next, Promise!vars
    <2>1. CASE fault' # "none" \/ ~engine_alive'
        BY <2>1 DEF Promise!Void
    <2>2. CASE UNCHANGED vars
        BY <2>2 DEF vars
    <2>3. CASE Operation /\ fault' = "none" /\ engine_alive'
        <3>1. ASSUME NEW a \in Alarms, NEW t \in Requests \cup {0},
                     fault = "none", deadline' = [deadline EXCEPT ![a] = t],
                     UNCHANGED <<now, running, engine_alive>>
              PROVE  Promise!Next
            <4>1. Promise!Change(a, t)
                BY <2>3, <3>1 DEF Promise!Change
            <4> QED BY <4>1 DEF Requests, Promise!Requests
        <3>2. ASSUME NEW a \in Alarms, CreateAlarm(a) PROVE UNCHANGED Promise!vars
            BY <3>2 DEF CreateAlarm
        <3>3. ASSUME NEW a \in Alarms, Cancel(a) \/ DestroyAlarm(a) PROVE Promise!Next
            BY <3>1, <3>3 DEF Cancel, DestroyAlarm, MayCall, Working
        <3>4. ASSUME NEW a \in Alarms, NEW t \in Requests, Set(a, t) \/ Update(a, t)
              PROVE  Promise!Next
            BY <3>1, <3>4 DEF Set, Update, MayCall, Working
        <3>5. ~DestroyEngine
            BY <2>3 DEF DestroyEngine
        <3> QED BY <2>3, <3>2, <3>3, <3>4, <3>5 DEF Operation
    <2>4. CASE EventLoop /\ fault' = "none" /\ engine_alive'
        <3>1. CASE TimerExpire \/ FinishTimeout
            BY <2>4, <3>1 DEF TimerExpire, FinishTimeout, Working
        <3>2. ASSUME NEW a \in Alarms, FireNext(a) PROVE Promise!Next
            <4>1. Sound /\ a \in DOMAIN cbs /\ deadline[a] # 0
                BY <3>2 DEF FireNext, IInv, ControlOK, SetAlarmIsHeld, Sound, Working
            <4>2. deadline[a] <= now /\ now <= deadline[a] + MaxLag
                BY <4>1 DEF IInv, EntriesCarryDeadlines
            <4>3. Promise!Ring(a)
                BY <3>2, <4>1, <4>2 DEF FireNext, Promise!Ring, Sound, Working
            <4> QED BY <4>3
        <3>3. CASE EndCallback
            BY <2>4, <3>3 DEF EndCallback, Promise!Hush, Working
        <3>4. CASE Tick
            <4>1. Sound /\ running = NoAlarm
                BY <2>4, <3>4 DEF Tick, IInv, ControlOK, Sound, Working
            <4>2. IInv'
                BY NextIInv
            <4>3. \A a \in Alarms : deadline[a] # 0 => now < deadline[a] + MaxLag
                <5> SUFFICES ASSUME NEW a \in Alarms, deadline[a] # 0
                             PROVE  now < deadline[a] + MaxLag
                    OBVIOUS
                <5>1. a \in DOMAIN alarm_map
                    BY <3>4, <4>1 DEF Tick, IInv, ControlOK, SetAlarmIsHeld, Sound
                <5>2. now + 1 <= alarm_map[a].time /\ alarm_map[a].time <= deadline[a] + MaxLag
                    BY <3>4, <4>1, <4>2, <5>1 DEF Tick, IInv, EntriesCarryDeadlines, Sound, Working
                <5>3. now \in Nat /\ deadline[a] \in Nat /\ alarm_map[a].time \in Nat
                    BY <5>1 DEF IInv, TypeOK, Entry
                <5> QED BY <5>2, <5>3
            <4> QED BY <3>4, <4>1, <4>3 DEF Tick, Promise!Advance, Sound, Working
        <3> QED BY <2>4, <3>1, <3>2, <3>3, <3>4 DEF EventLoop
    <2> QED BY <2>1, <2>2, <2>3, <2>4 DEF Next
<1> QED BY <1>1, <1>2, Inductive, PTL DEF Spec, KeepsPromise, Promise!Spec
=============================================================================
