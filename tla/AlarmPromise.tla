---------------------------- MODULE AlarmPromise ----------------------------
(***************************************************************************)
(* What QUIC is entitled to expect of the alarms it is handed, without the *)
(* multimap, the tokens and the simulator event that produce it.           *)
(*                                                                         *)
(* A client arms an alarm with a deadline, moves it, or disarms it.  The   *)
(* alarm rings exactly once for each arming, never before its deadline,    *)
(* and time never runs past an armed alarm.  Alarms ring one at a time.    *)
(* The promise is void once the program has failed or the engine is gone.  *)
(***************************************************************************)
EXTENDS Integers

CONSTANTS
    Alarms,     \* the alarms a program creates
    NoAlarm,    \* not an alarm
    Horizon,    \* bound: the last instant of the simulation
    MaxLag      \* bound: how far in the past a requested deadline may lie

VARIABLES
    clock,      \* simulated time
    due,        \* due[a]: the deadline of a, 0 when it is not armed
    ringing,    \* the alarm whose callback runs, or NoAlarm
    void        \* the promise no longer binds

vars == <<clock, due, ringing, void>>

Requests == {t \in 1..Horizon : t + MaxLag >= clock}

Init ==
    /\ clock = 1
    /\ due = [a \in Alarms |-> 0]
    /\ ringing = NoAlarm
    /\ void = FALSE

\* A client arms, moves or (t = 0) disarms a.
Change(a, t) ==
    /\ ~void
    /\ due' = [due EXCEPT ![a] = t]
    /\ UNCHANGED <<clock, ringing, void>>

\* The callback of a starts: a is armed, and this is its instant.
Ring(a) ==
    /\ ~void
    /\ ringing = NoAlarm
    /\ due[a] # 0
    /\ due[a] <= clock
    /\ clock <= due[a] + MaxLag
    /\ due' = [due EXCEPT ![a] = 0]
    /\ ringing' = a
    /\ UNCHANGED <<clock, void>>

Hush ==
    /\ ~void
    /\ ringing # NoAlarm
    /\ ringing' = NoAlarm
    /\ UNCHANGED <<clock, due, void>>

\* Time may not leave an armed alarm behind, nor pass during a callback.
Advance ==
    /\ ~void
    /\ ringing = NoAlarm
    /\ \A a \in Alarms : due[a] # 0 => clock < due[a] + MaxLag
    /\ clock' = clock + 1
    /\ UNCHANGED <<due, ringing, void>>

\* The program fails or the engine is destroyed: nothing is promised any more.
Void == void'

Next ==
    \/ \E a \in Alarms, t \in Requests \cup {0} : Change(a, t)
    \/ \E a \in Alarms : Ring(a)
    \/ Hush
    \/ Advance
    \/ Void

Spec == Init /\ [][Next]_vars
=============================================================================
