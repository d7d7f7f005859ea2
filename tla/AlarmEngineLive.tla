-------------------------- MODULE AlarmEngineLive --------------------------
(***************************************************************************)
(* Liveness of the alarm engine.  Simulator::Run takes one event after     *)
(* another until none is left, so a step of the event loop that stays      *)
(* possible is taken: weak fairness of EventLoop, and nothing is assumed   *)
(* of the simulated program except that it makes finitely many calls at    *)
(* one instant, since otherwise time would stand still.                    *)
(***************************************************************************)
EXTENDS AlarmEngine

CONSTANT MaxOps     \* bound: calls of the simulated program at one instant

ASSUME MaxOpsAssumption == MaxOps \in Nat

VARIABLE ops        \* how many it has made at this instant

liveVars == <<vars, ops>>

LiveInit == Init /\ ops = 0

BoundedOperation ==
    /\ ops < MaxOps
    /\ Operation
    /\ ops' = ops + 1

TakeEvent ==
    /\ EventLoop
    /\ ops' = IF now' = now THEN ops ELSE 0

LiveSpec ==
    /\ LiveInit
    /\ [][BoundedOperation \/ TakeEvent]_liveVars
    /\ WF_liveVars(TakeEvent)

Over == fault # "none" \/ ~engine_alive

(***************************************************************************)
(* A set alarm is answered: its delegate is called unless the program      *)
(* moves, cancels or destroys the alarm first (or stops altogether).  No   *)
(* order of calls leaves an alarm set with no simulator event to serve it. *)
(***************************************************************************)
SetAlarmIsAnswered ==
    \A a \in Alarms, d \in 1..Horizon :
        deadline[a] = d ~> deadline[a] # d \/ Over
=============================================================================
