SPECIFICATION LiveSpec
CONSTANTS
    Alarms = {a1, a2, a3}
    NoAlarm = NoAlarm
    Horizon = 4
    MaxLag = 1
    MaxOps = 4
INVARIANTS
    SetAlarmIsHeld
    TimerCovers
    StaleTokenOnlyInBatch
PROPERTIES
    LateSetIsClamped
    KeepsPromise
    SetAlarmIsAnswered
\* The simulation ends at Horizon, with a failed assertion, or at undefined
\* behaviour.
CHECK_DEADLOCK FALSE
