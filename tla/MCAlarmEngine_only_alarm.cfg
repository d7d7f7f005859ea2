SPECIFICATION Spec
CONSTANTS
    a1 = a1
    a2 = a2
    a3 = a3
    NoAlarm = NoAlarm
    Alarms <- MCAlarms
    Horizon = 3
    MaxLag = 0
SYMMETRY AlarmSymmetry
INVARIANT
    ReregisterFindsAnotherEntry
CHECK_DEADLOCK FALSE
