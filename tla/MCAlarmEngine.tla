--------------------------- MODULE MCAlarmEngine ---------------------------
(* The alarm engine with three interchangeable alarms, and what its source *)
(* says of it that does not hold.                                          *)
EXTENDS AlarmEngine, TLC

CONSTANTS a1, a2, a3

MCAlarms == {a1, a2, a3}

\* No action and no property singles an alarm out.
AlarmSymmetry == Permutations(MCAlarms)

(***************************************************************************)
(* ReregisterAlarm asserts that the map still holds an entry after it took *)
(* out the one it moves: NS_ASSERT(!alarm_map_.empty()).                   *)
(***************************************************************************)
ReregisterFindsAnotherEntry == fault # "map_empty"

(***************************************************************************)
(* The simulation can go on after an application has stopped, as quic-main *)
(* lets it (Simulator::Stop is later than every SetStopTime): when the     *)
(* application has destroyed its alarms and then the engine, nothing calls *)
(* the engine any more.                                                    *)
(***************************************************************************)
TimerFindsTheEngine == alive = {} => fault # "engine_freed"
=============================================================================
