---- MODULE MCAlarmJournal ----
(* Two limited parameters, one band of each colour, an event of severity 3
   and one of severity 4, and a journal that overflows before the archive does. *)
EXTENDS AlarmJournal

CONSTANTS p1, p2, anomaly, alarmEvent

MCParams == {p1, p2}
MCOrder == <<p1, p2>>
MCBands == {"yellow", "red"}
MCReported == {anomaly, alarmEvent}
MCSevere == {"red", alarmEvent}
====
