SPECIFICATION AlarmSpec
CONSTANTS
  p1 = p1
  p2 = p2
  anomaly = anomaly
  alarmEvent = alarmEvent
  Params <- MCParams
  Order <- MCOrder
  Bands <- MCBands
  Reported <- MCReported
  Severe <- MCSevere
  JournalMax = 3
  PanelMax = 2
  MaxAlarms = 4
INVARIANTS
  AlarmTypeOK
  LimitAlarmsAgree
  ArchiveFollows
  PanelFollows
