SPECIFICATION ScheduleSpec
CONSTANTS
  Names <- MCNames
  Body <- MCBody
  Uplinks <- AllUplinks
  PerSecond = 2
  TickSizes = {4}
  MaxSubsteps = 2
  UnixOffset = 3
  MaxIds = 2
  Horizon = 4
  MaxRestores = 1
INVARIANTS
  NeverEarly
PROPERTIES
  KeepsPromise
  EveryTagFires
