SPECIFICATION FairSpec
CONSTANTS
  ProcIds = {0, 1}
  Programs <- MCPrograms
  Steps <- MCSteps
  MaxProcedures = 2
  MaxSteps = 3
  TickSizes = {1, 3}
  MaxRestores = 1
INVARIANTS
  EveryEndAnnouncedOnce
  StepsOnTime
PROPERTY
  EveryRunEnds
