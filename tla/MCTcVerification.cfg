SPECIFICATION TcSpec
CONSTANTS
  Commands <- SomeCommands
  RuleFuncs <- SomeRules
  SeqCounts = 4
  MaxBuilt = 3
  TcCap = 1
  TmCap = 2
  StoreCap = 1
  LogSize = 2
  Switched = {"payload"}
  MaxChanges = 1
INVARIANTS
  TcTypeOK
  OwnVerdict
  CountersAgree
  RowsTruthful
CHECK_DEADLOCK FALSE
PROPERTIES
  EveryTcJudged
