SPECIFICATION Spec
CONSTANTS
  Signs = {"low", "fewWheels"}
  Derived <- SomeDerived
  Order <- SomeOrder
  Fault <- SomeFault
  Rules <- SomeRules
  Stages <- SomeStages
  Groups <- SomeGroups
  Procedures <- SomeProcedures
  LevelDelay <- SomeDelays
  MaxAttempts = 3
  LevelsOf <- SomeLevels
  MaxChanges = 3
INVARIANTS
  TypeOK
  RecoveryFollowsFault
  NoCascadeForgotten
PROPERTIES
  RecoveryEnds
