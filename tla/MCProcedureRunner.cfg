SPECIFICATION RunnerSpec
CONSTANT
  Plans <- MCPlans
INVARIANTS
  StepsInOrder
  StopsWhenPaused
PROPERTIES
  ConfirmedSteps
  EveryRunEnds
