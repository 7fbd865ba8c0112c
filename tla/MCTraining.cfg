CONSTANTS
  FidOf <- SomeFids
  Directly = {"wheel"}
  Scenarios <- SomeScenarios
  NoScenario = "none"
  Full = 4
  Ramp = 1
  Quantum = 1
  DtMax = 1
  MaxSubSteps = 2
  Speeds = {0, 1, 4}
  Durations = {3}
  MaxCommands = 3
SPECIFICATION Spec
INVARIANTS TypeOK EffectsOwned InjectionsTracked EventsOnTime
PROPERTIES ScenarioEnds
