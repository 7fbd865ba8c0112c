SPECIFICATION MonitoringSpec
CONSTANTS
  Mons = {"m1", "m2"}
  Params = {"fpa", "link"}
  Signal = {"link"}
  Gated = {"fpa"}
  Loaded <- SomeLoaded
  Offered <- SomeOffered
  Rules <- SomeRules
  MaxValue = 2
  Limit = 1
INVARIANTS
  GroundAgrees
PROPERTIES
  ViolationReported
