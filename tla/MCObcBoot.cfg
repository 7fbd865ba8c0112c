SPECIFICATION BootSpec
CONSTANTS
  BootTime = 2
  SepTime = 2
  MaxReboots = 2
INVARIANTS
  BootCountsAgree
PROPERTIES
  Settles
