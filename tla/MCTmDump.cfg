SPECIFICATION FairSpec
CONSTANTS
  hk = hk
  event = event
  Stores <- TwoStores
  Circular = {hk}
  Capacity <- OnePacket
  MaxPending = 2
  PacketSize = 3
  Budgets = {2}
  MaxPackets = 2
  MaxDumps = 3
  MaxRestores = 1
INVARIANTS
  StoreHoldsWhatItShould
  DumpInProgress
PROPERTIES
  ClearedWhenPlayed
  EveryDumpEnds
