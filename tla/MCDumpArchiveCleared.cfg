SPECIFICATION ArchiveSpec
CONSTANTS
  hk = hk
  event = event
  Stores <- TwoStores
  Circular = {hk}
  Capacity <- SmallCapacity
  MaxPending = 3
  QueueSize = 2
  PacketSize = 2
  Budgets = {4}
  WriteOk = {TRUE}
  MaxPackets = 4
  MaxDumps = 2
  MaxRestores = 0
PROPERTY
  OnlyPlayedIsCleared
