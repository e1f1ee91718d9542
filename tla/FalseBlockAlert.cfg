SPECIFICATION Spec
CONSTANTS
  Unreported = Unreported
  NoPool = NoPool
  NoMemory = NoMemory
  Idle = Idle
  NoStatus = NoStatus
  NoCount = NoCount
  p1 = p1
  p2 = p2
  Pools = {p1, p2}
  Miners = {m1}
  Clients = {}
  Entries = {"on", "gone"}
  Limits <- MCLimits
  Readings <- CountReadings
PROPERTY BlockCounterIncreased
