SPECIFICATION Spec
CONSTANTS
  Order <- TwoSteps
  Samples <- Explored
  Posts <- Requests
  BusyHold = 3
  ReconnectHold = 2
  Heartbeat = 2
  Settle = 1
  Lease = 2
  ForceLease = 2
  PreflightWait = 1
  Lags = {1}
  NoSample = NoSample
  NoManual = NoManual
  NoDuty = NoDuty
  NoTest = NoTest
  NoCommand = NoCommand
INVARIANTS TypeOK HonestStatus PolicyKept Converges
PROPERTIES LoweredWithReason PreflightAtFull
