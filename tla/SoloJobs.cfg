SPECIFICATION Spec
CONSTANTS
  s1 = s1
  s2 = s2
  a1 = a1
  a2 = a2
  Sessions = {s1, s2}
  Addresses = {a1, a2}
  Unbuildable = {}
  HasFallback = FALSE
  MaxJobHistory = 2
  Tips = {1, 2}
  Poll = Poll
  Zmq = Zmq
  NoAddress = NoAddress
  NoJob = NoJob
  Reauthorize = FALSE
  MaxCount = 2
SYMMETRY SessionAddressSymmetry
INVARIANTS TypeOK Coinb2Coverage CountsItsSessions
PROPERTY ImplementsContract
