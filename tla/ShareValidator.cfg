SPECIFICATION Spec
CONSTANTS
  v1 = v1
  v2 = v2
  n1 = n1
  Validators = {v1, v2}
  Winning = {n1}
  poll = poll
  zmq = zmq
  Refreshers = {poll, zmq}
  NoTemplate = NoTemplate
  NoShare = NoShare
  Coins <- BothCoins
  MaxJobHistory = 2
  MaxJobs <- Jobs
  MaxHeight <- Height
SYMMETRY Symmetry
INVARIANT TypeOK
PROPERTIES NoBlockLost ImplementsLedger
