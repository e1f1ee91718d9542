SPECIFICATION Spec
CONSTANTS
  r1 = r1
  Boards <- TwoBoards
  Profiles <- TwoLevels
  Clients = {}
  Configs <- SleepOnly
  Edits <- None
  Requests <- None
  NoProfile = NoProfile
  NoTarget = NoTarget
  NoMiner = NoMiner
  NoSnapshot = NoSnapshot
  NoExec = NoExec
  Nobody = Nobody
PROPERTY WokenAfterSleep
