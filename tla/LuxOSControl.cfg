SPECIFICATION Spec
CONSTANTS
  r1 = r1
  Boards <- OneBoard
  Profiles <- TwoLevels
  Clients = {r1}
  Configs <- Explored
  Edits <- Changes
  Requests <- Asked
  NoProfile = NoProfile
  NoTarget = NoTarget
  NoMiner = NoMiner
  NoSnapshot = NoSnapshot
  NoExec = NoExec
  Nobody = Nobody
INVARIANT TypeOK
PROPERTIES ImplementsControl ScheduleFollowed CeilingEnforced SickBoardRestarted
