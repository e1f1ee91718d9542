SPECIFICATION Spec
CONSTANTS
  m1 = m1
  m2 = m2
  m3 = m3
  p1 = p1
  p2 = p2
  here = here
  there = there
  Nowhere = Nowhere
  NoId = NoId
  Torn = Torn
  Nothing = Nothing
  MinerIds = {m1, m2, m3}
  PoolIds = {p1, p2}
  Places = {here, there}
  Monitors <- MCMonitors
  Foreign <- MCForeign
  MaxItems = 2
  MaxToken = 2
  Sent <- MCSent
  MaxEdits = 5
SYMMETRY Symmetry
INVARIANTS TypeOK AuthorizedTogether ControlsFollow
PROPERTY ImplementsRegister
