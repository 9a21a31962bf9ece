SPECIFICATION Spec
CONSTANTS
  d1 = d1
  d2 = d2
  p1 = p1
  p2 = p2
  SearchOrder <- OneStore
  Download = {d1, d2}
  Kind <- AllSeries
  Matchable = {d1, d2}
  Proc = {p1, p2}
  Ops <- TwoTasks
  Upgrades = FALSE
  MaxId = 2
  MaxRestarts = 1
SYMMETRY Downloads
INVARIANTS
  TypeOK
  SuppressionSticks

  
  
CHECK_DEADLOCK FALSE
