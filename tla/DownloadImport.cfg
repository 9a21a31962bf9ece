SPECIFICATION FairSpec
CONSTANTS
  d1 = d1
  d2 = d2
  a1 = a1
  a2 = a2
  b1 = b1
  e1 = e1
  e2 = e2
  s1 = s1
  m1 = m1
  p1 = p1
  p2 = p2
  q1 = q1
  j1 = j1
  j2 = j2
  Download = {d1, d2}
  Source = {a1, a2, b1}
  Of <- Contents
  Bytes <- Sizes
  Target <- Targets
  Movie = {m1}
  Matches <- MatchedTo
  Path = {p1, p2, q1}
  Dest <- Names
  Job = {j1, j2}
  None = none
  Faults = {"lost", "twice", "cancel", "restart", "copy", "delete"}
  MaxFaults = 1
INVARIANTS
  TypeOK
  TrackerExact
  CopiesNotStuck
PROPERTIES
  DroppedAfterImport
  ImportsFinish
CHECK_DEADLOCK FALSE
