SPECIFICATION FairSpec
CONSTANTS
  s1 = s1
  m1 = m1
  m2 = m2
  f1 = f1
  g1 = g1
  g2 = g2
  e1 = e1
  j1 = j1
  j2 = j2
  j3 = j3
  Series = {}
  Movie = {m1, m2}
  SeriesWithId <- SameId
  File = {g1, g2}
  Home <- FileHome
  Episodes <- FileEpisodes
  Local = {}
  Job = {j2}
  Entities <- Scans
  Listed = {j2}
  None = none
  Faults = {}
  MaxFaults = 0
PROPERTY
  ScansComplete
CHECK_DEADLOCK FALSE
