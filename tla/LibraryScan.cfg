SPECIFICATION FairSpec
CONSTANTS
  s1 = s1
  m1 = m1
  m2 = m2
  f1 = f1
  g1 = g1
  g2 = g2
  e1 = e1
  j1 = j1
  j2 = j2
  j3 = j3
  Series = {s1}
  Movie = {m1}
  SeriesWithId <- SameId
  File = {f1, g1}
  Home <- FileHome
  Episodes <- FileEpisodes
  Local = {f1}
  Job = {j1, j2, j3}
  Entities <- Scans
  Listed = {j2, j3}
  None = none
  Faults = {"lost", "twice", "cancel", "restart", "disk", "delete", "unreadable"}
  MaxFaults = 1
INVARIANTS
  TypeOK
  OneRowPerPath
  CompletedMeansDone
  ProgressExact
  FilesNotStuck
PROPERTIES
  SingleScansComplete
CHECK_DEADLOCK FALSE
