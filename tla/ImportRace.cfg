SPECIFICATION Spec
CONSTANTS
  s1 = s1
  f1 = f1
  e1 = e1
  d1 = d1
  a1 = a1
  Series = {s1}
  Movie = {}
  SeriesWithId <- NoMovie
  File = {f1}
  Home <- FileHome
  Episodes <- FileEpisodes
  Local = {}
  ScanJob = {j1}
  Entities <- Scans
  Listed = {j1}
  Download = {d1}
  Source = {a1}
  Of <- Contents
  Bytes <- Sizes
  Target <- Targets
  Matches <- MatchedTo
  Dest <- Names
  ImportJob = {j2}
  None = none
  Faults = {}
  MaxFaults = 0
INVARIANT
  OneRowPerPath
CHECK_DEADLOCK FALSE
