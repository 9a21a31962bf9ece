SPECIFICATION Spec
CONSTANTS
  k1 = k1
  k2 = k2
  c1 = c1
  SearchOrder <- OneStore
  Suppressed = "suppressed"
  Key = {k1, k2}
  Content = {c1}
  LegacyRow <- SeriesRows
  MaxId = 2
  MaxRecords = 2
  FlushMayFail = TRUE
INVARIANTS
  TypeOK
  UniqueIds
  AckedDurable
  FreshIdsStable
PROPERTIES
  
  KeepsRecords
