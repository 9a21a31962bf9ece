SPECIFICATION FairSpec
CONSTANTS
  s1 = s1
  e1 = e1
  e2 = e2
  e3 = e3
  Datasets <- Order
  Row = {s1, e1, e2, e3}
  Key <- Keys
  Needs <- Parents
  Files <- Contents
  Batch = 2
  Every <- Intervals
  CancelEvery = 1
  Faults = {"http", "db", "crash"}
  MaxFaults = 2
  MaxRuns = 2
INVARIANTS
  TypeOK
  
  
PROPERTY
  SlotIsFreed
CHECK_DEADLOCK FALSE
