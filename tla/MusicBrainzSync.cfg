SPECIFICATION FairSpec
CONSTANTS
  g = g
  r1 = r1
  r2 = r2
  r3 = r3
  r4 = r4
  Datasets <- Order
  Row = {g, r1, r2, r3, r4}
  Key <- Keys
  Needs <- Groups
  Files <- Dumps
  Batch = 3
  Every = 2
  Capacity = 1
  Task = {"t1"}
  Faults = {"http", "db", "crash"}
  MaxFaults = 2
  MaxRuns = 2
  MaxLoads = 1
INVARIANTS
  TypeOK
  
  
  IndexesComeBack
PROPERTY
  SyncEnds
CHECK_DEADLOCK FALSE
