SPECIFICATION FairSpec
CONSTANTS
  w1 = w1
  w2 = w2
  j1 = j1
  j2 = j2
  Nobody = nobody
  Worker = {w1, w2}
  Job = {j1, j2}
  Fits <- OneServesAll
  Inline = {j1}
  Undecodable = {}
  Slot = {1, 2, 3, 4, 5, 6}
  Faults = {"redis", "crash", "stall", "trim"}
  MaxFaults = 2
INVARIANTS
  TypeOK
  JobsAccounted
PROPERTIES
  StartedOnce
  
CHECK_DEADLOCK FALSE
