SPECIFICATION Spec
CONSTANTS
  e1 = e1
  e2 = e2
  e3 = e3
  Episode = {e1, e2, e3}
  Tvdb <- Ids
  Aired <- Places
  Listing <- Growing
  Ordering = {"aired", "dvd"}
  Target <- Orders
  Rated <- Ratings
  Refresher = {"r1", "r2"}
  MaxRuns = 2
  MaxEdits = 1
INVARIANTS
  TypeOK
  RemapFits
  WhatWasReadIsRestored

  
  
CHECK_DEADLOCK FALSE
