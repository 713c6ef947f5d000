SPECIFICATION FairSpec
CONSTANTS
  Run = {r1, r2}
  Worker = {w1, w2}
  MaxAttempts = 3
  MaxFaults = 2
  MaxWaits = 0
  NoClaim = NoClaim
PROPERTIES
  TaskSettles
CHECK_DEADLOCK FALSE
