SPECIFICATION Spec
CONSTANTS
  Run = {r1}
  Worker = {w1, w2}
  MaxAttempts = 3
  MaxFaults = 2
  MaxWaits = 1
  NoClaim = NoClaim
PROPERTIES
  StaleHolderKeepsEffect
CHECK_DEADLOCK FALSE
