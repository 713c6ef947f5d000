SPECIFICATION FairSpec
CONSTANTS
  Tx = {t1, t2}
  Run = {r1}
  Publisher = {p1, p2}
  MaxAppends = 1
  PageLimit = 1
  MaxFaults = 3
  NoTx = NoTx
  NoRun = NoRun
  NoMessage = NoMessage
PROPERTIES
  OutboxDrains
CHECK_DEADLOCK FALSE
