SPECIFICATION Spec
CONSTANTS
  Tx = {t1, t2}
  Run = {r1, r2}
  Publisher = {p1, p2}
  MaxAppends = 2
  PageLimit = 2
  MaxFaults = 1
  NoTx = NoTx
  NoRun = NoRun
  NoMessage = NoMessage
SYMMETRY Symmetry
INVARIANTS
  DenseSequences
  ProjectedOnce
PROPERTIES
  ImplementsStream
CHECK_DEADLOCK FALSE
