SPECIFICATION ObjectFairSpec
CONSTANTS
  Object = {o1, o2}
  Caller = {c1, c2}
  MaxStorageFaults = 2
  NoObject = NoObject
  NoCaller = NoCaller
INVARIANTS
  RowsAndBlobsAgree
PROPERTIES
  BoundWhileReady
  CallsReturn
CHECK_DEADLOCK FALSE
