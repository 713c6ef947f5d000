SPECIFICATION MCSpec
CONSTANTS
  Version = {v1, v2}
  First = v1
  MaxEdits = 2
  MaxFaults = 1
INVARIANTS
  CheckedSetAgrees
  UndisturbedBuildIsValid
  AcceptedIsFrozen
PROPERTIES
  BundleRepaired
