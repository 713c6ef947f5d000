SPECIFICATION FairSpec
CONSTANTS
  MaxCommits = 7
  CalmAfter = 3
  MaxSlips = 2
INVARIANTS
  TransitionIsFrozen
  EvidenceIsVerified
  ProbesKillAtEveryStage
PROPERTIES
  DecisionSettles
CHECK_DEADLOCK FALSE
