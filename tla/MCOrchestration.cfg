SPECIFICATION Spec
CONSTANTS
  Run = {r1}
  Worker = {w1, w2, w3}
  MaxAttempts = 4
  MaxFaults = 3
  MaxWaits = 2
  NoClaim = NoClaim
SYMMETRY Symmetry
INVARIANTS
  TypeOK
  AtMostOneInvocation
  BriefIffSucceeded
  LineageIsComplete
  RunTaskAgreement
  OneLiveAttempt
  OpenWaitAnswerable
PROPERTIES
  StaleWorkerIsFenced
  CanceledIsFinal
CHECK_DEADLOCK FALSE
