SPECIFICATION Spec
CONSTANTS
  Invite = {i1, i2}
  Founder = {f1, f2}
  Redemption = {s1, s2}
  Request = {q1, q2}
  MaxFaults = 1
  NoInvite = NoInvite
  NoFounder = NoFounder
  NoRedemption = NoRedemption
INVARIANTS
  OneSessionPerInvite
  EndedIsDenied
CHECK_DEADLOCK FALSE
