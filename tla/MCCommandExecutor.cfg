SPECIFICATION FairSpec
CONSTANTS
  Op = {"companies.create", "companies.profile.replace", "initiatives.create", "initiatives.goals.create_and_start"}
  Key = {k1, k2}
  Arg = {1, 2}
  Handler = {h1, h2}
  MaxRequests = 3
  MaxFaults = 1
  NoRecord = NoRecord
  NoHandler = NoHandler
  NoRequest = NoRequest
INVARIANTS
  AnswersMatchRecord
PROPERTIES
  ImplementsLedger
  RequestsAnswered
CHECK_DEADLOCK FALSE
