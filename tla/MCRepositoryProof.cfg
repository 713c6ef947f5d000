SPECIFICATION FairSpec
CONSTANTS
  Prover = p
  Colleagues = {c}
  None = none
  Dead = dead
  Controls = 2
  MaxCommits = 2
  MaxSlips = 2
INVARIANTS
  ManifestIsExact
  UndisturbedPasses
  EndedLeavesNothing
  MutantsAreIsolated
PROPERTIES
  ProofPasses
