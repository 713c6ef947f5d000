SPECIFICATION Spec
CONSTANTS
  Object = {o1, o2}
  Handler = {h1, h2}
  PerFileMax <- MCPerFileMax
  MaxTotal = 3
  MaxCount = 2
  GoalSample <- MCGoalSample
  FileSample <- MCFileSample
  IdLists <- MCIdLists
  GoalUniverse <- MCGoalUniverse
  FileUniverse <- MCFileUniverse
  MaxGoals = 2
  MaxUploads = 2
  MaxFaults = 1
SYMMETRY Symmetry
INVARIANTS
  
  NarrowingEnds
  LinksWithinPolicy
  OnlyClarificationStalls
  RefusalsAreAudited
CHECK_DEADLOCK FALSE
