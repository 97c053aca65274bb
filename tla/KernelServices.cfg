CONSTANTS
  MaxTasks = 3
  DefSemMax = 2
  SemArg <- MCSemArg
SPECIFICATION FairSpec
INVARIANTS TypeOK OnlyCreatedRun MutualExclusion UnitsAddUp
PROPERTIES WaitersServed
CHECK_DEADLOCK FALSE
