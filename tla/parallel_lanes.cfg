SPECIFICATION Spec
CONSTANTS
  NumLanes = 3
  Plans <- Forks
  Supervision = {TRUE, FALSE}
  NumRuns = 3
  NumTrees = 2
  NumEdits = 1
  MaxCrashes = 1
INVARIANTS
  TypeOK
  DependenciesFirst
  FeatureWhole
  IntegratedIsMerged
PROPERTIES
  PassedNotRelaunched
CHECK_DEADLOCK FALSE
