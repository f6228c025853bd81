SPECIFICATION Spec
VIEW View
CONSTANTS
  NumSlices = 2
  Folders <- TwoSlices
  RecoveryAttempts = 0
  NumRuns = 3
  MaxCrashes = 1
  Modes = {"default"}
  Detaching <- AllOrNone
  Commands = {"cancel", "reconcile"}
INVARIANTS
  TypeOK
  CompletedHasPassed
  SoleRunner
PROPERTIES
  SliceOrder
  NoRepeat
CHECK_DEADLOCK FALSE
