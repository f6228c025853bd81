SPECIFICATION Spec
CONSTANTS
  w1 = w1
  w2 = w2
  NoWorker = NoWorker
  Paths <- MCPaths
  RoleAllowed <- MCRoleAllowed
  SliceAllowed <- MCSliceAllowed
  SliceForbidden <- MCSliceForbidden
  FirstTree <- MCFirstTree
  Workers <- MCWorkers
  RecoveryAttempts = 1
  NumWorkerSteps = 2
  NumUserSteps = 1
  UserAt <- Always
  MaxLines = 3
  NumPrompts = 2
  RollbackOnFailure = TRUE
  MaxCrashes = 1
SYMMETRY MCSymmetry
INVARIANTS
  TypeOK
  CommitExact
  IsolationKeeps
  ContractExact
PROPERTIES
  OutsideUntouched
CHECK_DEADLOCK FALSE
