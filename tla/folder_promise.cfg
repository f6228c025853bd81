SPECIFICATION Spec
VIEW View
CONSTANTS
  NumSlices = 3
  Folders <- MixedFolders
  RecoveryAttempts = 1
  NumRuns = 3
  MaxCrashes = 0
  Modes = {"default", "resume", "fresh"}
  Detaching <- AnyRun
  Commands = {}
PROPERTIES
  KeepsPromise
CHECK_DEADLOCK FALSE
