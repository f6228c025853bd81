SPECIFICATION Spec
CONSTANTS
  dev = dev
  ops = ops
  name = name
  gates = gates
  a = a
  b = b
  Roles = {dev, ops}
  ScalarFields = {name}
  ListFields = {gates}
  Values = {a, b}
  Written <- SomeFiles
  Proposals <- SomeProposals
  NumReviews = 1
  NumEdits = 1
  NumChanges = 2
  MaxFaults = 1
INVARIANTS
  TypeOK
  UserEditsKept
  RejectedUntouched
PROPERTIES
  WritesReviewed
CHECK_DEADLOCK FALSE
