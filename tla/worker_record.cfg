SPECIFICATION FairSpec
CONSTANTS
  Absent = Absent
  o1 = o1
  o2 = o2
  Operators = {o1, o2}
  Commands <- AllCommands
  Outcomes <- SixOutcomes
  Modes = {"headless", "terminal"}
INVARIANTS
  TypeOK
  SuccessEarned
  ReportFirst
  ScriptSettles
  NothingLeft
PROPERTIES
  WaitEnds
CHECK_DEADLOCK FALSE
