SPECIFICATION Spec
VIEW View
SYMMETRY ProcSymmetry
CONSTANTS
  NumWorkers = 1
  Tasks = {t1}
  Procs = {p1, p2}
  NoLease = NoLease
  NoTask = NoTask
  w1 = w1
  w2 = w2
  codex = codex
  antigravity = antigravity
  Worktrees = {w1}
  WorktreeOf <- SharedWorktree
  Free = Free
  Stale = Stale
  Commands <- DirectCommands
  MaxAttempts = 2
  Runtimes = {codex}
  RuntimeOf <- OneRuntime
  ProjectLimit = 0
  RuntimeLimit <- NoLimit
  MaxCrashes = 0
INVARIANTS
  TypeOK
  CopiesCurrent
  LaunchExclusive
  PausedIsStopped
PROPERTIES
  LifecycleFollowsTable
CHECK_DEADLOCK FALSE
