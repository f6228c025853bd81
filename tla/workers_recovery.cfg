SPECIFICATION Spec
VIEW View
SYMMETRY Symmetry
CONSTANTS
  NumWorkers = 1
  Tasks = {t1, t2}
  Procs = {p1, p2}
  NoLease = NoLease
  NoTask = NoTask
  w1 = w1
  w2 = w2
  codex = codex
  antigravity = antigravity
  Worktrees = {w1}
  WorktreeOf <- SharedWorktree
  Free = Free
  Stale = Stale
  Commands <- RecoveryCommands
  MaxAttempts = 1
  Runtimes = {codex}
  RuntimeOf <- OneRuntime
  ProjectLimit = 0
  RuntimeLimit <- NoLimit
  MaxCrashes = 1
INVARIANTS
  ActiveTaskBelongs
PROPERTIES
  DispatchReserved
CHECK_DEADLOCK FALSE
