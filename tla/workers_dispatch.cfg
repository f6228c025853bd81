SPECIFICATION Spec
VIEW View
SYMMETRY Symmetry
CONSTANTS
  NumWorkers = 3
  Tasks = {t1, t2, t3}
  Procs = {p1, p2}
  NoLease = NoLease
  NoTask = NoTask
  w1 = w1
  w2 = w2
  codex = codex
  antigravity = antigravity
  Worktrees = {w1, w2}
  WorktreeOf <- ThreeWorktrees
  Free = Free
  Stale = Stale
  Commands <- QueueCommands
  MaxAttempts = 1
  Runtimes = {codex, antigravity}
  RuntimeOf <- ThreeRuntimes
  ProjectLimit = 2
  RuntimeLimit <- LimitOne
  MaxCrashes = 0
INVARIANTS
  LimitsRespected
  OneRunPerWorktree
CHECK_DEADLOCK FALSE
