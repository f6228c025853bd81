SPECIFICATION FairSpec
CONSTANTS
  NumWorkers = 2
  Tasks = {t1, t2}
  Procs = {p1, p2}
  NoLease = NoLease
  NoTask = NoTask
  w1 = w1
  w2 = w2
  codex = codex
  antigravity = antigravity
  Worktrees = {w1}
  WorktreeOf <- SharedWorktree
  Free = Free
  Stale = Stale
  Commands <- QueueCommands
  MaxAttempts = 1
  Runtimes = {codex}
  RuntimeOf <- OneRuntime
  ProjectLimit = 0
  RuntimeLimit <- NoLimit
  MaxCrashes = 0
PROPERTIES
  QueueServed
CHECK_DEADLOCK FALSE
