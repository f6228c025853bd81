---------------------------- MODULE MCNamedWorkers ----------------------------
(***************************************************************************)
(* Instances of NamedWorkers for TLC.                                      *)
(***************************************************************************)
EXTENDS NamedWorkers

CONSTANTS w1, w2, codex, antigravity

\* Both workers of the project work in the same directory, with one runtime.
SharedWorktree == [w \in Workers |-> w1]
OneRuntime == [w \in Workers |-> codex]
\* Three workers, of which the first and the third share a directory, and the
\* first two a runtime.
ThreeWorktrees == [w \in Workers |-> IF w = 2 THEN w2 ELSE w1]
ThreeRuntimes == [w \in Workers |-> IF w = 3 THEN antigravity ELSE codex]
NoLimit == [r \in Runtimes |-> 0]
LimitOne == [r \in Runtimes |-> 1]

\* An operator works on assigned tasks, without a scheduler.
DirectCommands ==
    {"assign", "start", "pause", "resume", "retry", "cancel", "reset",
     "submit", "accept", "reject"}
\* Schedulers that may die, beside what changes the queue under them.
RecoveryCommands == {"assign", "enqueue", "schedule", "reorder", "remove", "cancel"}
QueueCommands == {"enqueue", "schedule"}

ProcSymmetry == Permutations(Procs)
Symmetry == Permutations(Procs) \cup Permutations(Tasks)

(* Revisions only grow and are only compared for equality with the one on    *)
(* disk, so the view keeps the outcome of the comparison; it leaves out the  *)
(* copies an invocation does not read any more before it returns.            *)
ReadsCopy(pc) == pc \in {"create", "activate", "locate", "depart", "launch", "record",
    "restore", "claim", "settle", "ascend", "check", "stop", "suspend", "rest", "wake",
    "reassign", "adopt", "readopt", "dequeue", "void", "vacate", "handoff", "await",
    "decide", "requeue", "close"}
ReadsSnapshot(pc) == pc \in {"snapshot", "consider", "lease", "inspect", "reserve", "skip"}

Compared(copy, w) == [copy EXCEPT !.rev = IF @ = state[w].rev THEN 1 ELSE 0]

View ==
    <<[w \in Workers |-> [state[w] EXCEPT !.rev = 1]], task, queue, claim, live, crashes,
      [p \in Procs |->
        LET c == procs[p]
        IN  [c EXCEPT !.st = IF ReadsCopy(c.pc) THEN Compared(@, c.w) ELSE NewState,
                      !.snap = IF ReadsSnapshot(c.pc)
                               THEN [w \in Workers |-> Compared(@[w], w)]
                               ELSE Ready.snap]]>>
=============================================================================
