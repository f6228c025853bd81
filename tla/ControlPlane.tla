---------------------------- MODULE ControlPlane ----------------------------
(***************************************************************************)
(* The shared state of the named-worker control plane and the operations   *)
(* the file stores offer on it.                                            *)
(*                                                                         *)
(* Nothing runs permanently: every promptgrinder invocation is a process   *)
(* that loads files, decides, and writes files. One step of a process here *)
(* is one file operation, so a copy read in one step may be stale in the   *)
(* next. internal/workerstate guards its writes with a revision number,    *)
(* internal/taskstore re-reads the task under its lock, internal/taskqueue *)
(* mutates under its lock, and internal/worktree claims a directory with   *)
(* an exclusively created file.                                            *)
(***************************************************************************)
EXTENDS WorkerLifecycle, TaskQueue, FiniteSets

CONSTANTS NumWorkers,   \* workers are numbered in the order of their ids
          NoTask,
          Worktrees,
          WorktreeOf,   \* the worktree a worker's policy selects
          Free, Stale,  \* a claim that is absent; one whose process is dead
          Commands,     \* the commands that are invoked at all
          MaxAttempts   \* bound on the launches of one task

Workers == 1 .. NumWorkers

Command == {"assign", "enqueue", "reorder", "remove", "start", "schedule", "pause",
            "resume", "retry", "cancel", "reset", "submit", "accept", "reject"}

ASSUME CommandsAssumption == Commands \subseteq Command
ASSUME WorkersAssumption == NumWorkers \in Nat \ {0}
ASSUME WorktreeAssumption == WorktreeOf \in [Workers -> Worktrees]
ASSUME MaxAttemptsAssumption == MaxAttempts \in Nat
ASSUME NoTaskAssumption == NoTask \notin Tasks
ASSUME ClaimAssumption ==
    /\ Free # Stale
    /\ {Free, Stale} \cap (Procs \cup (Tasks \X Nat)) = {}
    /\ Procs \cap (Tasks \X Nat) = {}

VARIABLES
    state,    \* state[w]: the persisted WorkerState of worker w
    task,     \* task[t]: the persisted Task t, status "absent" without a file
    queue,    \* queue[w]: the persisted FIFO of worker w
    claim,    \* claim[d]: the claim file of worktree d
    live,     \* the runs whose operating-system process is alive
    procs     \* procs[p]: the invocation that runs in slot p

-----------------------------------------------------------------------------
(* A run is known by its task and its attempt number; run 0 stands for an   *)
(* empty ActiveRunID.                                                       *)
Run == Tasks \X (Nat \ {0})

WorkerState == [rev : Nat, life : Lifecycle, active : Tasks \cup {NoTask}, run : Nat]

Task == [status : TaskStatus \cup {"absent"}, owner : Workers,
         attempts : Seq(Disposition), handoffs : Seq(ReviewStatus)]

\* What Ensure creates for a worker that has no state file.
NewState == [rev |-> 1, life |-> "idle", active |-> NoTask, run |-> 0]

Absent == [status |-> "absent", owner |-> 1, attempts |-> <<>>, handoffs |-> <<>>]

\* An invocation: its command, the step it is about to take, its worker and
\* task, its copy of the worker state, the task status it decided on, the
\* outcome of its launch, and the scheduler's copies of all worker states.
Pc == {"ready", "create", "queue", "activate", "rollback",
       "snapshot", "consider", "lease", "inspect", "reserve", "skip", "giveback",
       "mark", "commit",
       "start", "restore", "claim", "locate", "depart", "launch", "record", "settle",
       "ascend", "check",
       "stop", "suspend", "rest", "wake", "find", "reassign", "adopt", "readopt",
       "look", "reload", "dequeue", "void", "vacate",
       "join", "handoff", "await", "judge", "decide", "requeue", "close"}

Outcome == {"none", "error", "norun", "async", "finished"}

Process == [op : Command \cup {"none"}, pc : Pc, w : Workers, t : Tasks \cup {NoTask},
            st : WorkerState, status : TaskStatus \cup {"absent"},
            out : Outcome, snap : [Workers -> WorkerState]]

Ready == [op |-> "none", pc |-> "ready", w |-> 1, t |-> NoTask, st |-> NewState,
          status |-> "absent", out |-> "none", snap |-> [w \in Workers |-> NewState]]

Exists(t) == task[t].status # "absent"

-----------------------------------------------------------------------------
(* Steps of an invocation.                                                  *)

At(p, pc) == procs[p].pc = pc

Becomes(p, invocation) == procs' = [procs EXCEPT ![p] = invocation]

Begin(p, cmd, pc, w, t, st) ==
    /\ cmd \in Commands
    /\ At(p, "ready")
    /\ Becomes(p, [Ready EXCEPT !.op = cmd, !.pc = pc, !.w = w, !.t = t, !.st = st])

Goto(p, pc) == Becomes(p, [procs[p] EXCEPT !.pc = pc])

\* The invocation ends, with or without an error, and its copies are gone.
Return(p) == Becomes(p, Ready)

\* Start's deferred lease.Release: a claim that is no longer this process's
\* own is left alone.
Released(p) == [d \in Worktrees |-> IF claim[d] = p THEN Free ELSE claim[d]]

-----------------------------------------------------------------------------
(* workerstate.Store. Save loads the file under the store's flock and       *)
(* compares revisions, so the read, the check and the write are one step.   *)

\* Mutant: Save without the comparison of revisions.
FreshAlways(p) == TRUE

\* The copy is of the revision that is on disk.
Fresh(p) == procs[p].st.rev = state[procs[p].w].rev

\* Mutant: Save forgets to count the revision.
SavedUnrevised(new) == new

\* What Save writes: the record it is given, with the next revision.
Saved(new) == [new EXCEPT !.rev = @ + 1]

\* Save succeeds; the invocation goes on with what it saved.
Save(p, new, pc) ==
    /\ Fresh(p)
    /\ state' = [state EXCEPT ![procs[p].w] = Saved(new)]
    /\ Becomes(p, [procs[p] EXCEPT !.st = Saved(new), !.pc = pc])

\* Save succeeds and is the last thing the invocation does.
SaveLast(p, new) ==
    /\ Fresh(p)
    /\ state' = [state EXCEPT ![procs[p].w] = Saved(new)]
    /\ Return(p)

\* Transition changes the lifecycle in the copy if the table admits it.
Became(st, life) == [st EXCEPT !.life = life]

\* ActiveTaskID, ActiveRunID and RuntimeSession are cleared together.
Vacant(st) == [st EXCEPT !.active = NoTask, !.run = 0]

-----------------------------------------------------------------------------
(* taskstore.Store. Each operation loads, mutates and writes the task under *)
(* the task's flock; a copy loaded before is never written back.            *)

SetTask(t, new) == task' = [task EXCEPT ![t] = new]

\* UpdateControl where the mutation only sets the status.
SetControlStatus(t, status) == SetTask(t, [task[t] EXCEPT !.status = status])

\* ReplaceLast(s, e) is s with e for its last element.
ReplaceLast(s, e) == [s EXCEPT ![Len(s)] = e]
=============================================================================
