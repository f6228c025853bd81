# A TLA+ development of PromptGrinder

PromptGrinder launches AI coding workers in Git working trees. Two subsystems carry its
logic, with two smaller ones beside them. The *named-worker control plane* keeps, for every worker of a project, a lifecycle, a
FIFO of tasks and the attempts and reviews of each task. The *run-folder engine* runs the
slices of a folder in order and resumes them after failures, in Git worktrees that it commits to.
*Role enhancement* reviews and rewrites the role files that the slices name, and *configuration and
model policy* decide with which engine and model a slice runs. None has a server: every
invocation of `promptgrinder` is an operating-system process that loads JSON files, decides and
writes JSON files, beside any number of other invocations, detached supervisors and workers.
What has to be right is therefore the interleaving of file operations: stale copies, writes in
the wrong order, processes that die between two writes.

Paths below are relative to `src/internal/` unless they begin with `src/`. `PROJECT.json` maps every definition that models code to
its lines, and lists the components, the runs, the mutants, the hazards, the findings and the
theorems.

## 1. Inventory

### Named-worker control plane

| component | state | operations | hard behaviour | what makes it correct |
|---|---|---|---|---|
| domain and lifecycle (`workerdomain`) | none | `CanTransition` | callers apply it to copies | lifecycles on disk follow the table |
| worker state store (`workerstate`) | one JSON per worker with a revision, under `flock` | `Load`, `Ensure`, `Save`, `Transition`, `Reset` | optimistic locking | no write undoes another one |
| task store (`taskstore`) | one JSON per task, under `flock` | assign, enqueue, `SetStatus`, `UpdateControl` | three stores written by one command, rollback | tasks belong to their worker; attempts are kept |
| task queue (`taskqueue`) | a FIFO per worker, the head leased | `Enqueue`, `Reorder`, `Remove`, `Acquire`, `Commit`, `Release` | leases that expire | each task once, dispatched in order |
| worker start (`workerstart`) | none | `Start` | eleven file operations around a process launch | one launch at a time; a claim follows its run |
| scheduler (`scheduler/dispatch.go`) | a project lock | `RunOnce` | decides on a snapshot; may die anywhere | limits; only reserved tasks are assigned; every queue is served |
| worker control (`workercontrol`) | none | pause, resume, retry, cancel, reset | stop a process, then two stores | a paused or canceled run has stopped |
| review (`review`) | in the task | submit, accept, reject | authorize on one copy, write another | a verdict is final; a review has a handoff |
| worktree claims (`worktree`) | a claim file per directory | `Acquire`, `Release`, `TransferPID`, `ReleaseForPID` | stale claims | one run per directory |
| path policy (`workerpathpolicy`) | a snapshot of index, worktree and HEAD per worker | `Match`, `Capture`, attribution, check at completion | runs when a run ends, in its process, beside a user | blocks only the worker that broke it; only changes of the worker are attributed to it |
| adapters, launch request, Git location, registry | none | build a launch | capability checks | – |

The commands of `cli/cli.go` glue these together: what a command loads, in which order, and
which service it calls is part of the model.

### Run-folder engine

| component | state | operations | hard behaviour | what makes it correct |
|---|---|---|---|---|
| sequence engine (`runfolder/runfolder.go`, `recovery.go`, `adoption.go`, `preflight.go`) | `SequenceState` (no lock, no revision), `run.json`, prompt records, supervisor record with heartbeat | `Run`, `CancelSequence`, `ReconcileSequences`, `StopSequenceSupervisor` | several records of one fact, written one after the other; commands that save copies of their own | slices pass in order, none twice, none behind a gate that blocked |
| commit and recovery of a slice (`gitCommitFocused`, `recovery.go`) | the worktree, the prompt record, recovery artifacts | snapshot, attribute, stage, compare, commit; repair; isolate and retry; resume in a dirty tree | Git commands one by one while a user and worker processes act; crashes half way | a commit is what was attributed and permitted; nothing that was isolated is lost; paths of others are left alone |
| identity and adoption (`loadOrCreate`, `adoption.go`, `preflight.go`) | all sequence records of a folder, of two state versions | find the exact, a compatible or a named record, migrate, retain completed slices, check the others | records of edited folders; decided three times per run | nothing is retained that has changed; nothing is launched unchecked |
| parallel lanes (`runfolder/parallel.go`) | the items' integration state, a coordinator branch | batches of lanes, merge, resume | a lane fails, a merge fails, the coordinator dies | every lane is merged exactly once, after those it depends on |
| worker records (`state`) | one JSON per worker run, no lock and no revision | `Save`, `MarkStarted`, `SetProcess`, `ClearProcess`, `Heartbeat`, `MarkFinished`, `Complete`, `Fail`, `Cancel`, `Reconcile`, `Prune` | each loads, changes and saves the whole record, in a process of its own | a success is the engine's; a terminal status is final |
| runtime service (`runtime`) | none | `RunPromptFolder`, `FinishWorker`, `WaitPrompt`, `Cancel`, `CancelSequence` | joins the two subsystems; cancel kills first and writes then | a worker that is cancelled has stopped |
| worker manager (`worker`), engine adapters (`engine`), `execution`, `terminal` | the processes of a run: launcher, script, heartbeat loop, engine | create a record, render a script, start it, own the engine | a terminal may fail after it has started the script; the engine may start and then not be recordable | no engine is left behind; a launch returns |

### Role enhancement, configuration and model policy

| component | state | operations | hard behaviour | what makes it correct |
|---|---|---|---|---|
| role enhancement (`roleenhance`) | role files; review records with a revision, a lifecycle lock | create from an advisor, refine, decide, edit, reject, apply in whole or in parts, with or without `--safe` | files are edited by their user; several files are replaced one by one; a review goes stale | only what was reviewed is written; the user's edits survive; a rejected review has changed nothing |
| configuration (`config`) | files of template, user and repository, the environment | merge with validation | a later source overrides key by key | – (part of adoption) |
| model policy (`modelpolicy`, `worker/manager.go`) | `models.yaml`, the runtime's catalog | resolve what slice, role and policy ask for | read again at launch | the model is permitted, selectable and within the limits |

### The rest

Markdown parsing, discovery, first use and the user interface keep no state that lives longer than a
command.

### How they interact

A scheduler or an operator starts a worker: `workerstart` claims the directory, saves the state
of the worker, launches a process and hands it the claim. The process ends in
`runtime.enforceNamedWorkerPathPolicy`, which may block the worker in the state store. Commands,
schedulers and ending runs meet only in files: the worker state (revision), the task (`flock`,
re-read), the queue (`flock`), the claim (exclusive creation, a PID that answers signal 0). A run
of a folder is one process with one worker at a time; it meets `sequence cancel` and
`reconcile` in the sequence record, where the last writer wins.

Whoever starts a worker, the process that does the work is the same: a *launcher* creates
`worker.json`, writes a script beside it and starts the script, waiting for it (headless) or leaving it to a
terminal. The *script* beats, calls `ExecuteWorker`, which owns the engine, and then
`FinishWorker`, which decides from the exit code, the output and the changed paths. All of them, the
script's heartbeat loop and the commands `worker cancel`, `complete`, `fail`, `reconcile` and
`prune` write that one file.

## 2. Modules

```
WorkerLifecycle   TaskQueue          FolderOrder (abstract)
        \          /                      ^ refines
        ControlPlane                FolderSequence
        /     |                          |
 TaskIntake  WorkerStart            FolderControl
        \    /     |     \               |
         \ Scheduler WorkerControl   MCFolder, Folder_proofs
          \   |     /    Review
        NamedWorkers
          |       \
 MCNamedWorkers    NamedWorkers_proofs - Ownership_proofs

        WorkerRecords
              |
        RecordControl
          |       \
      MCRecords    RecordControl_proofs

     PathPolicy
         |
     GitWorktree                          Configuration  LaunchInputs
         |                                       \          /
     SliceCommit   CompletionReport           SequenceAdoption
       |      \        /                            |     \
   SharedRun  SliceRecovery                  MCAdoption    Adoption_proofs
        \      /
      WorktreeRuns             ParallelLanes            RoleRefinement
        |       \                |         \                  |
     MCSlice  Slice_proofs    MCLanes  Lanes_proofs      RoleReviews
                                                         |         \
                                                      MCRoles   Roles_proofs
```

A *step* of a model is one file operation (load, or the load-compare-write that runs under one
lock), one process launch or one signal. Between two steps of a process anything else may
happen. A process keeps its program counter and the copies it made, exactly as long as the code
does.

- **WorkerLifecycle**: the transition table and the statuses.
- **TaskQueue**: a queue as a sequence of entries with a lease, and the store's operations as
  pure operators with their guards (`CanX`). Time is the expiry of a lease.
- **ControlPlane**: the shared variables `state`, `task`, `queue`, `claim`, `live` and the
  processes `procs`; what the stores offer (`Fresh`, `Save`, `SaveLast`, `SetTask`). `live` are
  the runs whose process is alive, a run being a task and its attempt number.
- **TaskIntake** (assign, enqueue with rollback, reorder, remove), **WorkerStart** (`Start`),
  **Scheduler** (`RunOnce`, ending in `Start`), **WorkerControl** (pause, resume, retry, cancel,
  reset), **Review** (submit, accept, reject): one action per step, in the order of the code, with
  its early returns and its revision conflicts.
- **NamedWorkers**: the composition, with runs that end (and may then block their worker), leases
  that expire, invocations that die, and the properties.
- **FolderSequence**: a run of a folder: load both records, announce the supervisor, recover a
  dirty tree, the loop over the slices with launches, recovery attempts, gates and failures, the
  deferred work of a supervisor, the release of the claim. `seq` and `run` are the two files; each
  run has its copies `my` and `own`.
- **FolderControl**: `sequence cancel` (load, reload, write, stop the supervisor and release its
  claim) and `reconcile` (load and judge, write), crashes, the composition and the properties.
- **FolderOrder**: the promise of run-folder: slices pass in order, a gate that blocks ends the
  sequence, completed means that all have passed, and only starting over gives up what passed. The last slice that
  passes completes the sequence, unless specification slices follow it: those have still to be skipped.

- **WorkerRecords**: the store of one `worker.json` (an operation is a load, which may refuse, and
  a save of the copy), the launcher from `createWorker` to `WaitPrompt`, the script with its
  heartbeats, `ExecuteWorker` with the engine and its process group, and `FinishWorker`. `rec` is the file,
  `copy` what each process has loaded and not yet saved, `at` the step it is about to take.
- **RecordControl**: the commands of operators (cancel, complete, fail, reconcile, prune), the
  composition and the properties. Each command may overlap every step of the launcher, the script and
  other commands.

- **PathPolicy**: which paths a slice may change: matching of patterns as a recursive function, the normalization of legacy
  role patterns, slice inside role (`Permitted`). A prompt of a shared run is held to its own policy only (`OwnPermitted`).
- **GitWorktree**: history, index and files, the Git commands as operators on them, the snapshot and the
  attribution of changes to a worker.
- **SliceCommit**: one attempt with `--commit-each`, a step per Git command of `gitCommitFocused`.
- **CompletionReport**: what a run reads off the final answer, and how a worker ended.
- **SliceRecovery**: all attempts and invocations of one slice: the decision after a failure, repair,
  isolation into an artifact, resume in a dirty tree, with workers and a user that write, stage and commit at any moment. The
  patch of an isolation, each `git ls-files` that tells a tracked path from an untracked one, each move and the restore are steps of their own.
- **SharedRun**: prompts with a shared context, committed by the same steps without the check of HEAD
  and of the role, and the rollback. **WorktreeRuns** composes the two and states what either may commit and touch.
- **Configuration**, **LaunchInputs**: merging and validation of settings; the requirement of a slice and its role
  and the model that the policy selects for it. Pure operators.
- **SequenceAdoption**: preflight, the choice of the sequence record (exact, compatible, named,
  migrated, new), what it retains, and the launches of a folder whose files, role, configuration and models are edited.
  `store` are the records of all sequences, the one that was touched last first.
- **ParallelLanes**: the coordinator: open or resume its worktree, batches of lanes, failures, merges,
  conflicts, the fast-forward. A branch is the set of commits it contains.
- **RoleRefinement**, **RoleReviews**: how recommendations become items, conflicts and their resolution; the commands on reviews.
  Apply has the steps of the code (load, merge, stage, check, one rename per file, record); the others
  hold the lifecycle lock and write once.

The parts are models of their own and meet where the code lets them be told apart: NamedWorkers and
FolderSequence see a worker run as something that is launched, lives and has an outcome, which is what
RecordControl is about. SliceRecovery is FolderSequence's slice seen from its worktree,
SequenceAdoption its record seen over edits of the folder; that only one run works at a time, which both
assume, is what `SoleRunner` says.

Operators called "Mutant" in a comment are deliberate faults, which no specification uses. Each
property has one, named in `PROJECT.json`: with the definition replaced by its mutant, TLC
finds the property violated.

### Abstractions

- *Data.* Names, hashes, prompts, evidence, reviewers, timestamps and event logs are dropped: no
  guard that is modelled reads them. A handoff is its review status, an attempt its disposition.
- *Time.* A lease expires at any time after it was taken. A heartbeat is in time as long as its
  supervisor lives; the age of a sequence without a supervisor is arbitrary.
- *Processes.* PIDs are not reused. A launch may fail, return no run reference, leave a process,
  or return after its process has finished.
- *Locks.* `flock` is released by the kernel, so that the read, the check and the write under it
  are one step, even if the process dies. The scheduler's project lock spans many steps and is
  modelled as held by its process.
- *Worker records.* An engine ends by itself, by its timeout or by a signal, with any of the given outcomes
  (exit, final message, paths kept to); a signal does not fix the outcome, since the engine may still
  answer. The age of a record is arbitrary for `reconcile`, and so is which of its answers a
  terminal gives. A record has its status, exit code, report and whether it names a process group. The
  creation of a record and its start are single steps, because nobody else writes the record before its
  status is running.
- *Git.* A file has a content that names its author. The history is only appended to, apart from the rollback of shared
  runs. Some reads of Git that the code makes with several commands are one step: a snapshot of HEAD, index and files, and with it the
  attribution of changes; the decision whether the changes can be isolated (attribution, policy, HEAD); the output of
  `git diff` and the writing of the patch; the test for an untracked file and its rename. What changes inside such a read is
  seen by it or not, as a whole. Pattern components are names, `*` and `**`; finer globs are left out, and so is
  the run state of old versions inside a repository. There is one slice in SliceRecovery. Answers have up to three lines; the
  parsing of failure reports is left out (a failure is recoverable or not by its kind, see the findings).
- *Lanes.* Every commit is a lane or an edit of the user. Specification slices and `sequence cancel` are left out,
  lanes of a run that died are dead too, and the base of a resumed run is the feature branch when it opens.
- *Adoption.* A hash is the value it is taken of. Specification slices, gates, `--fresh` and `--restart` (which
  FolderSequence has), the completed list of `run.json`, `--engine` and `--sandbox`, images, the legacy `engine:` key
  and the bookkeeping of policy hashes are left out. Files, role, configuration and environment are edited between runs,
  model policy and catalog at any time. A snapshot of a version 1 record is the content that ran, or none.
- *Roles.* A list is the set of its entries; confidence, explanation, evidence and times are left out. The advisor returns
  any of a set of proposals. Commands are sequences of the operations of the service.
- *Not modelled at all*: the closing of terminal tabs (`MarkTerminalClosed`), failures of the disk (a write that fails or is torn; a failed rename of
  role files is modelled), the event, control
  and decision logs, the resume of a runtime session (no registered launcher does that),
  `--allow-concurrent-worktree`, `--include-specification`.

## 3. What is checked

### Named workers

| run | question | instance |
|---|---|---|
| `workers_core` | Do the safety properties of one worker survive two overlapping commands of any kind? | 1 worker, 1 task, 2 processes, 2 attempts, all direct commands |
| `workers_dispatch` | Do limits and the exclusive use of directories hold under two schedulers? | 3 workers, 3 tasks, 2 directories, 2 runtimes, project limit 2, runtime limit 1 |
| `workers_recovery` | Does dispatch stay sound when a scheduler dies and the queue changes under it? | 1 worker, 2 tasks, 2 processes, 1 crash |
| `dispatch_liveness` | Is every queue served? | 2 workers with one directory, 2 tasks, 2 processes, fairness |

The properties, and what would break them:

- `CopiesCurrent`: a copy with the revision on disk is the record on disk. The optimistic lock
  rests on it, and one write that does not count the revision breaks it.
- `LaunchExclusive`: start, resume, retry and schedulers may all find a worker idle; only one gets
  it to starting.
- `LifecycleFollowsTable`: the table is applied to copies, and two writes do without it
  (`SettleFailed`, `Ascend` set the lifecycle after a launch). The lifecycle on disk still
  follows it.
- `ActiveTaskBelongs`: the task files and the worker state refer to each other across rollback,
  cancel, removal and reassignment.
- `PausedIsStopped`: pause kills the process that a copy names and only then writes.
- `LimitsRespected`: decided on a snapshot that launches make stale. Only schedulers count
  limits, so the property is checked where only schedulers launch.
- `OneRunPerWorktree`: between the death of a run's starter and the end of the run the claim
  must name a living process. Checked without crashes of starters (see below).
- `DispatchReserved`: with reorder, removal and crashes, what is assigned is a leased entry whose
  worker is reserved.
- `QueueServed` (liveness): an available worker does not keep a filled queue for ever.

*Bounds.* `MaxAttempts` bounds the launches of one task: a second launch is what retry and resume
are about, a third repeats the second. Two processes are what any pairwise race takes; copies
are private, so that a third process adds a second victim and not a new kind of race. Two runtimes
and three workers are the least at which both limits bind on different workers. `MaxCrashes` 1:
each crash leaves a record that nobody finishes, and the properties say what one such record may
do. Every run visits its complete state space.

*View and symmetry.* Revisions only grow and are only compared with the one on disk: the view keeps
the outcome of that comparison for each copy and drops copies that are never read again, so that
it identifies states with the same future. The properties do not read what it drops, apart from
`CopiesCurrent`, which only reads the outcome of the comparison and the record of copies that are
kept. Processes and tasks are interchangeable model values; no CHOOSE ranges over them and no
liveness is checked with symmetry or a view.

*Fairness.* `FairSpec` assumes that a process that runs takes its next step, that a lease which is
held expires, and that schedulers keep being invoked. The last one is an assumption on the
operator: `scheduler run` loops, but any error of `RunOnce`, a failed launch of one worker
included, ends the loop. Invocation is strongly fair because the model has a fixed number of
process slots while the operating system has always room for one more. `QueueServed` is checked
without crashes, cancel and review, which can leave a head that is never dispatched (see *dead
ends*); nothing in the repository promises progress there.

### Run-folder

| run | question | instance |
|---|---|---|
| `folder_promise` | Does the sequence record, as anybody can read it, keep the promise of `FolderOrder`? | 3 slices with a gate in the middle, before a slice or a specification, or a specification first, in the middle or last, 3 runs, each detached or not, each default, `--resume` or `--fresh`, 1 recovery attempt |
| `folder_recovery` | What survives crashes, cancel and reconcile? | 2 slices, 3 runs, all detached or none, 1 crash, both commands at any time |

- `KeepsPromise`: a refinement. The phase of `FolderOrder` is read off the sequence record;
  `passed` is a history variable that follows the outcome of the workers. It fails if the record
  ever says completed too early, leaves a blocked sequence, or lets a slice pass out of order or behind a gate that
  blocked.
- `SliceOrder`: a slice is launched only after all before it have passed, whichever of the two
  records a resumed run believes.
- `NoRepeat`: a slice listed in the `run.json` of an unfinished run is not launched again, although
  cancel or reconcile may have overwritten the sequence with a copy from before it succeeded. The
  property stops at a `run.json` that says completed: the next run starts a new one then, and an
  item that a late copy turned back is run again.
- `CompletedHasPassed`: completed means that every slice has passed.
- `SoleRunner`: two runs never work at once, although cancel releases the claim of the supervisor
  that its first copy names, which may have been succeeded by another run.

*Bounds.* `NumRuns` 3: a record needs one run that writes it, one that goes on from it and one that
meets what both left; the races of cancel with a late save need exactly that. Two slices are an order; three put a gate
between two. `RecoveryAttempts` 0 in `folder_recovery` only removes what `folder_promise` has.
`MCFolder!View` drops what a run that has ended knew, supervisor records that nothing names and
flags that are not read any more. These runs check safety only.

### Worker records

| run | question | instance |
|---|---|---|
| `worker_record` | Does the record of a run tell the truth, does a launch end and does it leave nothing behind? | one run, headless or in a terminal; headless, one operator with any command beside one who prunes; in a terminal, one who cancels; six outcomes of the engine |

- `SuccessEarned`: no record and no copy says that the engine succeeded unless it did, whoever saves an
  old copy over whose. A declared gate may end `BLOCKED`; any other rejection is a failure although
  the exit code is zero.
- `ReportFirst`: the report is saved before the status, with an older copy, while operators write
  (the comment of `runtime/runtime.go:1177` asks for the order). Headless only: in a terminal a heartbeat that
  was under way when the loop was killed may undo the report (see below).
- `ScriptSettles`: a headless script leaves a terminal record, although every write of it may be
  preceded by an operator's and followed by an operator's older copy.
- `NothingLeft`: an engine that could not be recorded, because somebody pruned the record, is
  killed before the launch returns and its caller releases the directory.
- `WaitEnds` (liveness): a launch returns and an ordered run goes on. The property assumes that no
  heartbeat outlives the loop: one that does may save a running record over the terminal one, and
  `WaitPrompt` then waits for ever.

*Bounds.* One command at a time and any number in sequence per operator; two operators give every pair
of a verdict and a prune, which removes what the others have loaded. Two verdicts that overlap only decide
which of them is last. The outcomes are one for each branch of `FinishWorker`. The number of operators,
commands and outcomes is arbitrary in the proofs.

*Fairness.* The launcher and the script take their next step, and an engine ends: its prompt has a
timeout, or somebody watches it. Nothing is assumed of operators and heartbeats.

### A slice in its worktree

| run | question | instance |
|---|---|---|
| `slice_recovery` | Do commits and recovery touch and keep exactly what they should, whoever acts in the worktree? | one slice with `--recovery-attempts` 1 or a shared run of two prompts; four paths, one that the slice forbids and one outside of its role; 2 workers, 2 steps of workers and 1 of the user at any moment, 1 crash; answers of up to 3 lines |

- `CommitExact`: what is recorded as the commit of a slice changes, from the baseline, exactly the
  paths that were attributed to the worker and permitted: by slice and role, or in a shared run by the policy of the
  prompt alone. Six Git commands lie between the attribution and the commit.
- `IsolationKeeps`: what the last isolation for a worker set out to keep is in the worktree, in the artifact or in
  the history at every moment, also if the run dies half way, until somebody else overwrites it. It leaves out what is staged too late
  (`exposed`): untracked when the patch was written, tracked when `git ls-files` asks. There the code loses what it isolates: one
  write of the worker and one `git add` of the user, between the patch and the `ls-files` of a new file, make the restore delete
  a file that no artifact has. With `retained[w]` for `retained[w] \ exposed[w]`, TLC finds that trace (section 5).
- `OutsideUntouched`: no step of a run changes a file or the index outside the paths that it may change, although
  `git restore`, moves and `git add` are applied on the word of records that may be old. Only a rollback, which resets everything, is
  left out.
- `ContractExact`: over all answers up to three lines, a report is accepted exactly if it has the
  two fields once each with the good values (a reference definition of README's sentence).
- `TypeOK` bounds the recovery attempts, across resumes and repairs that are counted in records.

*Bounds.* A race of the run with somebody else needs one step of the other between two of its own; two worker steps
are an edit and its staging or commit. Three lines are the two fields and one that repeats or spoils one of them.

### Adoption of sequences

| run | question | instance |
|---|---|---|
| `adoption` | Does an edited folder go on with the right record, checked slices and permitted models? | 2 slices, 3 invocations, 2 edits out of 5 versions of a slice, 2 roles, 3 configurations, 2 model policies, 2 catalogs; nothing or one of four version 1 records at the beginning; 1 crash or cancel |
| `changed_retained` | Is a changed completed slice never adopted silently, as `src/README.md:634` says? – *violated* | the same |

- `CheckedBeforeLaunch`: preflight predicts which slices are left; the run decides that again from the records.
  Everything it launches was checked.
- `RetainedAsRun`: at the first resume that is not by the record's own identity, every slice that is retained
  is still what its worker got. Later ones may differ: that is the finding of `changed_retained`.
- `WithinLimits`: the model of a launch is permitted, selectable, within the cost limit of slice or role, and the cheapest where
  nobody names one, at the moment of the launch.

*Bounds.* Three invocations are the one that completes something, one that adopts and one that meets what the
adoption left. Two edits are an edit and its undoing, or the edit of a completed and of an open slice.

### Parallel lanes

| run | question | instance |
|---|---|---|
| `parallel_lanes` | Do lanes, records and branches agree through failures, conflicts, crashes and resumes? | 3 lanes, the third needs the first or both; 3 runs, 2 that start over, 1 commit of the user, 1 crash, with and without a supervisor |

- `DependenciesFirst`: the worktree of a lane contains what it depends on, and the coordinator has a lane only
  after those.
- `FeatureWhole`: the feature branch has all lanes or none and never loses the user's commit; when `run.json` says completed it has them.
- `IntegratedIsMerged`: an item that says integrated is in the coordinator, although the records are saved after the
  merges of a whole batch.
- `PassedNotRelaunched`: a lane that passed is launched again only if its merge conflicted (with a
  supervisor that saves the item as *integrating*, a resume launches such a lane again).

*Bounds.* Two lanes run beside each other and one waits for them: both kinds of batches. Three runs: one that fails, one that
resumes and one that meets what that left.

### Role reviews

| run | question | instance |
|---|---|---|
| `role_reviews` | Does enhancement write only what was reviewed, and nothing of the user's away? | one review; 2 roles with one scalar and one list field of 2 values; 3 proposals with conflicts; 1 edit of the user, 2 decisions, edits or refinements, 1 crash or failed rename |

- `WritesReviewed`: a replacement changes only fields that an item is about, from the value the review shows.
- `UserEditsKept`: an edit is never overwritten, unless it falls between the last comparison and the rename.
- `RejectedUntouched`: a rejected review has written nothing, without faults and without a refine that forgets what was applied (a finding).

*Bounds.* Two roles are the least for an apply that stops half way; a second review only adds one that goes stale.

### Deadlock

All runs set `CHECK_DEADLOCK FALSE`: commands are invoked a bounded number of times or not at all,
and a system in which every task is done and no process runs has stopped as it should.

## 4. What is proved

TLAPS checks the following for every number of workers, tasks, processes, crashes and attempts, and of
slices, runs and recovery attempts, from the named assumptions of the modules (finite numbers are naturals, `NoTask` is no task, the
values of a claim are distinct) and nothing else.

- `TypeCorrect` (*NamedWorkers_proofs*): `Spec => []TypeOK`. `TypeOK` is not inductive: an action
  that launches or records takes the type of its process's task from the step the process is at.
  `TypeInv` adds that an invocation has a task unless its step is one that precedes the choice of one. One lemma per module of actions says that its steps keep `TypeInv`; each
  has one step per action.
- `CopiesAreCurrent`, `LaunchesExclude`, `LifecycleFollows` (*NamedWorkers_proofs*): from one inductive
  invariant, `CopyInv`. Each copy is an earlier record of its worker or the record itself
  (`IsCopy`: its revision is not greater, and if equal so is the record), and the step of a process
  tells the lifecycle in its copy (`LifeAt`). A write that passes the revision check
  therefore starts from the lifecycle that the code checked some steps before: that is the whole
  argument for exclusive launches, since the worker is starting from `Depart` to the end of the
  launch and nobody else's check admits starting. `GoodStep` says what a step of one process does to
  the others (`Advances`: each worker state stays, or gets the next revision and a lifecycle that
  the table admits); `StepKeeps` and `QuietKeeps` derive from it that `CopyInv` is kept, and one lemma per
  module shows that its actions are good steps.
- `FolderTypeCorrect`, `RunsExclude` (*Folder_proofs*): from `FolderInv`. `SoleRunner` holds because
  a run that may work holds the claim (`Holds`), and a claim is only replaced when its run is dead.
  What has to be excluded is that cancel takes the claim from a living run: it names a supervisor
  by an old copy of the sequence. `Announced` says that a run is named by any record or copy only after
  it has written its supervisor record; from then on until `Sign` that record says running, so
  that cancel kills the run before it releases the claim, and after `Sign` the run works no more.
  Most steps of a run touch neither the claim nor a supervisor record: `QuietStep` covers them, and each
  shows that it is one (`Follows`).
- `NothingTwice` (*Folder_proofs*): `Spec => NoRepeat`, for all modes, folders, crashes and commands. `RepeatInv` adds to
  `FolderInv` that a resumed run has nothing left to do that `run.json` lists, neither in the file nor in its copy. The two
  agree because only a run that holds the claim writes `run.json` (`Alone`); what cancel and reconcile do to the
  sequence record does not matter.
- `CompletedIsPassed`, `LaunchedInOrder` (*Folder_proofs*): `[]CompletedHasPassed` and `SliceOrder`, from `PassedInv`: each
  record and each copy anywhere, those of the canceller and the reconciler included, says only of slices that passed that they are
  done (`Honest`), and what a run has left out of its list has passed (`Sound`). Both theorems assume `Plain`:
  no `--fresh`, and no folder with a gate. That is not a matter of the proof: with either, the code does not have the
  properties, and the findings at `runfolder.go:724` and `:1815` are the counterexamples. Crashes, cancel,
  reconcile and detached runs are in.
- `PromiseKept` (*Folder_proofs*): `Spec => KeepsPromise`, the refinement of `FolderOrder`, for all folders, gates and modes,
  `--fresh` included, where no run dies and no other command is given (`Undisturbed`, the bounds of `folder_promise`).
  `OrderInv` says that items are dealt with in order and that the status of a sequence tells what they say (`Tidy`), that
  the one run that is alive (`Only`) has in its copy what the file says once it has saved (`HasSaved`, `Same`), and what its list of
  slices has to do with its items (`Believes`). Each step that saves is brought to a form (`Marks`, `Records`,
  `Resaves`), and one lemma per form says which step of `FolderOrder` it is (`PromisePasses`, `PromiseBlocks`,
  `PromiseCompletes`, `PromiseStartsOver`, `PromiseStays`).
- `RecordTypeCorrect`, `SuccessIsEarned`, `ReportComesFirst`, `RecordSettles`, `NothingIsLeft`
  (*RecordControl_proofs*): all safety properties of `worker_record`, for any operators,
  commands and outcomes. Three invariants on top of each other. `TypeInv` says why whatever is saved was created or
  loaded before: the script begins after the launcher's writes, and a record that is only created is
  written by nobody. `SuccessInv`: `FinishWorker` decides while the engine is over (`Earned`), only
  `MarkFinished` publishes it, and until then nothing anywhere says success (`Clean`); every other
  save repeats what its copy said or says less (`ChangedEchoes`). `HeadlessInv` follows the report from
  `SaveReport` to `MarkFinished` and shows that beside the script only terminal records are written.
- `EnqueueKeeps`, `ReorderKeeps` (*NamedWorkers_proofs*), with lemmas for the other operations: a queue
  stays a queue and free of duplicates.
- `ActiveTasksBelong` (*Ownership_proofs*): `[]ActiveTaskBelongs`, from `BelongInv`. An assign or an enqueue that is rolled back removes the task
  it created, so the invariant says for whom a task is there to stay (`Settled`: no invocation is still making it), that
  queues, active tasks, runs and the copies of an invocation speak of such tasks only, and that a task in the making is unused and
  has one maker. `BelongStep` says what a step may do to the tasks of others; each action is shown to be one.
- `PausedAreStopped` (*Ownership_proofs*): `[]PausedIsStopped`, from `PauseInv`. Pause kills the run that its copy names and writes two steps
  later; as long as the copy is current nobody else can have launched a run of that task, since only a starting worker launches and
  the copy says that it is not starting.
- `WorktreesExclude` (*Ownership_proofs*): `[]OneRunPerWorktree`, from `HeldInv`: whoever launches holds the claim of its worktree from the
  acquisition to the transfer, and the run holds it from then on. It assumes `MaxCrashes = 0`, as the run does: a starter that
  dies before the transfer leaves a claim that is taken for stale while its run works (section 5).
- `LimitsHold` (*Ownership_proofs*): `[]LimitsRespected`, from `LimitInv`: a worker that is busy now and was not counted has been made busy by the
  one scheduler that holds the project lock or by the Start it ends in, so what is counted is at least what is busy beside the one that is
  admitted. It assumes that there is no `start`, `resume` or `retry`: these ask for no limit. Schedulers and their starts may die.
- `DispatchesReserved` (*Ownership_proofs*): `DispatchReserved`, from `DispatchInv`: there is one scheduler, a worker whose active task is
  still pending is idle, the entry of a task that is being dispatched stays in the queue under a lease, and nobody writes a copy that it loaded
  while its worker was not reserved over a reservation. Lemmas on the queue say that no operation of another takes a leased
  entry away. It assumes that there is no `reject`: a rejected task is pending before it is queued again, and resume may assign it in
  between. Crashes and all other commands are in.
- `LanesTypeCorrect`, `LanesAfterDependencies`, `FeatureStaysWhole`, `IntegratedAreMerged`, `PassedStayDone` (*Lanes_proofs*):
  all properties of `parallel_lanes`, for any lanes, dependencies, runs, edits and crashes. `TypeInv`, then `LanesInv`, which relates
  each branch to the records and to the copies of the coordinator: a lane's worktree contains what it depends on, the coordinator is
  closed under dependencies, an item that says integrated, in the file or in the copy, is merged. `PassedInv` on top says which
  lanes may be launched.
- `SliceTypeCorrect`, `CommitsAreExact`, `IsolationKeepsUnstaged`, `OutsideStaysUntouched` (*Slice_proofs*): the properties of
  `slice_recovery` about the worktree, for any paths, workers, contents and steps of others. `CommitInv` follows the attributed paths
  through the Git commands of a commit, with what the comparison of the index has established at each step. `KeepInv` says where
  each content that an isolation still owes (`Owed`: what it set out to keep without what was staged too late) is at each step: in the
  worktree, in the patch, among the moved files or in the history. While paths are told apart, what is not in the patch is of a path
  that is not in the index, so that it will be moved. The exception is needed: without it the invariant is false (section 5).
- `ReportsAreExact` (*Slice_proofs*): `Spec => []ContractExact`, for answers of any number of lines. A field is the set of the lines about it, so that
  none of it needs an induction: `SingleField` brings the count of the code to two different lines, and
  `ReportedOnce` says what is read off a field with at most one.
- `RolesTypeCorrect`, `OnlyReviewedIsWritten`, `EditsSurvive`, `RejectedChangedNothing` (*Roles_proofs*): the properties of `role_reviews`,
  for any roles, fields, proposals and edits. By `MarksInv` a file that is still to be replaced is
  as it was loaded, but for late edits; by `WrittenInv` what was written for a review is an item of it that is applied, or that its apply is
  about to mark; by `StagedInv` what is staged differs from what was loaded only where a chosen item says so. What an apply makes of a file is a fold over its
  items; that it changes only the fields of those items is shown by a least counterexample among the
  values of the fold's recursive function.
- `AdoptionTypeCorrect`, `LaunchesChecked`, `ModelsWithinLimits` (*Adoption_proofs*): from `TypeInv`, for any slices, prompt files, roles,
  policies and catalogs, any records of version 1, and any edits, cancels, reconciliations and deaths of the run. Its part `RunInv` says
  that a slice which the preflight did not check is done when the sequence is loaded, though the record that is loaded need not be the one
  that was checked, and stays done until the next launch (lemmas on `Compatible`, `Adoptable` and `Refreshed` say what a
  resumed record keeps). Lemmas on `Resolve`, one for each way in which the code comes to a model, give `ModelsWithinLimits`.
- `RetainedIsAsRun` (*Adoption_proofs*): `Spec => RetainedAsRun`, from `OriginInv`: a record that was only resumed under its own identity says of what is
  done that its worker got the file of that identity, and while a run works with it the files are those of the identity. It assumes `EditsApart`,
  that no file is edited from the step that settles which record a run works with to the end of the run; the run assumes more (`BetweenRuns`). Records that
  another identity has already resumed are outside of the property: `changed_retained` shows what becomes of them.

What the theorems assume beyond the types and finiteness of the constants: of role reviews, that a scalar has at most one value, that
proposals, values, roles and fields are finite and that there is a review (`ReviewsAssumption`): a scalar is one line of a file and an
advisor's answer is one document. The others assume what the code's own checks at the entrance say (bounds of
`--recovery-attempts`, acyclic dependencies, a slice number that exists), and that an absent lease is none
(`LeaseAssumption`: it is a nil pointer). Of adoption it is assumed that a record of version 1 noted the
text of a slice and the revision as it launched its worker (`LegacyAssumption`) and that the list of models is a sequence
(`ModelsAssumption`). Three theorems about named workers restrict `Commands` or `MaxCrashes` as said above; the
restrictions are those of the runs that check these properties (`workers_dispatch`, `workers_recovery`), or weaker, and each is needed:
the code does not have the property without it.

Proving changed the models in four places. `retained`, the history of what was isolated, now gives up what another worker's isolation takes
over (`Contained`): without it `IsolationKeeps` claimed that a content is kept for two workers at once. And `FolderOrder` had the last
passing slice complete the sequence in the same step, which is false for a folder that ends with a
specification; `folder_promise` had no such folder and has one now. `Others` of
SequenceAdoption filtered the store by identity; there is one record of an identity, so it now removes that record, which is the same
in every reachable state and can be proved about. In CompletionReport a field was the subsequence of its lines and is now
the set of their numbers.

Every safety property of the passing runs is thereby the property of a theorem. Only model-checked, because out of the provers' reach:
`QueueServed`, `WaitEnds` and everything under fairness. Nothing declares a RECURSIVE operator, so that these modules are open to proofs. Where properties hold only without a terminal, the theorems say so.

## 5. Findings and dead ends

`PROJECT.json` lists the disagreements between the code and its documentation, comments or error texts. One has a run of
its own (`changed_retained`); the others are described with the steps that lead to them:

- an expired lease that is never recovered; a gate that is passed after a cancel; a fresh run that inherits what it
  discarded; a cancelled sequence whose worker lives on; a cancelled worker that is running again and ends failed;
- a changed slice that is retained by a resume; a repaired slice that makes the next repair start everything over;
- a role's model that keeps a slice from requesting the cheapest one;
- lanes that wait for a merge in a sequence that says completed and is refused by `--resume`;
- a new file that is staged between the patch of an isolation and the search for untracked files, and is lost (a worker writes
  the file and loses its client; the run decides to isolate, and `git diff HEAD` does not have the file; the user stages it;
  `git ls-files` says that it is tracked, so that it is not moved; `git restore` from HEAD deletes it);
- a recovery artifact that is overwritten by the next isolation for the same worker; a failed launch that is called retryable and
  cannot be retried; a staged deletion that `--commit-each` refuses; a rollback that drops commits and edits;
- an allow list that reconciliation empties, so that everything is allowed;
- a partially applied review that can be rejected after a refine.

While modelling we met states that no command leaves, about which the repository promises nothing.
No property is claimed for them:

- a worker that is *starting* when its starter dies: the table leads from starting only to executing and
  failed, and reset refuses it;
- a *blocked* or *starting* worker whose task is canceled: the task is cleared and the lifecycle stays;
- a scheduler that dies between `SetStatus` and `Commit`: `worker start` runs the task, but the leased head
  is rejected and released by every later `RunOnce`;
- a cancel between the creation and the enqueue of a task, or two submits of which the second is
  written after the first was rejected: a task at the head that is not pending and never leaves;
- a starter that dies between the launch and `TransferPID`: its claim is stale while its run works,
  so that another run may take the directory. `OneRunPerWorktree` is checked without crashes for
  this reason.

Races that lose an update or leave something behind, for which no run is kept:

- a repair that is counted in a prompt record which a later launch failure overwrites, so that it may be repeated;
- content that is only in the index when a slice is isolated: the patch is of the worktree;
- a gate whose report has duplicated or malformed fields: it still completes as product-blocked;
- the error text that decides about recovery contains the file name of the prompt, so that a name like `preflight` counts as a reason;
- an append that was applied with `--safe` while a removal on the same field is pending: the old value of the
  removal no longer matches, and no command leads on;
- the evidence of a review is read again after the advisor ran, and `apply` records the hashes of the files as they are then:
  an edit in between is taken for the review's own;
- two contradicting items that are approved together: both are recorded as applied;
- a lane run that dies in its first batch: no worktree is recorded and `--resume` is refused;
- two reviews of one submission that overlap: both authorize on their copies, and the second verdict
  replaces the first;
- `task cancel` beside `worker start`: the task is canceled and its run goes on;
- `worker cancel` between the start of the engine and `SetProcess`: the first copy names no process group, the
  record says cancelled and the engine works on to its end;
- a record that stays *created* because what follows its creation failed: it can be neither cancelled nor
  pruned;
- a late save brings back a process group that was cleared, so that the record names a group that ended;
- in a terminal, a heartbeat that was under way when the loop was killed: it undoes the report or the
  status, and an ordered run waits for ever;
- `prune` removes the directory after it has judged the record, although a late save may have reopened
  it.

## 6. Plan

Modelled: the named-worker control plane, the sequential run-folder engine with the worktree of a slice and the adoption of
edited folders, parallel lanes, the records of worker runs, role reviews, configuration and model policy. Next:

1. **Proofs**: the refinement of `FolderOrder` under crashes, where `run.json` and the
   sequence record may tell different things.
2. **WorktreeClaim** (`worktree/claim.go`): `Acquire` as read, judge, remove, create;
   `TransferPID` and `ReleaseForPID` as read and write. Property: at most one living owner. Refinement
   of the single steps that WorkerStart and FolderSequence use.
3. `sequence cancel` beside lanes, and specification slices in ParallelLanes and SequenceAdoption.
4. **Not modelled**, and why: Markdown parsing and rendering, the user interface, discovery and first use are functions of one
   command's input whose properties are about text; the commands of `cli/cli.go` beyond the order of their calls are flags and
   output; AppleScript terminals and the parsing of engine output are outside of the program.
