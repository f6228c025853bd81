----------------------------- MODULE NamedWorkers -----------------------------
(***************************************************************************)
(* The named-worker control plane as a whole: any number of promptgrinder  *)
(* invocations, the runs they launched, the clock, and crashes of          *)
(* invocations, over the shared stores of ControlPlane.                    *)
(***************************************************************************)
EXTENDS TaskIntake, Scheduler, WorkerControl, Review

CONSTANT MaxCrashes     \* bound on the crashes of invocations
ASSUME MaxCrashesAssumption == MaxCrashes \in Nat

VARIABLE crashes

vars == <<state, task, queue, claim, live, procs, crashes>>

Init ==
    /\ state = [w \in Workers |-> NewState]
    /\ task = [t \in Tasks |-> Absent]
    /\ queue = [w \in Workers |-> <<>>]
    /\ claim = [d \in Worktrees |-> Free]
    /\ live = {}
    /\ procs = [p \in Procs |-> Ready]
    /\ crashes = 0

Invoke(p) ==
    \/ \E w \in Workers, t \in Tasks : BeginIntake(p, w, t)
    \/ \E w \in Workers : BeginStart(p, w)
    \/ BeginSchedule(p)
    \/ \E w \in Workers : BeginPause(p, w)
    \/ \E w \in Workers : BeginResume(p, w)
    \/ \E t \in Tasks : BeginRetry(p, t)
    \/ \E t \in Tasks : BeginCancel(p, t)
    \/ \E t \in Tasks : BeginSubmit(p, t)
    \/ \E t \in Tasks : BeginVerdict(p, t)

\* The next file operation of a running invocation.
Step(p) ==
    \/ IntakeStep(p)
    \/ ScheduleStep(p)
    \/ StartStep(p)
    \/ ControlStep(p)
    \/ ReviewStep(p)

Operate(w) ==
    \/ ReorderQueue(w)
    \/ RemoveFromQueue(w)
    \/ ResetWorker(w)

\* A run ends. The completion check of its supervisor may find a violation of
\* the path policy; it then blocks the worker that is executing, whichever run
\* that worker has by now.
RunCompletes(r) ==
    LET w == task[r[1]].owner
    IN  /\ live' = live \ {r}
        /\ \/ UNCHANGED state
           \/ /\ state[w].life = "executing"
              /\ state' = [state EXCEPT ![w] = Saved(Became(state[w], "blocked"))]
        /\ UNCHANGED <<task, queue, claim, procs>>

\* An invocation dies between two of its steps. Its locks go with it; its
\* claim and its lease stay.
Crash(p) ==
    /\ crashes < MaxCrashes
    /\ ~At(p, "ready")
    /\ crashes' = crashes + 1
    /\ Return(p)
    /\ claim' = [d \in Worktrees |-> IF claim[d] = p THEN Stale ELSE claim[d]]
    /\ UNCHANGED <<state, task, queue, live>>

Next ==
    \/ \E p \in Procs : (Invoke(p) \/ Step(p)) /\ UNCHANGED crashes
    \/ \E w \in Workers : (Operate(w) \/ ExpireLease(w)) /\ UNCHANGED crashes
    \/ \E r \in live : RunCompletes(r) /\ UNCHANGED crashes
    \/ \E p \in Procs : Crash(p)

Spec == Init /\ [][Next]_vars

\* An invocation that runs goes on, and a lease that is not released expires. The
\* scheduler is invoked again and again: its loop does so while RunOnce returns no
\* error, and whoever runs it starts it again after an error ended the loop
\* (cli.go:2105). Strong fairness, since a free slot of Procs may come and go while
\* a new process needs none.
FairSpec ==
    /\ Spec
    /\ \A p \in Procs : WF_vars(Step(p) /\ UNCHANGED crashes)
    /\ SF_vars(\E p \in Procs : BeginSchedule(p) /\ UNCHANGED crashes)
    /\ \A w \in Workers : WF_vars(ExpireLease(w) /\ UNCHANGED crashes)

-----------------------------------------------------------------------------
(* Every variable keeps its shape. *)
TypeOK ==
    /\ state \in [Workers -> WorkerState]
    /\ task \in [Tasks -> Task]
    /\ queue \in [Workers -> Seq(Entry)]
    /\ claim \in [Worktrees -> {Free, Stale} \cup Procs \cup (Tasks \X Nat)]
    /\ live \subseteq Run
    /\ procs \in [Procs -> Process]
    /\ crashes \in Nat

\* The optimistic lock of workerstate.Save (store.go:112): a copy that carries
\* the revision on disk is the record on disk, so a write that passes the check
\* loses nothing another invocation wrote.
CopiesCurrent ==
    \A p \in Procs :
        /\ Fresh(p) => procs[p].st = state[procs[p].w]
        /\ \A w \in Workers : procs[p].snap[w].rev = state[w].rev => procs[p].snap[w] = state[w]

\* The launch of a worker: from its Transition to starting to the Transition
\* that settles it (start.go:143-208).
Launching(p) == procs[p].pc \in {"launch", "record", "settle", "ascend"}

\* However start, resume, retry and the scheduler overlap, at most one
\* invocation is launching a worker's task, and the worker is starting then.
LaunchExclusive ==
    \A p \in Procs : Launching(p) =>
        /\ state[procs[p].w].life = "starting"
        /\ \A q \in Procs : Launching(q) /\ procs[q].w = procs[p].w => q = p

\* A worker's lifecycle moves only along the table of lifecycle.go, although
\* Transition validates the step against the caller's copy.
LifecycleFollowsTable ==
    [][\A w \in Workers :
         state'[w].life # state[w].life => CanTransition(state[w].life, state'[w].life)]_vars

\* The active task of a worker has a file and belongs to that worker, across
\* assign's rollback, cancel and the verdicts.
ActiveTaskBelongs ==
    \A w \in Workers : state[w].active # NoTask =>
        Exists(state[w].active) /\ task[state[w].active].owner = w

\* The worktree claim (claim.go:30) is all that keeps two workers, or a worker
\* and its predecessor's run, from working in one directory at a time.
OneRunPerWorktree ==
    \A r, s \in live :
        WorktreeOf[task[r[1]].owner] = WorktreeOf[task[s[1]].owner] => r = s

\* A worker that says it is paused has no process left for its run, even though
\* pause stops the process that a copy of the state names.
PausedIsStopped ==
    \A w \in Workers : state[w].life = "paused" => <<state[w].active, state[w].run>> \notin live

\* RunOnce (dispatch.go:120-160): a pending task becomes assigned only while it
\* is in its worker's queue under a lease and the worker is reserved for it,
\* whatever cancels, removals, reorderings and dead schedulers did since it was
\* leased.
DispatchReserved ==
    [][\A t \in Tasks :
         task[t].status = "pending" /\ task'[t].status = "assigned" =>
            LET w == task[t].owner
            IN  /\ \E i \in DOMAIN queue[w] :
                      queue[w][i].task = t /\ queue[w][i].lease # NoLease
                /\ state[w].active = t]_vars

\* The limits on concurrently starting and executing workers
\* (scheduler_project_concurrency, scheduler_runtime_concurrency) hold where
\* only schedulers launch.
LimitsRespected ==
    /\ ProjectLimit > 0 => Running(state, Workers) <= ProjectLimit
    /\ \A w \in Workers : RuntimeLimit[RuntimeOf[w]] > 0 =>
            Running(state, SameRuntime(w)) <= RuntimeLimit[RuntimeOf[w]]

\* The scheduler's conditions for dispatching to w, read off the current state.
Available(w) ==
    /\ state[w].life = "idle"
    /\ state[w].active = NoTask
    /\ queue[w] # <<>>
    /\ ~Reached(ProjectLimit, Running(state, Workers))
    /\ ~Reached(RuntimeLimit[RuntimeOf[w]], Running(state, SameRuntime(w)))

\* An available worker does not stay beside a filled queue while schedulers keep
\* being invoked: they get to every worker, although one RunOnce dispatches only
\* once and starts from the first worker each time.
QueueServed == \A w \in Workers : []<>~Available(w)
=============================================================================
