------------------------------ MODULE Scheduler ------------------------------
(***************************************************************************)
(* internal/scheduler: RunOnce dispatches at most one queued task. The     *)
(* project lock is held from the first load to the end of the dispatched   *)
(* Start, and the kernel drops it with the process.                        *)
(***************************************************************************)
EXTENDS WorkerStart

CONSTANTS Runtimes,
          RuntimeOf,      \* the runtime of a worker's definition
          ProjectLimit,   \* configured limits; 0 is no limit
          RuntimeLimit

ASSUME LimitsAssumption ==
    /\ RuntimeOf \in [Workers -> Runtimes]
    /\ ProjectLimit \in Nat
    /\ RuntimeLimit \in [Runtimes -> Nat]

\* Mutant: RunOnce without the project lock.
NeverLocked == FALSE

ProjectLocked == \E q \in Procs : procs[q].op = "schedule"

Busy(st) == st.life \in {"starting", "executing"}

Running(snap, ws) == Cardinality({w \in ws : Busy(snap[w])})

Reached(limit, running) == limit > 0 /\ running >= limit

SameRuntime(w) == {v \in Workers : RuntimeOf[v] = RuntimeOf[w]}

BeginSchedule(p) ==
    /\ ~ProjectLocked
    /\ Begin(p, "schedule", "snapshot", 1, NoTask, NewState)
    /\ UNCHANGED <<state, task, queue, claim, live>>

\* The states of all workers are loaded one after the other; the project's
\* limit is then tested once, on these copies.
SnapshotWorker(p) ==
    LET w == procs[p].w
        snap == [procs[p].snap EXCEPT ![w] = state[w]]
    IN  /\ At(p, "snapshot")
        /\ IF w < NumWorkers
           THEN Becomes(p, [procs[p] EXCEPT !.snap = snap, !.w = w + 1])
           ELSE IF Reached(ProjectLimit, Running(snap, Workers))
                THEN Return(p)
                ELSE Becomes(p, [procs[p] EXCEPT !.snap = snap, !.w = 1, !.pc = "consider"])
        /\ UNCHANGED <<state, task, queue, claim, live>>

\* Mutant: the loop ends with the first worker it cannot dispatch to.
StopScan(p) == Return(p)

\* The loop continues with the next worker, or RunOnce returns nothing.
NextWorker(p) ==
    IF procs[p].w < NumWorkers
    THEN Becomes(p, [procs[p] EXCEPT !.w = procs[p].w + 1, !.pc = "consider"])
    ELSE Return(p)

Eligible(p) ==
    LET w == procs[p].w
        snap == procs[p].snap
    IN  /\ snap[w].life = "idle"
        /\ snap[w].active = NoTask
        /\ ~Reached(RuntimeLimit[RuntimeOf[w]], Running(snap, SameRuntime(w)))

ConsiderWorker(p) ==
    /\ At(p, "consider")
    /\ IF Eligible(p) /\ queue[procs[p].w] # <<>> THEN Goto(p, "lease") ELSE NextWorker(p)
    /\ UNCHANGED <<state, task, queue, claim, live>>

\* A queue that was emptied since it was listed is an error, a held lease is not.
LeaseHead(p) ==
    LET w == procs[p].w
        q == queue[w]
    IN  /\ At(p, "lease")
        /\ IF CanAcquire(q)
           THEN /\ queue' = [queue EXCEPT ![w] = Acquire(q, p)]
                /\ Becomes(p, [procs[p] EXCEPT !.t = q[1].task, !.pc = "inspect"])
           ELSE /\ IF q = <<>> THEN Return(p) ELSE NextWorker(p)
                /\ UNCHANGED queue
        /\ UNCHANGED <<state, task, claim, live>>

\* A task that cannot be loaded ends the run, one that is not pending is skipped.
InspectTask(p) ==
    LET t == procs[p].t
        pending == task[t].status = "pending" /\ task[t].owner = procs[p].w
    IN  /\ At(p, "inspect")
        /\ Goto(p, IF ~Exists(t) THEN "giveback" ELSE IF pending THEN "reserve" ELSE "skip")
        /\ UNCHANGED <<state, task, queue, claim, live>>

GiveLeaseBack(p) ==
    LET w == procs[p].w
    IN  /\ queue' = [queue EXCEPT ![w] = Release(@, procs[p].t, p)]
        /\ \/ At(p, "skip") /\ NextWorker(p)
           \/ At(p, "giveback") /\ Return(p)
        /\ UNCHANGED <<state, task, claim, live>>

\* Save of the worker's copy from the beginning of the run, with the task in it.
ReserveWorker(p) ==
    LET w == procs[p].w
        copy == procs[p].snap[w]
    IN  /\ At(p, "reserve")
        /\ IF copy.rev = state[w].rev
           THEN /\ state' = [state EXCEPT ![w] = Saved([copy EXCEPT !.active = procs[p].t])]
                /\ Goto(p, "mark")
           ELSE Goto(p, "giveback") /\ UNCHANGED state
        /\ UNCHANGED <<task, queue, claim, live>>

\* SetStatus insists that the task is still pending. Where it is not, RunOnce
\* returns and takes nothing back.
MarkAssigned(p) ==
    LET t == procs[p].t
    IN  /\ At(p, "mark")
        /\ IF task[t].status = "pending"
           THEN SetControlStatus(t, "assigned") /\ Goto(p, "commit")
           ELSE Return(p) /\ UNCHANGED task
        /\ UNCHANGED <<state, queue, claim, live>>

\* The dispatched Start follows in the same invocation.
CommitLease(p) ==
    LET w == procs[p].w
    IN  /\ At(p, "commit")
        /\ IF CanCommit(queue[w], procs[p].t, p)
           THEN queue' = [queue EXCEPT ![w] = Commit(@)] /\ Goto(p, "start")
           ELSE Return(p) /\ UNCHANGED queue
        /\ UNCHANGED <<state, task, claim, live>>

\* Time passes, and the lease on the head of w's queue expires.
ExpireLease(w) ==
    /\ queue[w] # <<>>
    /\ queue[w][1].lease # NoLease
    /\ ~queue[w][1].lease.expired
    /\ queue' = [queue EXCEPT ![w] = Expire(@, 1)]
    /\ UNCHANGED <<state, task, claim, live, procs>>

ScheduleStep(p) ==
    \/ SnapshotWorker(p)
    \/ ConsiderWorker(p)
    \/ LeaseHead(p)
    \/ InspectTask(p)
    \/ GiveLeaseBack(p)
    \/ ReserveWorker(p)
    \/ MarkAssigned(p)
    \/ CommitLease(p)
=============================================================================
