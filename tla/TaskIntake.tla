----------------------------- MODULE TaskIntake -----------------------------
(***************************************************************************)
(* `task assign`, `task enqueue` (internal/taskstore) and the operator's   *)
(* `task queue reorder` and `task queue remove`.                           *)
(***************************************************************************)
EXTENDS ControlPlane

\* Store.lock(project, worker) is held from before Ensure to the return, and
\* the kernel drops it with the process.
Assigning(w) == \E q \in Procs : procs[q].op \in {"assign", "enqueue"} /\ procs[q].w = w

BeginIntake(p, w, t) ==
    /\ ~Assigning(w)
    /\ \E cmd \in {"assign", "enqueue"} : Begin(p, cmd, "create", w, t, state[w])
    /\ UNCHANGED <<state, task, queue, claim, live>>

\* The task file is created exclusively. Only assign looks at the worker, and
\* only at its active task, not at its lifecycle.
CreateTask(p) ==
    LET t == procs[p].t
        direct == procs[p].op = "assign" /\ procs[p].st.active = NoTask
    IN  /\ At(p, "create")
        /\ IF Exists(t)
           THEN Return(p) /\ UNCHANGED task
           ELSE /\ SetTask(t, [Absent EXCEPT !.status = IF direct THEN "assigned" ELSE "pending",
                                            !.owner = procs[p].w])
                /\ Goto(p, IF direct THEN "activate" ELSE "queue")
        /\ UNCHANGED <<state, queue, claim, live>>

EnqueueTask(p) ==
    LET w == procs[p].w  t == procs[p].t
    IN  /\ At(p, "queue")
        /\ IF CanEnqueue(queue[w], t)
           THEN queue' = [queue EXCEPT ![w] = Enqueue(@, t)] /\ Return(p)
           ELSE Goto(p, "rollback") /\ UNCHANGED queue
        /\ UNCHANGED <<state, task, claim, live>>

\* Mutant: the deferred rollback is not disarmed after the Save.
ActivateThenRollback(p) ==
    /\ At(p, "activate")
    /\ \/ Save(p, [procs[p].st EXCEPT !.active = procs[p].t], "rollback")
       \/ ~Fresh(p) /\ Goto(p, "rollback") /\ UNCHANGED state
    /\ UNCHANGED <<task, queue, claim, live>>

ActivateTask(p) ==
    /\ At(p, "activate")
    /\ \/ SaveLast(p, [procs[p].st EXCEPT !.active = procs[p].t])
       \/ ~Fresh(p) /\ Goto(p, "rollback") /\ UNCHANGED state
    /\ UNCHANGED <<task, queue, claim, live>>

\* os.Remove of the task file this invocation created.
RollbackTask(p) ==
    /\ At(p, "rollback")
    /\ SetTask(procs[p].t, Absent)
    /\ Return(p)
    /\ UNCHANGED <<state, queue, claim, live>>

ReorderQueue(w) ==
    /\ "reorder" \in Commands
    /\ \E i, j \in DOMAIN queue[w] :
          CanReorder(queue[w], i) /\ queue' = [queue EXCEPT ![w] = Reorder(@, i, j)]
    /\ UNCHANGED <<state, task, claim, live, procs>>

RemoveFromQueue(w) ==
    /\ "remove" \in Commands
    /\ \E i \in DOMAIN queue[w] :
          CanRemove(queue[w], i) /\ queue' = [queue EXCEPT ![w] = RemoveAt(@, i)]
    /\ UNCHANGED <<state, task, claim, live, procs>>

IntakeStep(p) ==
    \/ CreateTask(p)
    \/ EnqueueTask(p)
    \/ ActivateTask(p)
    \/ RollbackTask(p)
=============================================================================
