---------------------------- MODULE WorkerControl ----------------------------
(***************************************************************************)
(* internal/workercontrol: pause, resume, retry and cancel, and `worker    *)
(* reset`. Each works on the copy of the worker state that its command     *)
(* loaded first.                                                           *)
(***************************************************************************)
EXTENDS WorkerStart

(* Pause; cancel of an executing task runs the same three steps first.      *)

\* Mutant: pause writes down what it did not do to the process.
BeginPauseUnstopped(p, w) ==
    /\ state[w].life = "executing"
    /\ state[w].active # NoTask
    /\ Begin(p, "pause", "suspend", w, state[w].active, state[w])
    /\ UNCHANGED <<state, task, queue, claim, live>>

BeginPause(p, w) ==
    /\ state[w].life = "executing"
    /\ state[w].active # NoTask
    /\ Begin(p, "pause", "stop", w, state[w].active, state[w])
    /\ UNCHANGED <<state, task, queue, claim, live>>

\* SIGTERM, then SIGKILL, to the process of the run that the copy names.
StopRun(p) ==
    /\ At(p, "stop")
    /\ live' = live \ {<<procs[p].t, procs[p].st.run>>}
    /\ Goto(p, "suspend")
    /\ UNCHANGED <<state, task, queue, claim>>

\* The last attempt takes the disposition, whichever run the copy named.
SuspendTask(p) ==
    LET t == procs[p].t
    IN  /\ At(p, "suspend")
        /\ SetTask(t, [task[t] EXCEPT
                !.status = "paused",
                !.attempts = IF @ = <<>> THEN @ ELSE ReplaceLast(@, "paused")])
        /\ Goto(p, "rest")
        /\ UNCHANGED <<state, queue, claim, live>>

PauseWorker(p) ==
    /\ At(p, "rest")
    /\ IF procs[p].op = "cancel"
       THEN Save(p, Became(procs[p].st, "paused"), "reload")
       ELSE SaveLast(p, Became(procs[p].st, "paused"))
    /\ UNCHANGED <<task, queue, claim, live>>

(* Resume. No registered launcher resumes sessions, so it is a new attempt. *)

BeginResume(p, w) ==
    /\ state[w].life = "paused"
    /\ state[w].active # NoTask
    /\ Begin(p, "resume", "wake", w, state[w].active, state[w])
    /\ UNCHANGED <<state, task, queue, claim, live>>

WakeWorker(p) ==
    /\ At(p, "wake")
    /\ Save(p, Became(procs[p].st, "idle"), "reassign")
    /\ UNCHANGED <<task, queue, claim, live>>

\* The task becomes assigned whatever its status is by now.
ReassignTask(p) ==
    /\ At(p, "reassign")
    /\ SetControlStatus(procs[p].t, "assigned")
    /\ Goto(p, IF procs[p].op = "resume" THEN "start" ELSE "adopt")
    /\ UNCHANGED <<state, queue, claim, live>>

(* Retry.                                                                   *)

BeginRetry(p, t) ==
    /\ task[t].status \in {"failed", "paused"}
    /\ Begin(p, "retry", "find", task[t].owner, t, NewState)
    /\ UNCHANGED <<state, task, queue, claim, live>>

FindWorker(p) ==
    LET st == state[procs[p].w]
    IN  /\ At(p, "find")
        /\ IF st.active \in {NoTask, procs[p].t}
           THEN Becomes(p, [procs[p] EXCEPT !.st = st, !.pc = "reassign"])
           ELSE Return(p)
        /\ UNCHANGED <<state, task, queue, claim, live>>

\* Retry has already reassigned the task when it finds a lifecycle that cannot
\* be reset.
AdoptTask(p) ==
    LET st == procs[p].st
    IN  /\ At(p, "adopt")
        /\ CASE st.life \in {"idle", "paused"} ->
                  Save(p, [st EXCEPT !.life = "idle", !.active = procs[p].t], "start")
             [] st.life \in {"failed", "awaiting_review"} ->
                  Save(p, Became(Vacant(st), "idle"), "readopt")
             [] OTHER -> Return(p) /\ UNCHANGED state
        /\ UNCHANGED <<task, queue, claim, live>>

ReadoptTask(p) ==
    /\ At(p, "readopt")
    /\ Save(p, [procs[p].st EXCEPT !.active = procs[p].t], "start")
    /\ UNCHANGED <<task, queue, claim, live>>

(* Cancel decides on the task status and the worker state it loaded first.  *)

BeginCancel(p, t) ==
    /\ Exists(t)
    /\ task[t].status # "canceled"
    /\ "cancel" \in Commands
    /\ At(p, "ready")
    /\ Becomes(p, [Ready EXCEPT !.op = "cancel", !.pc = "look", !.w = task[t].owner,
                                !.t = t, !.status = task[t].status])
    /\ UNCHANGED <<state, task, queue, claim, live>>

\* Only a task that was pending is looked for in the queue.
AfterStop(p) == IF procs[p].status = "pending" THEN "dequeue" ELSE "void"

LookAtWorker(p) ==
    LET st == state[procs[p].w]
        running == st.active = procs[p].t /\ st.life = "executing"
    IN  /\ At(p, "look")
        /\ Becomes(p, [procs[p] EXCEPT !.st = st,
                                  !.pc = IF running THEN "stop" ELSE AfterStop(p)])
        /\ UNCHANGED <<state, task, queue, claim, live>>

ReloadWorker(p) ==
    /\ At(p, "reload")
    /\ Becomes(p, [procs[p] EXCEPT !.st = state[procs[p].w], !.pc = AfterStop(p)])
    /\ UNCHANGED <<state, task, queue, claim, live>>

\* A leased entry cannot be removed, and the cancel ends there.
CancelQueued(p) ==
    LET w == procs[p].w
        t == procs[p].t
    IN  /\ At(p, "dequeue")
        /\ \/ /\ ~Queued(queue[w], t)
              /\ Goto(p, "void")
              /\ UNCHANGED queue
           \/ \E i \in DOMAIN queue[w] :
                /\ queue[w][i].task = t
                /\ IF CanRemove(queue[w], i)
                   THEN queue' = [queue EXCEPT ![w] = RemoveAt(@, i)] /\ Goto(p, "void")
                   ELSE Return(p) /\ UNCHANGED queue
        /\ UNCHANGED <<state, task, claim, live>>

VoidTask(p) ==
    LET t == procs[p].t
    IN  /\ At(p, "void")
        /\ IF Exists(t) THEN SetControlStatus(t, "canceled") ELSE UNCHANGED task
        /\ IF Exists(t) /\ procs[p].st.active = t THEN Goto(p, "vacate") ELSE Return(p)
        /\ UNCHANGED <<state, queue, claim, live>>

\* From any lifecycle but paused the worker keeps it and loses its task.
VacateWorker(p) ==
    LET st == procs[p].st
    IN  /\ At(p, "vacate")
        /\ SaveLast(p, [Vacant(st) EXCEPT !.life = IF @ = "paused" THEN "idle" ELSE @])
        /\ UNCHANGED <<task, queue, claim, live>>

(* Reset: the load and the revision-checked write are one step, since a     *)
(* write between them leaves Reset without effect.                          *)
ResetWorker(w) ==
    /\ "reset" \in Commands
    /\ state[w].life \in {"failed", "awaiting_review"}
    /\ state' = [state EXCEPT ![w] = Saved(Became(Vacant(state[w]), "idle"))]
    /\ UNCHANGED <<task, queue, claim, live, procs>>

\* A Save of a control command finds another revision: the command returns the
\* conflict, and what it wrote to the task before stays.
ControlConflict(p) ==
    /\ procs[p].pc \in {"rest", "wake", "adopt", "readopt", "vacate"}
    /\ At(p, "adopt") => procs[p].st.life \in {"idle", "paused", "failed", "awaiting_review"}
    /\ ~Fresh(p)
    /\ Return(p)
    /\ UNCHANGED <<state, task, queue, claim, live>>

ControlStep(p) ==
    \/ StopRun(p)
    \/ SuspendTask(p)
    \/ PauseWorker(p)
    \/ WakeWorker(p)
    \/ ReassignTask(p)
    \/ FindWorker(p)
    \/ AdoptTask(p)
    \/ ReadoptTask(p)
    \/ LookAtWorker(p)
    \/ ReloadWorker(p)
    \/ CancelQueued(p)
    \/ VoidTask(p)
    \/ VacateWorker(p)
    \/ ControlConflict(p)
=============================================================================
