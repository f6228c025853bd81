------------------------------- MODULE Review -------------------------------
(***************************************************************************)
(* internal/review: a worker's handoff for review and the reviewer's       *)
(* verdict. Evidence, reviewer identity and the separate-reviewer rule are *)
(* not modelled.                                                           *)
(***************************************************************************)
EXTENDS ControlPlane

LastHandoff(t) == task[t].handoffs[Len(task[t].handoffs)]

BeginSubmit(p, t) ==
    /\ task[t].status = "assigned"
    /\ task[t].attempts # <<>>
    /\ Begin(p, "submit", "join", task[t].owner, t, NewState)
    /\ UNCHANGED <<state, task, queue, claim, live>>

SubmitLoadState(p) ==
    LET st == state[procs[p].w]
    IN  /\ At(p, "join")
        /\ IF st.life = "executing" /\ st.active = procs[p].t
           THEN Becomes(p, [procs[p] EXCEPT !.st = st, !.pc = "handoff"])
           ELSE Return(p)
        /\ UNCHANGED <<state, task, queue, claim, live>>

AppendHandoff(p) ==
    LET t == procs[p].t
    IN  /\ At(p, "handoff")
        /\ SetTask(t, [task[t] EXCEPT !.status = "awaiting_review",
                                      !.handoffs = Append(@, "pending")])
        /\ Goto(p, "await")
        /\ UNCHANGED <<state, queue, claim, live>>

AwaitReview(p) ==
    /\ At(p, "await")
    /\ SaveLast(p, Became(procs[p].st, "awaiting_review"))
    /\ UNCHANGED <<task, queue, claim, live>>

\* Accept and reject load the task, then the worker state, and authorize on
\* the handoff that was the last one then.
BeginVerdict(p, t) ==
    /\ Exists(t)
    /\ task[t].handoffs # <<>>
    /\ LastHandoff(t) = "pending"
    /\ \E cmd \in {"accept", "reject"} : Begin(p, cmd, "judge", task[t].owner, t, NewState)
    /\ UNCHANGED <<state, task, queue, claim, live>>

VerdictLoadState(p) ==
    /\ At(p, "judge")
    /\ Becomes(p, [procs[p] EXCEPT !.st = state[procs[p].w], !.pc = "decide"])
    /\ UNCHANGED <<state, task, queue, claim, live>>

\* The verdict goes to the handoff that is the last one by now.
DecideHandoff(p) ==
    LET t == procs[p].t
        accepted == procs[p].op = "accept"
    IN  /\ At(p, "decide")
        /\ SetTask(t, [task[t] EXCEPT
                !.status = IF accepted THEN "accepted" ELSE "pending",
                !.handoffs = ReplaceLast(@, IF accepted THEN "accepted" ELSE "rejected")])
        /\ Goto(p, IF accepted THEN "close" ELSE "requeue")
        /\ UNCHANGED <<state, queue, claim, live>>

RequeueTask(p) ==
    LET w == procs[p].w
        t == procs[p].t
    IN  /\ At(p, "requeue")
        /\ IF CanEnqueue(queue[w], t)
           THEN queue' = [queue EXCEPT ![w] = Enqueue(@, t)] /\ Goto(p, "close")
           ELSE Return(p) /\ UNCHANGED queue
        /\ UNCHANGED <<state, task, claim, live>>

\* Mutant: the lifecycle is assigned, not moved with Transition.
CloseUnchecked(p) ==
    /\ At(p, "close")
    /\ SaveLast(p, Became(Vacant(procs[p].st), "idle"))
    /\ UNCHANGED <<task, queue, claim, live>>

CloseReview(p) ==
    /\ At(p, "close")
    /\ CanTransition(procs[p].st.life, "idle")
    /\ SaveLast(p, Became(Vacant(procs[p].st), "idle"))
    /\ UNCHANGED <<task, queue, claim, live>>

\* Another revision is on disk, or the copy's lifecycle does not lead to idle.
\* The handoff and the task status have been written by then.
ReviewConflict(p) ==
    /\ \/ At(p, "await") /\ ~Fresh(p)
       \/ At(p, "close") /\ (~Fresh(p) \/ ~CanTransition(procs[p].st.life, "idle"))
    /\ Return(p)
    /\ UNCHANGED <<state, task, queue, claim, live>>

ReviewStep(p) ==
    \/ SubmitLoadState(p)
    \/ AppendHandoff(p)
    \/ AwaitReview(p)
    \/ VerdictLoadState(p)
    \/ DecideHandoff(p)
    \/ RequeueTask(p)
    \/ CloseReview(p)
    \/ ReviewConflict(p)
=============================================================================
