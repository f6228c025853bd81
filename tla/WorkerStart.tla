----------------------------- MODULE WorkerStart -----------------------------
(***************************************************************************)
(* internal/workerstart: the launch of a worker's active task. `worker     *)
(* start` runs it alone; the scheduler, resume and retry end in it.        *)
(***************************************************************************)
EXTENDS ControlPlane

BeginStart(p, w) ==
    /\ Begin(p, "start", "start", w, NoTask, NewState)
    /\ UNCHANGED <<state, task, queue, claim, live>>

StartLoadState(p) ==
    LET st == state[procs[p].w]
    IN  /\ At(p, "start")
        /\ IF st.life = "idle" /\ st.active # NoTask
           THEN Becomes(p, [procs[p] EXCEPT !.st = st, !.t = st.active, !.pc = "restore"])
           ELSE Return(p)
        /\ UNCHANGED <<state, task, queue, claim, live>>

StartLoadTask(p) ==
    LET t == procs[p].t
    IN  /\ At(p, "restore")
        /\ IF task[t].status = "assigned" /\ task[t].owner = procs[p].w
           THEN Goto(p, "claim")
           ELSE Return(p)
        /\ UNCHANGED <<state, task, queue, claim, live>>

\* Mutant: a claim that went to a run is taken for a stale one.
ClaimHeldByStarter(d) == claim[d] \in Procs

\* The process a claim names still answers signal 0.
ClaimAlive(d) == claim[d] \in Procs \cup live

ClaimWorktree(p) ==
    LET d == WorktreeOf[procs[p].w]
    IN  /\ At(p, "claim")
        /\ IF ClaimAlive(d)
           THEN Return(p) /\ UNCHANGED claim
           ELSE claim' = [claim EXCEPT ![d] = p] /\ Goto(p, "locate")
        /\ UNCHANGED <<state, task, queue, live>>

\* The Git location is saved in the worker state.
SaveLocation(p) ==
    /\ At(p, "locate")
    /\ Save(p, procs[p].st, "depart")
    /\ UNCHANGED <<task, queue, claim, live>>

\* Planning, Git preparation, capability negotiation, preflight or the policy
\* snapshot fails: Start returns before it has touched the lifecycle.
StartFails(p) ==
    /\ procs[p].pc \in {"claim", "locate", "depart"}
    /\ Return(p)
    /\ claim' = Released(p)
    /\ UNCHANGED <<state, task, queue, live>>

Depart(p) ==
    /\ At(p, "depart")
    /\ Len(task[procs[p].t].attempts) < MaxAttempts
    /\ CanTransition(procs[p].st.life, "starting")
    /\ Save(p, Became(procs[p].st, "starting"), "launch")
    /\ UNCHANGED <<task, queue, claim, live>>

\* The run that this launch makes.
ThisRun(p) == <<procs[p].t, Len(task[procs[p].t].attempts) + 1>>

\* The runtime fails, returns no run reference, leaves a process running, or
\* returns after its process finished.
Launch(p) ==
    /\ At(p, "launch")
    /\ \E out \in Outcome \ {"none"} :
          /\ Becomes(p, [procs[p] EXCEPT !.out = out, !.pc = "record"])
          /\ live' = IF out = "async" THEN live \cup {ThisRun(p)} ELSE live
    /\ UNCHANGED <<state, task, queue, claim>>

\* Mutant: the attempt takes the outcome's name for its disposition.
RecordOutcome(p) ==
    LET t == procs[p].t
    IN  /\ At(p, "record")
        /\ SetTask(t, [task[t] EXCEPT !.attempts = Append(@, procs[p].out)])
        /\ Goto(p, "settle")
        /\ UNCHANGED <<state, queue, claim, live>>

\* UpdateControl appends the attempt, whatever became of the task meanwhile.
RecordAttempt(p) ==
    LET t == procs[p].t
        failed == procs[p].out = "error"
    IN  /\ At(p, "record")
        /\ SetTask(t, [task[t] EXCEPT
                !.attempts = Append(@, IF failed THEN "launch_failed" ELSE "executing"),
                !.status = IF failed THEN "failed" ELSE @])
        /\ Goto(p, "settle")
        /\ UNCHANGED <<state, queue, claim, live>>

\* What fails the worker after its launch: an error, no run reference, or a
\* TransferPID that finds another owner's claim.
LaunchFailed(p) ==
    procs[p].out \in {"error", "norun"} \/ claim[WorktreeOf[procs[p].w]] # p

SettleFailed(p) ==
    LET run == IF procs[p].out = "norun" THEN 0 ELSE Len(task[procs[p].t].attempts)
    IN  /\ At(p, "settle")
        /\ LaunchFailed(p)
        /\ SaveLast(p, [procs[p].st EXCEPT !.life = "failed", !.run = run])
        /\ claim' = Released(p)
        /\ UNCHANGED <<task, queue, live>>

\* TransferPID hands the claim to the run's process, alive or finished.
TransferClaim(p) ==
    /\ At(p, "settle")
    /\ ~LaunchFailed(p)
    /\ claim' = [claim EXCEPT ![WorktreeOf[procs[p].w]] =
                    <<procs[p].t, Len(task[procs[p].t].attempts)>>]
    /\ Goto(p, "ascend")
    /\ UNCHANGED <<state, task, queue, live>>

\* The policy check of a finished process follows in the same invocation.
Ascend(p) ==
    LET new == [procs[p].st EXCEPT !.life = "executing",
                                   !.run = Len(task[procs[p].t].attempts)]
    IN  /\ At(p, "ascend")
        /\ IF procs[p].out = "finished" THEN Save(p, new, "check") ELSE SaveLast(p, new)
        /\ UNCHANGED <<task, queue, claim, live>>

CheckCompletion(p) ==
    /\ At(p, "check")
    /\ \/ Return(p) /\ UNCHANGED state
       \/ SaveLast(p, Became(procs[p].st, "blocked"))
    /\ UNCHANGED <<task, queue, claim, live>>

\* A Save finds another revision on disk: Start returns the conflict and
\* releases the claim, unless that already went to the run.
StartConflict(p) ==
    /\ procs[p].pc \in {"locate", "depart", "settle", "ascend", "check"}
    /\ At(p, "settle") => LaunchFailed(p)
    /\ ~Fresh(p)
    /\ Return(p)
    /\ claim' = Released(p)
    /\ UNCHANGED <<state, task, queue, live>>

StartStep(p) ==
    \/ StartLoadState(p)
    \/ StartLoadTask(p)
    \/ ClaimWorktree(p)
    \/ SaveLocation(p)
    \/ StartFails(p)
    \/ Depart(p)
    \/ Launch(p)
    \/ RecordAttempt(p)
    \/ SettleFailed(p)
    \/ TransferClaim(p)
    \/ Ascend(p)
    \/ CheckCompletion(p)
    \/ StartConflict(p)
=============================================================================
