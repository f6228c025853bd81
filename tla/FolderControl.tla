---------------------------- MODULE FolderControl ----------------------------
(***************************************************************************)
(* `sequence cancel` and `reconcile` beside the runs of a folder, the      *)
(* system they make up, and its properties.                                *)
(***************************************************************************)
EXTENDS FolderSequence

\* A command of an operator: the step it is about to take, the copy of the
\* sequence it is about to save, and the supervisor of the copy it loaded first.
Operator == [pc : {"idle", "reload", "write", "stop"}, copy : Sequence, sup : Runs \cup {0}]

Idle == [pc |-> "idle", copy |-> NoSequence, sup |-> 0]

runVars == <<seq, run, claim, supervisor, runner, live, passed>>

(* Cancel.                                                                  *)

\* The workers of running items are cancelled first. An item that has a
\* WorkerID has that of a worker that ended, which cannot be cancelled: the
\* command returns that error.
BeginCancel ==
    /\ "cancel" \in Commands
    /\ canceller.pc = "idle"
    /\ seq.status # "absent"
    /\ \A k \in seq.known : seq.items[k] # "running"
    /\ canceller' = [Idle EXCEPT !.pc = "reload", !.sup = seq.sup]
    /\ UNCHANGED <<runVars, reconciler>>

Cancelled(s) ==
    [s EXCEPT !.status = "cancelled",
              !.items = [k \in Slices |->
                 IF @[k] \in {"succeeded", "skipped", "failed", "gate-blocked"}
                 THEN @[k] ELSE "cancelled"]]

ReloadSequence ==
    /\ canceller.pc = "reload"
    /\ canceller' = IF seq.status \in {"completed", "failed", "product-blocked"}
                    THEN Idle
                    ELSE [canceller EXCEPT !.pc = "write", !.copy = Cancelled(seq)]
    /\ UNCHANGED <<runVars, reconciler>>

WriteCancelled ==
    /\ canceller.pc = "write"
    /\ seq' = canceller.copy
    /\ canceller' = [canceller EXCEPT !.pc = "stop", !.copy = NoSequence]
    /\ UNCHANGED <<run, claim, supervisor, runner, live, passed, reconciler>>

\* Mutant: ReleaseForPID removes the claim whosever it is.
AnyClaimReleased(r) == IF r = 0 THEN claim ELSE 0

\* ReleaseForPID removes the claim only of the supervisor.
ClaimReleased(r) == IF claim = r THEN 0 ELSE claim

\* The supervisor is signalled if its record still says that it runs, and its
\* claim is released either way. Its worker is in a process group of its own.
StopSupervisor ==
    LET r == canceller.sup
    IN  /\ canceller.pc = "stop"
        /\ IF r # 0 /\ supervisor[r] = "running"
           THEN /\ supervisor' = [supervisor EXCEPT ![r] = "cancelled"]
                /\ Goto(r, "dead")
           ELSE UNCHANGED <<supervisor, runner>>
        /\ claim' = ClaimReleased(r)
        /\ canceller' = Idle
        /\ UNCHANGED <<seq, run, live, passed, reconciler>>

(* Reconcile.                                                               *)

\* supervisorHealthy. The heartbeat of a live supervisor is in time; a sequence
\* without a supervisor is judged by the time it was last saved.
MayLookStale(s) == s.sup # 0 => supervisor[s.sup] # "running" \/ ~Alive(s.sup)

\* Running items are interrupted; if there is none, the first pending one is.
Interrupted(s) ==
    LET with(status) == {k \in Slices : s.items[k] = status}
        hit == IF with("running") # {} THEN with("running")
               ELSE IF with("pending") # {} THEN {Min(with("pending"))} ELSE {}
    IN  [s EXCEPT !.status = "interrupted",
                  !.items = [k \in Slices |-> IF k \in hit THEN "interrupted" ELSE @[k]]]

BeginReconcile ==
    /\ "reconcile" \in Commands
    /\ reconciler.pc = "idle"
    /\ seq.status = "running"
    /\ MayLookStale(seq)
    /\ reconciler' = [Idle EXCEPT !.pc = "write", !.copy = Interrupted(seq)]
    /\ UNCHANGED <<runVars, canceller>>

WriteInterrupted ==
    /\ reconciler.pc = "write"
    /\ seq' = reconciler.copy
    /\ reconciler' = Idle
    /\ UNCHANGED <<run, claim, supervisor, runner, live, passed, canceller>>

(* The system.                                                              *)

\* A run dies between two of its steps. Its claim, its records and its worker
\* stay.
Crash(r) ==
    /\ crashes < MaxCrashes
    /\ Alive(r)
    /\ crashes' = crashes + 1
    /\ Goto(r, "dead")
    /\ UNCHANGED <<seq, run, claim, supervisor, live, passed, canceller, reconciler>>

Operate ==
    \/ BeginCancel
    \/ ReloadSequence
    \/ WriteCancelled
    \/ StopSupervisor
    \/ BeginReconcile
    \/ WriteInterrupted

Init ==
    /\ folder \in Folders
    /\ detached \in Detaching
    /\ seq = NoSequence
    /\ run = NoRun
    /\ claim = 0
    /\ supervisor = [r \in Runs |-> "none"]
    /\ runner = [r \in Runs |-> Unborn]
    /\ live = {}
    /\ canceller = Idle
    /\ reconciler = Idle
    /\ passed = {}
    /\ crashes = 0

Next ==
    /\ \/ \E r \in Runs : (Invoke(r) \/ RunStep(r)) /\ UNCHANGED <<canceller, reconciler, crashes>>
       \/ \E worker \in live : WorkerEnds(worker) /\ UNCHANGED <<canceller, reconciler, crashes>>
       \/ Operate /\ UNCHANGED crashes
       \/ \E r \in Runs : Crash(r)
    /\ UNCHANGED <<folder, detached>>

Spec == Init /\ [][Next]_vars

-----------------------------------------------------------------------------
(* Every variable keeps its shape. *)
TypeOK ==
    /\ folder \in Folders
    /\ detached \in Detaching
    /\ seq \in Sequence
    /\ run \in RunState
    /\ claim \in Runs \cup {0}
    /\ supervisor \in [Runs -> {"none", "running", "closed", "cancelled"}]
    /\ runner \in [Runs -> Runner]
    /\ live \subseteq Runs \X Slices
    /\ canceller \in Operator
    /\ reconciler \in Operator
    /\ passed \subseteq Slices
    /\ crashes \in 0 .. MaxCrashes

Launched == live' \ live

\* A slice is launched only when every slice before it has passed since the
\* sequence was last started over, whatever crashed, was cancelled or was
\* reconciled in between, and whichever of the two records a resumed run
\* believes (runfolder.go:721).
SliceOrder ==
    [][\A w \in Launched : \A j \in 1 .. w[2] - 1 :
         folder[j] # "specification" => j \in passed]_vars

\* A slice that the run.json of an unfinished run lists is not launched again by
\* a run that resumes, although `sequence cancel` and `reconcile` may have
\* overwritten the sequence with a copy from before the slice succeeded.
NoRepeat ==
    [][\A w \in Launched :
         runner[w[1]].resumed /\ run.status # "completed" => w[2] \notin run.completed]_vars

\* A sequence that is reported completed has passed every slice.
CompletedHasPassed ==
    seq.status = "completed" =>
        \A k \in Slices : folder[k] = "specification" \/ k \in passed

\* A run that works on slices.
Working(r) == runner[r].pc \in {"prepare", "next", "launch", "wait", "record", "blocked",
                                "failed", "finish"}

\* The claim keeps runs of one worktree apart, although cancel releases the
\* claim of a supervisor that the sequence names, not of the run it finds.
SoleRunner == \A q, r \in Runs : Working(q) /\ Working(r) => q = r

\* The promise of FolderOrder, with the phase that the sequence record shows.
Promise ==
    INSTANCE FolderOrder WITH
        phase <- CASE seq.status = "completed" -> "completed"
                   [] seq.status = "product-blocked" -> "blocked"
                   [] OTHER -> "open"

KeepsPromise == Promise!OrderSpec
=============================================================================
