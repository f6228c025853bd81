--------------------------- MODULE FolderSequence ---------------------------
(***************************************************************************)
(* internal/runfolder: the slices of one folder run in order by one run    *)
(* after another, each of which resumes what the files of its predecessors *)
(* say, beside `sequence cancel` and `reconcile`. The folder's files do    *)
(* not change, so that every run computes the same sequence id; parallel   *)
(* worktrees and --resume-sequence are not modelled.                       *)
(*                                                                         *)
(* A step is one file operation. The sequence record has neither a lock    *)
(* nor a revision: whoever saves it replaces it with a copy of its own.    *)
(***************************************************************************)
EXTENDS Naturals, FiniteSets, FiniteSetsExt

CONSTANTS NumSlices,
          Folders,            \* the folders, as the kinds of their slices in order
          RecoveryAttempts,   \* --recovery-attempts
          NumRuns,            \* bound on the invocations of run-folder
          MaxCrashes,         \* bound on the runs that die
          Modes,              \* how run-folder is invoked
          Detaching,          \* which runs are run by a detached supervisor
          Commands            \* the other commands that are invoked

Slices == 1 .. NumSlices
Runs == 1 .. NumRuns

SliceKind == {"implementation", "specification", "gate"}
Mode == {"default", "resume", "fresh"}

ASSUME FolderAssumption ==
    /\ NumSlices \in Nat \ {0}
    /\ Folders \subseteq [Slices -> SliceKind]
    /\ RecoveryAttempts \in 0 .. 3
    /\ NumRuns \in Nat
    /\ MaxCrashes \in Nat
    /\ Modes \subseteq Mode
    /\ Detaching \subseteq [Runs -> BOOLEAN]
    /\ Commands \subseteq {"cancel", "reconcile"}

VARIABLES
    folder,      \* the kinds of the slices
    detached,    \* detached[r]: run r is run by a detached supervisor
    seq,         \* the persisted SequenceState
    run,         \* the persisted RunState, run.json
    claim,       \* the run that claims the worktree; 0 if none does
    supervisor,  \* supervisor[r]: the supervisor record of run r
    runner,      \* runner[r]: the process of run r
    live,        \* the workers that are alive, as <<run, slice>>
    canceller,   \* the `sequence cancel` that is under way
    reconciler,  \* the `reconcile` that is under way
    passed,      \* history: the slices that passed since the last start over
    crashes

vars == <<folder, detached, seq, run, claim, supervisor, runner, live, canceller,
          reconciler, passed, crashes>>

ItemStatus == {"pending", "running", "succeeded", "skipped", "failed", "gate-blocked",
               "cancelled", "interrupted"}
SequenceStatus == {"running", "completed", "failed", "product-blocked", "cancelled",
                   "interrupted"}
RunStatus == {"running", "completed", "failed", "product-blocked"}

\* `known` are the slices with a WorkerID: that of a worker whose end the run
\* has seen. `sup` is the run whose Supervisor the record names.
Sequence == [status : SequenceStatus \cup {"absent"}, items : [Slices -> ItemStatus],
             known : SUBSET Slices, sup : Runs \cup {0}]
RunState == [status : RunStatus \cup {"absent"}, completed : SUBSET Slices]

Untouched == [k \in Slices |-> "pending"]
NoSequence == [status |-> "absent", items |-> Untouched, known |-> {}, sup |-> 0]
NewSequence == [NoSequence EXCEPT !.status = "running"]
NoRun == [status |-> "absent", completed |-> {}]
NewRun == [NoRun EXCEPT !.status = "running"]

\* Mutant: what is left to do is looked at before what a gate has said.
StatusPendingFirst(items) ==
    LET some(status) == \E k \in Slices : items[k] = status
    IN  IF some("failed") THEN "failed"
        ELSE IF some("interrupted") THEN "interrupted"
        ELSE IF some("cancelled") THEN "cancelled"
        ELSE IF some("pending") \/ some("running") THEN "running"
        ELSE IF some("gate-blocked") THEN "product-blocked"
        ELSE "completed"

\* sequenceStatus: the first of these that an item calls for.
SequenceStatusOf(items) ==
    LET some(status) == \E k \in Slices : items[k] = status
    IN  IF some("failed") THEN "failed"
        ELSE IF some("interrupted") THEN "interrupted"
        ELSE IF some("cancelled") THEN "cancelled"
        ELSE IF some("gate-blocked") THEN "product-blocked"
        ELSE IF some("pending") \/ some("running") THEN "running"
        ELSE "completed"

\* SequenceState.mark, with the worker's id if there is one.
Marked(s, k, status, ids) ==
    LET items == [s.items EXCEPT ![k] = status]
    IN  [s EXCEPT !.items = items, !.status = SequenceStatusOf(items), !.known = @ \cup ids]

-----------------------------------------------------------------------------
(* A run of the folder.                                                     *)

Pc == {"unborn", "load", "announce", "prepare", "next", "launch", "wait", "record",
       "blocked", "failed", "finish", "leave", "sign", "signoff", "lastsave", "release",
       "dead"}

\* Its copies of the records, the slices it has still to do, and for the slice
\* at hand the recovery attempts it used and whether the last was a repair.
Runner == [pc : Pc, mode : Mode, resumed : BOOLEAN, my : Sequence, own : RunState,
           todo : SUBSET Slices, attempt : 0 .. RecoveryAttempts,
           repaired : BOOLEAN]

Unborn == [pc |-> "unborn", mode |-> "default", resumed |-> FALSE, my |-> NoSequence,
           own |-> NoRun, todo |-> {}, attempt |-> 0, repaired |-> FALSE]

Alive(r) == runner[r].pc \notin {"unborn", "dead"}

At(r, pc) == runner[r].pc = pc

Becomes(r, new) == runner' = [runner EXCEPT ![r] = new]

Goto(r, pc) == Becomes(r, [runner[r] EXCEPT !.pc = pc])

\* The runner saves its copy of the sequence. The first save of a run that
\* starts over replaces what earlier runs recorded.
Saves(r, new) ==
    /\ seq' = new.my
    /\ Becomes(r, new)

StartsOver(r) == ~runner[r].resumed /\ runner[r].my.items = Untouched

\* The slice at hand.
Slice(r) == Min(runner[r].todo)

\* Run returns: a supervisor has deferred work left, then the claim is released.
Exit(r) == IF detached[r] THEN "leave" ELSE "release"

\* worktree.Acquire: a claim whose process is dead is replaced.
Invoke(r) ==
    /\ At(r, "unborn")
    /\ \A q \in 1 .. r - 1 : ~At(q, "unborn")
    /\ claim # 0 => ~Alive(claim)
    /\ claim' = r
    /\ \E mode \in Modes : Becomes(r, [Unborn EXCEPT !.pc = "load", !.mode = mode])
    /\ UNCHANGED <<seq, run, supervisor, live, passed>>

\* Mutant: a resumed run does what its sequence does not list as done.
DoneByItems(s, own) == {k \in Slices : s.items[k] \in {"succeeded", "skipped"}}

\* Mutant: a slice whose item has ended in whatever way is done.
DoneByEnd(s, own) ==
    own.completed \cup {k \in Slices : s.items[k] \notin {"pending", "running", "cancelled"}}

\* A resumed run leaves out what either record lists.
Done(s, own) ==
    own.completed \cup {k \in Slices : s.items[k] \in {"succeeded", "skipped"}}

\* A blocked sequence, or --resume without an unfinished run, is refused.
Refused(mode, s, continues) ==
    s.status = "product-blocked" \/ (mode = "resume" /\ ~continues)

\* Both records are loaded; run.json is only written by the run that holds the
\* claim.
Load(r) ==
    LET mode == runner[r].mode
        resumes == mode # "fresh" /\ seq.status # "absent"
        continues == mode # "fresh" /\ run.status \notin {"absent", "completed"}
        my == IF resumes THEN seq ELSE NewSequence
        own == IF continues THEN run ELSE NewRun
    IN  /\ At(r, "load")
        /\ IF Refused(mode, my, continues)
           THEN Goto(r, "release")
           ELSE Becomes(r, [runner[r] EXCEPT
                    !.resumed = resumes, !.my = my, !.own = own,
                    !.todo = IF resumes THEN Slices \ Done(my, own) ELSE Slices,
                    !.pc = IF detached[r] THEN "announce" ELSE "prepare"])
        /\ UNCHANGED <<seq, run, claim, supervisor, live, passed>>

\* A supervisor writes its record and saves the sequence that names it.
Announce(r) ==
    /\ At(r, "announce")
    /\ supervisor' = [supervisor EXCEPT ![r] = "running"]
    /\ Saves(r, [runner[r] EXCEPT !.my.sup = r, !.pc = "prepare"])
    /\ passed' = IF StartsOver(r) THEN {} ELSE passed
    /\ UNCHANGED <<run, claim, live>>

\* A dirty working tree of a resumed run: the changes of the failed slice are
\* isolated and the sequence is saved, or the run ends.
Prepare(r) ==
    /\ At(r, "prepare")
    /\ \/ Goto(r, "next") /\ UNCHANGED seq
       \/ runner[r].resumed /\ Saves(r, [runner[r] EXCEPT !.pc = "next"])
       \/ runner[r].resumed /\ Goto(r, Exit(r)) /\ UNCHANGED seq
    /\ UNCHANGED <<run, claim, supervisor, live, passed>>

SkipSpecification(r) ==
    /\ At(r, "next")
    /\ runner[r].todo # {}
    /\ folder[Slice(r)] = "specification"
    /\ Saves(r, [runner[r] EXCEPT !.my = Marked(@, Slice(r), "skipped", {}), !.pc = "record"])
    /\ passed' = IF StartsOver(r) THEN {} ELSE passed
    /\ UNCHANGED <<run, claim, supervisor, live>>

\* A slice that failed in an earlier run may be taken up as a repair.
StartSlice(r) ==
    LET k == Slice(r)
    IN  /\ At(r, "next")
        /\ runner[r].todo # {}
        /\ folder[k] # "specification"
        /\ \E repair \in BOOLEAN :
              /\ repair => runner[r].resumed /\ runner[r].my.items[k] = "failed"
              /\ Saves(r, [runner[r] EXCEPT !.my = Marked(@, k, "running", {}),
                              !.attempt = 0, !.repaired = repair, !.pc = "launch"])
        /\ passed' = IF StartsOver(r) THEN {} ELSE passed
        /\ UNCHANGED <<run, claim, supervisor, live>>

Launch(r) ==
    /\ At(r, "launch")
    /\ live' = live \cup {<<r, Slice(r)>>}
    /\ Goto(r, "wait")
    /\ UNCHANGED <<seq, run, claim, supervisor, passed>>

\* The worker process ends, whoever still waits for it.
WorkerEnds(worker) ==
    /\ live' = live \ {worker}
    /\ UNCHANGED <<seq, run, claim, supervisor, runner, passed>>

\* The run sees that its worker has ended, or that it was not launched at all.
Ended(r) == At(r, "wait") /\ <<r, Slice(r)>> \notin live

SlicePasses(r) ==
    LET k == Slice(r)
    IN  /\ Ended(r)
        /\ folder[k] = "implementation"
        /\ Saves(r, [runner[r] EXCEPT !.my = Marked(@, k, "succeeded", {k}), !.pc = "record"])
        /\ passed' = passed \cup {k}
        /\ UNCHANGED <<run, claim, supervisor, live>>

\* A slice that declares gate_outcome BLOCKED ends BLOCKED or it fails.
GateBlocks(r) ==
    LET k == Slice(r)
    IN  /\ Ended(r)
        /\ folder[k] = "gate"
        /\ Saves(r, [runner[r] EXCEPT !.my = Marked(@, k, "gate-blocked", {k}), !.pc = "blocked"])
        /\ UNCHANGED <<run, claim, supervisor, live, passed>>

SliceFails(r) ==
    LET k == Slice(r)
    IN  /\ Ended(r)
        /\ \E ids \in SUBSET {k} :
              Saves(r, [runner[r] EXCEPT !.my = Marked(@, k, "failed", ids), !.pc = "failed"])
        /\ UNCHANGED <<run, claim, supervisor, live, passed>>

\* Mutant: an attempt more than --recovery-attempts.
OneMoreRetry(r) == ~runner[r].repaired /\ runner[r].attempt <= RecoveryAttempts

\* A slice is launched again a bounded number of times and after a repair not
\* at all.
MayRetry(r) == ~runner[r].repaired /\ runner[r].attempt < RecoveryAttempts

\* A failure that may be recovered from, or validation that may be repaired.
Recover(r) ==
    LET k == Slice(r)
    IN  /\ Ended(r)
        /\ MayRetry(r)
        /\ \E ids \in SUBSET {k}, repair \in BOOLEAN :
              Saves(r, [runner[r] EXCEPT !.my = Marked(@, k, "running", ids), !.pc = "launch",
                                         !.attempt = @ + 1, !.repaired = repair])
        /\ UNCHANGED <<run, claim, supervisor, live, passed>>

RecordSlice(r) ==
    LET own == [status |-> "running", completed |-> runner[r].own.completed \cup {Slice(r)}]
    IN  /\ At(r, "record")
        /\ run' = own
        /\ Becomes(r, [runner[r] EXCEPT !.own = own, !.todo = @ \ {Slice(r)}, !.pc = "next"])
        /\ UNCHANGED <<seq, claim, supervisor, live, passed>>

RecordBlocked(r) ==
    LET own == [status |-> "product-blocked",
                completed |-> runner[r].own.completed \cup {Slice(r)}]
    IN  /\ At(r, "blocked")
        /\ run' = own
        /\ Becomes(r, [runner[r] EXCEPT !.own = own, !.pc = Exit(r)])
        /\ UNCHANGED <<seq, claim, supervisor, live, passed>>

\* Mutant: the failed slice is listed with the completed ones.
RecordFailedAsDone(r) ==
    LET own == [status |-> "failed", completed |-> runner[r].own.completed \cup {Slice(r)}]
    IN  /\ At(r, "failed")
        /\ run' = own
        /\ Becomes(r, [runner[r] EXCEPT !.own = own, !.pc = Exit(r)])
        /\ UNCHANGED <<seq, claim, supervisor, live, passed>>

RecordFailed(r) ==
    LET own == [runner[r].own EXCEPT !.status = "failed"]
    IN  /\ At(r, "failed")
        /\ run' = own
        /\ Becomes(r, [runner[r] EXCEPT !.own = own, !.pc = Exit(r)])
        /\ UNCHANGED <<seq, claim, supervisor, live, passed>>

FinishRun(r) ==
    LET own == [runner[r].own EXCEPT !.status = "completed"]
    IN  /\ At(r, "next")
        /\ runner[r].todo = {}
        /\ run' = own
        /\ Becomes(r, [runner[r] EXCEPT !.own = own, !.pc = "finish"])
        /\ UNCHANGED <<seq, claim, supervisor, live, passed>>

FinishSequence(r) ==
    /\ At(r, "finish")
    /\ Saves(r, [runner[r] EXCEPT !.my.status = "completed", !.pc = Exit(r)])
    /\ UNCHANGED <<run, claim, supervisor, live, passed>>

\* The supervisor's deferred function: it looks at the sequence on disk, closes
\* its record, and saves its copy unless the sequence was cancelled.
Leave(r) ==
    /\ At(r, "leave")
    /\ Goto(r, IF seq.status = "cancelled" THEN "signoff" ELSE "sign")
    /\ UNCHANGED <<seq, run, claim, supervisor, live, passed>>

Sign(r) ==
    /\ runner[r].pc \in {"sign", "signoff"}
    /\ supervisor' = [supervisor EXCEPT ![r] = "closed"]
    /\ Goto(r, IF At(r, "sign") THEN "lastsave" ELSE "release")
    /\ UNCHANGED <<seq, run, claim, live, passed>>

LastSave(r) ==
    /\ At(r, "lastsave")
    /\ Saves(r, [runner[r] EXCEPT !.pc = "release"])
    /\ UNCHANGED <<run, claim, supervisor, live, passed>>

Release(r) ==
    /\ At(r, "release")
    /\ claim' = IF claim = r THEN 0 ELSE claim
    /\ Goto(r, "dead")
    /\ UNCHANGED <<seq, run, supervisor, live, passed>>

RunStep(r) ==
    \/ Load(r)
    \/ Announce(r)
    \/ Prepare(r)
    \/ SkipSpecification(r)
    \/ StartSlice(r)
    \/ Launch(r)
    \/ SlicePasses(r)
    \/ GateBlocks(r)
    \/ SliceFails(r)
    \/ Recover(r)
    \/ RecordSlice(r)
    \/ RecordBlocked(r)
    \/ RecordFailed(r)
    \/ FinishRun(r)
    \/ FinishSequence(r)
    \/ Leave(r)
    \/ Sign(r)
    \/ LastSave(r)
    \/ Release(r)
=============================================================================
