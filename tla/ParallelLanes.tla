----------------------------- MODULE ParallelLanes -----------------------------
(***************************************************************************)
(* internal/runfolder, parallel.go: the lanes of one folder run beside one *)
(* another in Git worktrees of their own, batch by batch, and are merged   *)
(* in the order of their priority in a coordinator worktree. Only when all *)
(* of them are merged is the feature branch fast-forwarded.                *)
(*                                                                         *)
(* One run at a time works on the folder (FolderControl is about the claim *)
(* that sees to it); a later run starts over or resumes what the sequence  *)
(* record and the worktrees say. A commit is a lane or an edit of the      *)
(* user, and a branch is the set of the commits that it contains.          *)
(***************************************************************************)
EXTENDS Naturals, FiniteSets, FiniteSetsExt

CONSTANTS NumLanes,     \* the lanes, in the order in which they are merged
          Plans,        \* depends_on of the lanes
          Supervision,  \* whether runs have a detached supervisor
          NumRuns,      \* bound on the runs
          NumTrees,     \* bound on the runs that start over
          NumEdits,     \* bound on the commits of the user to the feature branch
          MaxCrashes    \* bound on the runs that die

Lanes == 1 .. NumLanes
Edits == NumLanes + 1 .. NumLanes + NumEdits
Commits == Lanes \cup Edits
Trees == 1 .. NumTrees

\* validatePromptDependencies: a slice depends on earlier ones only. The files
\* of a specification are left out: they are done from the start.
ASSUME LanesAssumption ==
    /\ NumLanes \in Nat \ {0}
    /\ Plans \subseteq [Lanes -> SUBSET Lanes]
    /\ \A deps \in Plans : \A l \in Lanes : deps[l] \subseteq 1 .. l - 1
    /\ Supervision \subseteq BOOLEAN
    /\ {NumRuns, NumTrees, NumEdits, MaxCrashes} \subseteq Nat

VARIABLES
    plan,        \* plan[l]: the lanes that l depends on
    feature,     \* the commits of the feature branch
    tree,        \* tree[t]: the worktrees that the t-th fresh run created
    trees,       \* how many there are
    seq,         \* the persisted SequenceState
    run,         \* the status that run.json has
    runner,      \* the process of the run, if there is one
    passed,      \* history: the lanes recorded as passed since the last start over
    conflicted,  \* history: the lanes that could not be merged since then
    runs, edits, crashes

vars == <<plan, feature, tree, trees, seq, run, runner, passed, conflicted,
          runs, edits, crashes>>

LaneStatus == {"pending", "running", "waiting-to-merge", "succeeded", "failed", "interrupted"}
Integration == {"none", "working", "waiting-to-merge", "integrating", "integrated", "failed"}
Status == {"running", "failed", "interrupted", "cancelled", "product-blocked", "completed"}

\* A lane's worktree, and the fresh run whose worktrees it is one of; 0 if the
\* item names none.
Item == [status : LaneStatus, merge : Integration, tree : Trees \cup {0}]
Sequence == [status : Status \cup {"absent"}, items : [Lanes -> Item]]

\* A worktree and the commits of its branch. In the coordinator, `conflict` is
\* the lane whose merge stopped with conflicts; 0 if none did.
Worktree == [state : {"none", "clean", "dirty"}, has : SUBSET Commits]
Coordinator == [has : SUBSET Commits, conflict : Lanes \cup {0}]

NoWorktree == [state |-> "none", has |-> {}]
NoTree == [lane |-> [l \in Lanes |-> NoWorktree], main |-> [has |-> {}, conflict |-> 0]]

Untouched == [status |-> "pending", merge |-> "none", tree |-> 0]
NewSequence == [status |-> "running", items |-> [l \in Lanes |-> Untouched]]
NoSequence == [NewSequence EXCEPT !.status = "absent"]

Pc == {"idle", "open", "plan", "record", "batch", "work", "failure", "merge", "advance",
       "finish", "close", "leave"}

\* A run: its copy of the sequence, the feature branch as it found it, the lanes
\* of the batch that still work, and those that passed and that failed.
Runner == [pc : Pc, resume : BOOLEAN, supervised : BOOLEAN, tree : Trees \cup {0},
           my : Sequence, base : SUBSET Commits, work : SUBSET Lanes,
           good : SUBSET Lanes, bad : SUBSET Lanes]

Idle == [pc |-> "idle", resume |-> FALSE, supervised |-> FALSE, tree |-> 0,
         my |-> NoSequence, base |-> {}, work |-> {}, good |-> {}, bad |-> {}]

\* Mutant: the status of a sequence that no item has a say in.
StatusOfNone(items) ==
    LET some(status) == \E l \in Lanes : items[l].status = status
    IN  IF some("failed") THEN "failed"
        ELSE IF some("pending") \/ some("running") THEN "running"
        ELSE IF some("succeeded") THEN "completed" ELSE "none"

\* sequenceStatus: a lane that waits to be merged counts for nothing.
SequenceStatusOf(items) ==
    LET some(status) == \E l \in Lanes : items[l].status = status
    IN  IF some("failed") THEN "failed"
        ELSE IF some("interrupted") THEN "interrupted"
        ELSE IF some("pending") \/ some("running") THEN "running"
        ELSE "completed"

\* SequenceState.mark and setParallelItem, for several lanes.
Marked(s, lanes, item) ==
    LET items == [l \in Lanes |-> IF l \in lanes THEN item ELSE s.items[l]]
    IN  [status |-> SequenceStatusOf(items), items |-> items]

At(pc) == runner.pc = pc

\* Run returns: a supervisor saves the copy of the run once more.
Exits(new) == runner' = IF new.supervised THEN [new EXCEPT !.pc = "leave"] ELSE Idle

Mine == tree[runner.tree]

-----------------------------------------------------------------------------
(* Starting and resuming.                                                   *)

\* A run without --resume starts over; one with it needs a sequence and a run
\* that is not completed. A supervisor saves the sequence that names it.
Begin ==
    /\ At("idle")
    /\ runs < NumRuns
    /\ \E resume \in BOOLEAN, supervised \in Supervision :
          /\ IF resume THEN seq.status # "absent" /\ run \in {"running", "failed"}
                       ELSE trees < NumTrees
          /\ LET my == IF resume THEN seq ELSE NewSequence
             IN  /\ runner' = [Idle EXCEPT !.pc = "open", !.resume = resume,
                                           !.supervised = supervised, !.my = my]
                 /\ seq' = IF supervised THEN my ELSE seq
                 /\ passed' = IF supervised /\ ~resume THEN {} ELSE passed
                 /\ conflicted' = IF supervised /\ ~resume THEN {} ELSE conflicted
    /\ runs' = runs + 1
    /\ UNCHANGED <<plan, feature, tree, trees, run, edits, crashes>>

\* The coordinator of a run that starts over branches off the feature branch.
OpenFresh ==
    /\ At("open")
    /\ ~runner.resume
    /\ trees' = trees + 1
    /\ tree' = [tree EXCEPT ![trees'].main.has = feature]
    /\ runner' = [runner EXCEPT !.pc = "plan", !.tree = trees', !.base = feature]
    /\ UNCHANGED <<plan, feature, seq, run, passed, conflicted, runs, edits, crashes>>

\* retainedParallelCoordinator: the worktrees that every lane with one agrees
\* on, all of them clean.
Retained(s) ==
    LET used == {s.items[l].tree : l \in Lanes} \ {0}
    IN  {t \in used :
           /\ s.status \in {"failed", "interrupted", "running"}
           /\ used = {t}
           /\ \A l \in Lanes : s.items[l].tree = t => tree[t].lane[l].state = "clean"
           /\ tree[t].main.conflict = 0}

OpenRetained ==
    /\ At("open")
    /\ runner.resume
    /\ \E t \in Retained(runner.my) :
          runner' = [runner EXCEPT !.pc = "plan", !.tree = t, !.base = feature,
                                   !.my.status = "running"]
    /\ UNCHANGED <<plan, feature, tree, trees, seq, run, passed, conflicted, runs, edits,
                   crashes>>

OpenRefused ==
    /\ At("open")
    /\ runner.resume
    /\ Retained(runner.my) = {}
    /\ Exits(runner)
    /\ UNCHANGED <<plan, feature, tree, trees, seq, run, passed, conflicted, runs, edits,
                   crashes>>

SavePlan ==
    /\ At("plan")
    /\ seq' = runner.my
    /\ runner' = [runner EXCEPT !.pc = "record"]
    /\ passed' = IF runner.resume THEN passed ELSE {}
    /\ conflicted' = IF runner.resume THEN conflicted ELSE {}
    /\ UNCHANGED <<plan, feature, tree, trees, run, runs, edits, crashes>>

\* The list of completed slices of run.json is not read in this mode.
SaveRun ==
    /\ At("record")
    /\ run' = "running"
    /\ runner' = [runner EXCEPT !.pc = "batch"]
    /\ UNCHANGED <<plan, feature, tree, trees, seq, passed, conflicted, runs, edits, crashes>>

-----------------------------------------------------------------------------
(* A batch of lanes.                                                        *)

\* Mutant: a lane that waits to be merged is complete.
CompletedEarly(s) == {l \in Lanes : s.items[l].merge \in {"integrated", "waiting-to-merge"}}

Completed(s) == {l \in Lanes : s.items[l].merge = "integrated"}

Remaining == Lanes \ Completed(runner.my)

\* dependenciesComplete.
Ready == {l \in Remaining : plan[l] \subseteq Completed(runner.my)}

\* Mutant: every lane of the batch is launched.
ReusedNone == {}

\* A resumed run does not launch a lane again that waits to be merged.
Reused ==
    {l \in Ready : /\ runner.resume
                   /\ runner.my.items[l].status = "waiting-to-merge"
                   /\ runner.my.items[l].merge = "waiting-to-merge"}

Working(t) == [status |-> "running", merge |-> "working", tree |-> t]

\* A worktree that an earlier run left is used again, any other branches off
\* the coordinator.
WithWorktrees(lanes) ==
    [tree EXCEPT ![runner.tree].lane =
        [l \in Lanes |-> IF l \in lanes /\ @[l].state = "none"
                         THEN [state |-> "clean", has |-> Mine.main.has]
                         ELSE @[l]]]

\* None of this is saved before the whole batch has ended.
StartBatch ==
    LET lanes == Ready \ Reused
    IN  /\ At("batch")
        /\ Remaining # {}
        /\ tree' = WithWorktrees(lanes)
        /\ runner' = [runner EXCEPT !.pc = "work", !.work = lanes, !.good = Reused, !.bad = {},
                                    !.my = Marked(@, lanes, Working(runner.tree))]
        /\ UNCHANGED <<plan, feature, trees, seq, run, passed, conflicted, runs, edits, crashes>>

\* A worktree cannot be created: the run ends while the lanes before it work.
StartFails ==
    /\ At("batch")
    /\ \E l \in Ready \ Reused :
          LET lanes == {k \in Ready \ Reused : k < l}
          IN  /\ Mine.lane[l].state = "none"
              /\ tree' = WithWorktrees(lanes)
              /\ Exits([runner EXCEPT !.my = Marked(@, lanes, Working(runner.tree))])
    /\ UNCHANGED <<plan, feature, trees, seq, run, passed, conflicted, runs, edits, crashes>>

\* runPrompt in the worktree of the lane: its changes are committed there.
LanePasses(l) ==
    /\ At("work")
    /\ l \in runner.work
    /\ tree' = [tree EXCEPT ![runner.tree].lane[l] = [state |-> "clean", has |-> @.has \cup {l}]]
    /\ runner' = [runner EXCEPT !.work = @ \ {l}, !.good = @ \cup {l}]
    /\ UNCHANGED <<plan, feature, trees, seq, run, passed, conflicted, runs, edits, crashes>>

\* A lane that fails may leave changes behind.
LaneFails(l) ==
    /\ At("work")
    /\ l \in runner.work
    /\ \E state \in {"clean", "dirty"} :
          tree' = [tree EXCEPT ![runner.tree].lane[l].state = state]
    /\ runner' = [runner EXCEPT !.work = @ \ {l}, !.bad = @ \cup {l}]
    /\ UNCHANGED <<plan, feature, trees, seq, run, passed, conflicted, runs, edits, crashes>>

Waiting(t) == [status |-> "waiting-to-merge", merge |-> "waiting-to-merge", tree |-> t]
Failed(t) == [status |-> "failed", merge |-> "failed", tree |-> t]

\* The outcomes of the whole batch are saved before a failure ends the run.
SaveOutcomes ==
    LET t == runner.tree
        my == Marked(Marked(runner.my, runner.good, Waiting(t)), runner.bad, Failed(t))
    IN  /\ At("work")
        /\ runner.work = {}
        /\ seq' = my
        /\ runner' = [runner EXCEPT !.my = my,
                                    !.pc = IF runner.bad = {} THEN "merge" ELSE "failure"]
        /\ passed' = passed \cup runner.good
        /\ UNCHANGED <<plan, feature, tree, trees, run, conflicted, runs, edits, crashes>>

SaveFailure ==
    /\ At("failure")
    /\ run' = "failed"
    /\ Exits(runner)
    /\ UNCHANGED <<plan, feature, tree, trees, seq, passed, conflicted, runs, edits, crashes>>

-----------------------------------------------------------------------------
(* Integration.                                                             *)

Integrated(t) == [status |-> "succeeded", merge |-> "integrated", tree |-> t]

\* The lanes of the batch are merged in order. A lane that the coordinator has
\* already is merged without effect.
MergeLane ==
    LET l == Min(runner.good)
        t == runner.tree
    IN  /\ At("merge")
        /\ runner.good # {}
        /\ tree' = [tree EXCEPT ![t].main.has = @ \cup Mine.lane[l].has]
        /\ runner' = [runner EXCEPT !.good = @ \ {l}, !.my = Marked(@, {l}, Integrated(t))]
        /\ UNCHANGED <<plan, feature, trees, seq, run, passed, conflicted, runs, edits, crashes>>

\* Mutant: the lane is marked as integrated before it is merged.
MergeMarkedFirst ==
    LET l == Min(runner.good)
        t == runner.tree
    IN  /\ At("merge")
        /\ runner.good # {}
        /\ l \notin Mine.main.has
        /\ tree' = [tree EXCEPT ![t].main.conflict = l]
        /\ Exits([runner EXCEPT !.my = Marked(@, {l}, Integrated(t))])
        /\ conflicted' = conflicted \cup {l}
        /\ UNCHANGED <<plan, feature, trees, seq, run, passed, runs, edits, crashes>>

\* A conflict stays in the coordinator's worktree, and the sequence on disk as
\* it was before the batch was merged, unless there is a supervisor.
MergeConflicts ==
    LET l == Min(runner.good)
        t == runner.tree
    IN  /\ At("merge")
        /\ runner.good # {}
        /\ l \notin Mine.main.has
        /\ tree' = [tree EXCEPT ![t].main.conflict = l]
        /\ Exits([runner EXCEPT !.my.items[l].merge = "integrating"])
        /\ conflicted' = conflicted \cup {l}
        /\ UNCHANGED <<plan, feature, trees, seq, run, passed, runs, edits, crashes>>

SaveBatch ==
    /\ At("merge")
    /\ runner.good = {}
    /\ seq' = runner.my
    /\ runner' = [runner EXCEPT !.pc = "batch"]
    /\ UNCHANGED <<plan, feature, tree, trees, run, passed, conflicted, runs, edits, crashes>>

\* The feature branch must be where this run found it.
CheckBase ==
    /\ At("batch")
    /\ Remaining = {}
    /\ IF feature = runner.base
       THEN runner' = [runner EXCEPT !.pc = "advance"]
       ELSE Exits(runner)
    /\ UNCHANGED <<plan, feature, tree, trees, seq, run, passed, conflicted, runs, edits,
                   crashes>>

\* Mutant: merge --ff-only goes through whatever the branch contains.
ForceForward ==
    /\ At("advance")
    /\ feature' = Mine.main.has
    /\ runner' = [runner EXCEPT !.pc = "finish"]
    /\ UNCHANGED <<plan, tree, trees, seq, run, passed, conflicted, runs, edits, crashes>>

\* git merge --ff-only.
FastForward ==
    /\ At("advance")
    /\ IF feature \subseteq Mine.main.has
       THEN feature' = Mine.main.has /\ runner' = [runner EXCEPT !.pc = "finish"]
       ELSE UNCHANGED feature /\ Exits(runner)
    /\ UNCHANGED <<plan, tree, trees, seq, run, passed, conflicted, runs, edits, crashes>>

FinishRun ==
    /\ At("finish")
    /\ run' = "completed"
    /\ runner' = [runner EXCEPT !.pc = "close", !.my.status = "completed"]
    /\ UNCHANGED <<plan, feature, tree, trees, seq, passed, conflicted, runs, edits, crashes>>

FinishSequence ==
    /\ At("close")
    /\ seq' = runner.my
    /\ Exits(runner)
    /\ UNCHANGED <<plan, feature, tree, trees, run, passed, conflicted, runs, edits, crashes>>

\* The deferred function of a supervisor.
Leave ==
    /\ At("leave")
    /\ seq' = runner.my
    /\ runner' = Idle
    /\ UNCHANGED <<plan, feature, tree, trees, run, passed, conflicted, runs, edits, crashes>>

-----------------------------------------------------------------------------
(* The surroundings.                                                        *)

\* The run dies; so do its lanes, which leave their worktrees as they are.
Crash ==
    /\ ~At("idle")
    /\ crashes < MaxCrashes
    /\ crashes' = crashes + 1
    /\ \E left \in SUBSET runner.work :
          tree' = IF runner.tree = 0 THEN tree
                  ELSE [tree EXCEPT ![runner.tree].lane =
                           [l \in Lanes |-> IF l \in left THEN [@[l] EXCEPT !.state = "dirty"]
                                                          ELSE @[l]]]
    /\ runner' = Idle
    /\ UNCHANGED <<plan, feature, trees, seq, run, passed, conflicted, runs, edits>>

\* Reconcile of a sequence whose run is dead, or has no supervisor and has not
\* saved it for a while.
Reconcile ==
    LET with(status) == {l \in Lanes : seq.items[l].status = status}
        hit == IF with("running") # {} THEN with("running")
               ELSE IF with("pending") # {} THEN {Min(with("pending"))} ELSE {}
    IN  /\ seq.status = "running"
        /\ ~At("idle") => ~runner.supervised
        /\ seq' = [status |-> "interrupted",
                   items |-> [l \in Lanes |-> IF l \in hit
                                THEN [seq.items[l] EXCEPT !.status = "interrupted"]
                                ELSE seq.items[l]]]
        /\ UNCHANGED <<plan, feature, tree, trees, run, runner, passed, conflicted, runs,
                       edits, crashes>>

\* The user commits to the feature branch.
Edit ==
    /\ edits < NumEdits
    /\ edits' = edits + 1
    /\ feature' = feature \cup {NumLanes + edits'}
    /\ UNCHANGED <<plan, tree, trees, seq, run, runner, passed, conflicted, runs, crashes>>

\* The user commits or discards what a lane left.
TidyLane(t, l) ==
    /\ At("idle")
    /\ tree[t].lane[l].state = "dirty"
    /\ tree' = [tree EXCEPT ![t].lane[l].state = "clean"]
    /\ UNCHANGED <<plan, feature, trees, seq, run, runner, passed, conflicted, runs, edits,
                   crashes>>

\* The user resolves the conflict of a merge, or aborts the merge.
TidyCoordinator(t) ==
    LET l == tree[t].main.conflict
    IN  /\ At("idle")
        /\ l # 0
        /\ \E merged \in {{}, tree[t].lane[l].has} :
              tree' = [tree EXCEPT ![t].main = [has |-> @.has \cup merged, conflict |-> 0]]
        /\ UNCHANGED <<plan, feature, trees, seq, run, runner, passed, conflicted, runs, edits,
                       crashes>>

RunStep ==
    \/ OpenFresh \/ OpenRetained \/ OpenRefused \/ SavePlan \/ SaveRun
    \/ StartBatch \/ StartFails
    \/ \E l \in Lanes : LanePasses(l) \/ LaneFails(l)
    \/ SaveOutcomes \/ SaveFailure
    \/ MergeLane \/ MergeConflicts \/ SaveBatch
    \/ CheckBase \/ FastForward \/ FinishRun \/ FinishSequence \/ Leave

Init ==
    /\ plan \in Plans
    /\ feature = {}
    /\ tree = [t \in Trees |-> NoTree]
    /\ trees = 0
    /\ seq = NoSequence
    /\ run = "absent"
    /\ runner = Idle
    /\ passed = {}
    /\ conflicted = {}
    /\ runs = 0
    /\ edits = 0
    /\ crashes = 0

Next ==
    \/ Begin
    \/ RunStep
    \/ Crash
    \/ Reconcile
    \/ Edit
    \/ \E t \in Trees : TidyCoordinator(t) \/ \E l \in Lanes : TidyLane(t, l)

Spec == Init /\ [][Next]_vars

-----------------------------------------------------------------------------
(* Every variable keeps its shape. *)
TypeOK ==
    /\ plan \in Plans
    /\ feature \subseteq Commits
    /\ tree \in [Trees -> [lane : [Lanes -> Worktree], main : Coordinator]]
    /\ trees \in 0 .. NumTrees
    /\ seq \in Sequence
    /\ run \in {"absent", "running", "failed", "completed"}
    /\ runner \in Runner
    /\ passed \subseteq Lanes
    /\ conflicted \subseteq Lanes
    /\ runs \in 0 .. NumRuns
    /\ edits \in 0 .. NumEdits
    /\ crashes \in 0 .. MaxCrashes

\* A lane works on the results of the lanes it depends on, and is merged after
\* them, through failures, crashes and resumed runs (parallel.go:167).
DependenciesFirst ==
    \A t \in Trees :
        /\ \A l \in Lanes : tree[t].lane[l].state # "none" => plan[l] \subseteq tree[t].lane[l].has
        /\ \A l \in Lanes \cap tree[t].main.has : plan[l] \subseteq tree[t].main.has

\* The feature branch has all the lanes or none, it keeps what the user
\* committed while the lanes ran, and it has the lanes by the time run.json
\* says that the run is completed (parallel.go:308).
FeatureWhole ==
    /\ feature \cap Lanes \in {{}, Lanes}
    /\ NumLanes + 1 .. NumLanes + edits \subseteq feature
    /\ run = "completed" => Lanes \subseteq feature

\* What the sequence records as integrated is in the coordinator that a resumed
\* run would go on with (parallel.go:287).
IntegratedIsMerged ==
    \A l \in Lanes :
        seq.items[l].merge = "integrated" => l \in tree[seq.items[l].tree].main.has

\* A lane that was recorded as passed is launched again, before the folder is
\* started over, only if it could not be merged (parallel.go:186).
PassedNotRelaunched ==
    [][\A l \in runner'.work \ runner.work : l \in passed => l \in conflicted]_vars
=============================================================================
