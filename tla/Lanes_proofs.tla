----------------------------- MODULE Lanes_proofs -----------------------------
(***************************************************************************)
(* Theorems about ParallelLanes, for any number of lanes, plans, runs,     *)
(* worktrees, edits and crashes.                                           *)
(***************************************************************************)
EXTENDS ParallelLanes, NaturalsInduction, WellFoundedInduction, TLAPS

USE DEF At, Mine

-----------------------------------------------------------------------------
(* Operators.                                                                *)

\* Min of FiniteSetsExt chooses the least element: there is one, since the natural
\* numbers are well-founded.
LEMMA MinOfNaturals ==
    ASSUME NEW S \in SUBSET Nat, S # {}
    PROVE  Min(S) \in S /\ \A x \in S : Min(S) <= x
<1> DEFINE Less == {pair \in Nat \X Nat : pair[1] < pair[2]}
<1>1. PICK m \in S : \A x \in S : <<x, m>> \notin Less
  <2>1. IsWellFoundedOn(Less, Nat)
    BY NatLessThanWellFounded DEF OpToRel
  <2> HIDE DEF Less
  <2> QED BY <2>1, WFMin
<1>2. ASSUME NEW x \in S PROVE m <= x
  <2>1. CASE x < m
    <3>1. <<x, m>> \in Less
      BY <2>1
    <3> QED BY <1>1, <3>1
  <2> QED BY <2>1
<1> QED BY <1>2 DEF Min

LEMMA MinOfLanes ==
    ASSUME NEW S \in SUBSET Lanes, S # {}
    PROVE  Min(S) \in S
BY MinOfNaturals, LanesAssumption DEF Lanes

\* What marking some lanes does to the items and to the status.
LEMMA MarkedTyped ==
    ASSUME NEW s \in Sequence, NEW lanes, NEW item \in Item
    PROVE  /\ Marked(s, lanes, item) \in Sequence
           /\ Marked(s, lanes, item).status # "absent"
           /\ \A l \in Lanes : Marked(s, lanes, item).items[l] =
                                   IF l \in lanes THEN item ELSE s.items[l]
BY DEF Marked, Sequence, SequenceStatusOf, Status

LEMMA ItemsTyped ==
    /\ Untouched \in Item
    /\ NewSequence \in Sequence
    /\ NoSequence \in Sequence
    /\ Idle \in Runner
    /\ \A t \in Trees \cup {0} : {Working(t), Waiting(t), Failed(t), Integrated(t)} \subseteq Item
<1>1. /\ Untouched \in Item
      /\ \A t \in Trees \cup {0} : {Working(t), Waiting(t), Failed(t), Integrated(t)} \subseteq Item
  BY DEF Item, LaneStatus, Integration, Untouched, Working, Waiting, Failed, Integrated
<1>2. NewSequence \in Sequence
  BY <1>1 DEF NewSequence, Sequence, Status
<1>3. NoSequence \in Sequence
  BY <1>2 DEF NoSequence, Sequence
<1>4. Idle \in Runner
  BY <1>3 DEF Idle, Runner, Pc
<1> QED BY <1>1, <1>2, <1>3, <1>4

-----------------------------------------------------------------------------
(* Types. A run that works on a coordinator has one that was created, and a  *)
(* run that starts over has room for one.                                    *)

Coordinating(pc) == pc \notin {"idle", "open", "leave"}

\* The items name worktrees that were created.
Named(s) == \A l \in Lanes : s.items[l].tree \in 0 .. trees

TypeInv ==
    /\ TypeOK
    /\ Named(seq)
    /\ Named(runner.my)
    /\ runner.tree \in 0 .. trees
    /\ Coordinating(runner.pc) => runner.tree # 0
    /\ At("open") /\ ~runner.resume => trees < NumTrees

Forest == [Trees -> [lane : [Lanes -> Worktree], main : Coordinator]]

\* The type of what a step may change, when no worktree is created.
StepTyped ==
    /\ tree' \in Forest
    /\ seq' \in Sequence
    /\ Named(seq')
    /\ runner' \in Runner
    /\ Named(runner'.my)
    /\ runner'.tree \in 0 .. trees
    /\ Coordinating(runner'.pc) => runner'.tree # 0
    /\ runner'.pc # "open"

LEMMA StepKeepsType ==
    ASSUME TypeInv, StepTyped,
           UNCHANGED <<plan, trees, runs, edits>>,
           feature' \subseteq Commits,
           run' \in {"absent", "running", "failed", "completed"},
           passed' \subseteq Lanes, conflicted' \subseteq Lanes,
           crashes' \in 0 .. MaxCrashes
    PROVE  TypeInv'
BY DEF StepTyped, TypeInv, TypeOK, Named, Forest

LEMMA ExitsTyped ==
    ASSUME trees \in Nat, NEW new \in Runner, new.tree \in 0 .. trees, Named(new.my),
           Exits(new)
    PROVE  /\ runner' \in Runner
           /\ runner'.tree \in 0 .. trees
           /\ Named(runner'.my)
           /\ ~Coordinating(runner'.pc) /\ runner'.pc # "open"
<1>1. [new EXCEPT !.pc = "leave"] \in Runner
  BY DEF Runner, Pc
<1>2. Named(NoSequence)
  BY DEF Named, NoSequence, NewSequence, Untouched
<1> QED BY <1>1, <1>2, ItemsTyped DEF Exits, Idle, Runner, Coordinating, Named

LEMMA BeginTyped == ASSUME TypeInv, Begin PROVE TypeInv'
<1>1. PICK resume \in BOOLEAN, supervised \in Supervision :
          /\ IF resume THEN seq.status # "absent" /\ run \in {"running", "failed"}
                       ELSE trees < NumTrees
          /\ LET my == IF resume THEN seq ELSE NewSequence
             IN  /\ runner' = [Idle EXCEPT !.pc = "open", !.resume = resume,
                                           !.supervised = supervised, !.my = my]
                 /\ seq' = IF supervised THEN my ELSE seq
                 /\ passed' = IF supervised /\ ~resume THEN {} ELSE passed
                 /\ conflicted' = IF supervised /\ ~resume THEN {} ELSE conflicted
  BY DEF Begin
<1>2. /\ seq' \in Sequence /\ runner' \in Runner /\ runner'.tree = 0
      /\ runner'.pc = "open" /\ runner'.resume = resume
      /\ runner'.my = IF resume THEN seq ELSE NewSequence
  BY <1>1, ItemsTyped, LanesAssumption DEF TypeInv, TypeOK, Runner, Pc, Idle
<1>3. Named(NewSequence)
  BY LanesAssumption DEF Named, NewSequence, Untouched, TypeInv, TypeOK
<1> QED BY <1>1, <1>2, <1>3, LanesAssumption DEF Begin, TypeInv, TypeOK, Coordinating, Named

LEMMA OpenTyped ==
    ASSUME TypeInv, OpenFresh \/ OpenRetained \/ OpenRefused
    PROVE  TypeInv'
<1>1. CASE OpenFresh
  <2>1. trees' \in Trees /\ trees' = trees + 1
    BY <1>1, LanesAssumption DEF OpenFresh, TypeInv, TypeOK, Trees
  <2>2. tree' \in Forest
    BY <1>1, <2>1 DEF OpenFresh, TypeInv, TypeOK, Forest, Coordinator
  <2>3. /\ runner' \in Runner /\ runner'.tree = trees' /\ runner'.pc = "plan"
        /\ runner'.my = runner.my
    BY <1>1, <2>1 DEF OpenFresh, TypeInv, TypeOK, Runner, Pc
  <2>4. Named(seq)' /\ Named(runner.my)'
    BY <1>1, <2>1, <2>3 DEF OpenFresh, TypeInv, TypeOK, Named, Sequence, Item, Runner
  <2> QED BY <1>1, <2>1, <2>2, <2>3, <2>4, LanesAssumption
         DEF OpenFresh, TypeInv, TypeOK, Forest, Trees
<1>2. CASE OpenRetained
  <2>1. PICK t \in Retained(runner.my) :
            runner' = [runner EXCEPT !.pc = "plan", !.tree = t, !.base = feature,
                                     !.my.status = "running"]
    BY <1>2 DEF OpenRetained
  <2>2. t \in 1 .. trees /\ t \in 0 .. trees /\ t # 0
    BY DEF Retained, TypeInv, TypeOK, Named
  <2>3. /\ runner' \in Runner /\ runner'.tree = t /\ runner'.pc = "plan"
        /\ runner'.my.items = runner.my.items
    <3>1. t \in Trees
      BY <2>2, LanesAssumption DEF TypeInv, TypeOK, Trees
    <3>2. [runner.my EXCEPT !.status = "running"] \in Sequence
      BY DEF TypeInv, TypeOK, Runner, Sequence, Status
    <3> QED BY <2>1, <3>1, <3>2 DEF TypeInv, TypeOK, Runner, Pc, Sequence
  <2>4. StepTyped
    BY <1>2, <2>2, <2>3 DEF OpenRetained, TypeInv, TypeOK, StepTyped, Named, Forest
  <2> QED BY <1>2, <2>4, StepKeepsType DEF OpenRetained, TypeInv, TypeOK
<1>3. CASE OpenRefused
  BY <1>3, ExitsTyped DEF OpenRefused, TypeInv, TypeOK, Named, Runner, Sequence, Item
<1> QED BY <1>1, <1>2, <1>3

\* What a run may assume of itself.
LEMMA RunnerTyped ==
    ASSUME TypeInv
    PROVE  /\ runner \in Runner
           /\ runner.my \in Sequence
           /\ runner.tree \in Trees \cup {0}
           /\ runner.work \in SUBSET Lanes
           /\ runner.good \in SUBSET Lanes
           /\ runner.bad \in SUBSET Lanes
           /\ runner.tree \in 0 .. trees
           /\ trees \in Nat
           /\ Named(runner.my)
           /\ Coordinating(runner.pc) => /\ runner.tree \in Trees /\ runner.tree # 0
                                         /\ Mine.main \in Coordinator
                                         /\ Mine.lane \in [Lanes -> Worktree]
BY LanesAssumption DEF TypeInv, TypeOK, Runner

LEMMA MarkedNamed ==
    ASSUME NEW s \in Sequence, NEW lanes, NEW item \in Item, Named(s), item.tree \in 0 .. trees
    PROVE  Marked(s, lanes, item) \in Sequence /\ Named(Marked(s, lanes, item))
BY MarkedTyped DEF Named

\* The worktree of a lane is replaced.
LEMMA LaneTyped ==
    ASSUME tree \in Forest, NEW t, NEW l, NEW state \in {"none", "clean", "dirty"},
           NEW has \in SUBSET Commits
    PROVE  /\ [tree EXCEPT ![t].lane[l] = [state |-> state, has |-> has]] \in Forest
           /\ [tree EXCEPT ![t].lane[l].state = state] \in Forest
<1>1. CASE t \in Trees /\ l \in Lanes
  <2>1. tree[t].lane[l] \in Worktree /\ tree[t].lane \in [Lanes -> Worktree]
    BY <1>1 DEF Forest
  <2>2. /\ [tree[t].lane[l] EXCEPT !.state = state] \in Worktree
        /\ [state |-> state, has |-> has] \in Worktree
    BY <2>1 DEF Worktree
  <2>3. ASSUME NEW new \in Worktree
        PROVE  [tree EXCEPT ![t].lane[l] = new] \in Forest
    BY <2>1 DEF Forest
  <2> QED BY <2>2, <2>3
<1>2. CASE t \notin Trees \/ l \notin Lanes
  BY <1>2 DEF Forest
<1> QED BY <1>1, <1>2

\* Worktrees are created for some lanes.
LEMMA BranchedTyped ==
    ASSUME TypeInv, Coordinating(runner.pc), NEW lanes
    PROVE  WithWorktrees(lanes) \in Forest
<1>1. Mine.lane \in [Lanes -> Worktree] /\ Mine.main.has \subseteq Commits
  BY RunnerTyped DEF Coordinator
<1>2. [l \in Lanes |-> IF l \in lanes /\ Mine.lane[l].state = "none"
                       THEN [state |-> "clean", has |-> Mine.main.has]
                       ELSE Mine.lane[l]] \in [Lanes -> Worktree]
  BY <1>1 DEF Worktree
<1> QED BY <1>2 DEF WithWorktrees, TypeInv, TypeOK, Forest

LEMMA SavesTyped ==
    ASSUME TypeInv,
           SavePlan \/ SaveRun \/ SaveFailure \/ SaveBatch \/ CheckBase \/ FinishRun
              \/ FinishSequence \/ Leave \/ FastForward
    PROVE  TypeInv'
<1> USE RunnerTyped
<1>1. CASE SavePlan
  BY <1>1 DEF SavePlan, TypeInv, TypeOK, Runner, Pc, Named, Coordinating
<1>2. CASE SaveRun
  BY <1>2 DEF SaveRun, TypeInv, TypeOK, Runner, Pc, Named, Coordinating
<1>3. CASE SaveFailure
  <2>1. StepTyped
    BY <1>3, ExitsTyped DEF SaveFailure, TypeInv, TypeOK, StepTyped, Forest
  <2> QED BY <1>3, <2>1, StepKeepsType DEF SaveFailure, TypeInv, TypeOK
<1>4. CASE SaveBatch
  BY <1>4 DEF SaveBatch, TypeInv, TypeOK, Runner, Pc, Named, Coordinating
<1>5. CASE CheckBase
  <2>1. CASE feature = runner.base
    BY <1>5, <2>1 DEF CheckBase, TypeInv, TypeOK, Runner, Pc, Named, Coordinating
  <2>2. CASE feature # runner.base
    <3>1. StepTyped
      BY <1>5, <2>2, ExitsTyped DEF CheckBase, TypeInv, TypeOK, StepTyped, Forest
    <3> QED BY <1>5, <3>1, StepKeepsType DEF CheckBase, TypeInv, TypeOK
  <2> QED BY <2>1, <2>2
<1>6. CASE FinishRun
  <2>1. [runner.my EXCEPT !.status = "completed"] \in Sequence
    BY DEF Sequence, Status
  <2>2. /\ runner' \in Runner /\ runner'.pc = "close" /\ runner'.tree = runner.tree
        /\ runner'.my.items = runner.my.items
    BY <1>6, <2>1 DEF FinishRun, Runner, Pc, Sequence
  <2>3. StepTyped
    BY <1>6, <2>2 DEF FinishRun, TypeInv, TypeOK, StepTyped, Named, Coordinating, Forest
  <2> QED BY <1>6, <2>3, StepKeepsType DEF FinishRun, TypeInv, TypeOK
<1>7. CASE FinishSequence
  <2>1. StepTyped
    BY <1>7, ExitsTyped DEF FinishSequence, TypeInv, TypeOK, StepTyped, Named, Forest
  <2> QED BY <1>7, <2>1, StepKeepsType DEF FinishSequence, TypeInv, TypeOK
<1>8. CASE Leave
  <2>1. Named(NoSequence)
    BY DEF Named, NoSequence, NewSequence, Untouched
  <2>2. StepTyped
    BY <1>8, <2>1, ItemsTyped DEF Leave, TypeInv, TypeOK, StepTyped, Named, Coordinating, Idle,
                             Forest
  <2> QED BY <1>8, <2>2, StepKeepsType DEF Leave, TypeInv, TypeOK
<1>9. CASE FastForward
  <2>1. CASE feature \subseteq Mine.main.has
    <3>1. feature' \subseteq Commits
      BY <1>9, <2>1 DEF FastForward, Coordinator, Coordinating
    <3>2. StepTyped
      BY <1>9, <2>1 DEF FastForward, TypeInv, TypeOK, StepTyped, Runner, Pc, Named, Coordinating,
                        Forest
    <3> QED BY <1>9, <3>1, <3>2, StepKeepsType DEF FastForward, TypeInv, TypeOK
  <2>2. CASE ~(feature \subseteq Mine.main.has)
    <3>1. StepTyped
      BY <1>9, <2>2, ExitsTyped DEF FastForward, TypeInv, TypeOK, StepTyped, Forest
    <3> QED BY <1>9, <2>2, <3>1, StepKeepsType DEF FastForward, TypeInv, TypeOK
  <2> QED BY <2>1, <2>2
<1> QED BY <1>1, <1>2, <1>3, <1>4, <1>5, <1>6, <1>7, <1>8, <1>9

LEMMA LaneEndsTyped ==
    ASSUME TypeInv, NEW l \in Lanes, LanePasses(l) \/ LaneFails(l)
    PROVE  TypeInv'
<1>1. /\ runner.tree \in Trees /\ runner.tree # 0 /\ runner.pc = "work"
      /\ tree \in Forest
      /\ tree[runner.tree].lane[l].has \cup {l} \in SUBSET Commits
  BY RunnerTyped DEF LanePasses, LaneFails, Coordinating, Worktree, TypeInv, TypeOK, Forest, Commits
<1>2. /\ runner.work \ {l} \in SUBSET Lanes
      /\ runner.good \cup {l} \in SUBSET Lanes
      /\ runner.bad \cup {l} \in SUBSET Lanes
  BY RunnerTyped
<1>3. \/ runner' = [runner EXCEPT !.work = @ \ {l}, !.good = @ \cup {l}]
      \/ runner' = [runner EXCEPT !.work = @ \ {l}, !.bad = @ \cup {l}]
  BY DEF LanePasses, LaneFails
<1>4. /\ runner' \in Runner /\ runner'.my = runner.my /\ runner'.tree = runner.tree
      /\ runner'.pc = "work"
  BY <1>1, <1>2, <1>3, RunnerTyped DEF Runner
<1>5. tree' \in Forest
  <2>1. CASE LanePasses(l)
    <3>1. tree' = [tree EXCEPT ![runner.tree].lane[l] =
                     [state |-> "clean", has |-> tree[runner.tree].lane[l].has \cup {l}]]
      BY <1>1, <2>1 DEF LanePasses, Forest
    <3> QED BY <1>1, <3>1, LaneTyped
  <2>2. CASE LaneFails(l)
    <3>1. PICK state \in {"clean", "dirty"} :
              tree' = [tree EXCEPT ![runner.tree].lane[l].state = state]
      BY <2>2 DEF LaneFails
    <3> QED BY <1>1, <3>1, LaneTyped
  <2> QED BY <2>1, <2>2
<1>6. StepTyped
  BY <1>1, <1>4, <1>5, RunnerTyped DEF LanePasses, LaneFails, TypeInv, TypeOK, StepTyped
<1> QED BY <1>6, StepKeepsType DEF LanePasses, LaneFails, TypeInv, TypeOK

LEMMA BatchTyped ==
    ASSUME TypeInv,
           StartBatch \/ StartFails \/ SaveOutcomes
    PROVE  TypeInv'
<1> USE RunnerTyped
<1>1. CASE StartBatch
  <2> DEFINE lanes == Ready \ Reused
             my == Marked(runner.my, lanes, Working(runner.tree))
  <2>1. my \in Sequence /\ Named(my)
    BY ItemsTyped, MarkedNamed DEF Working
  <2>2. Reused \in SUBSET Lanes /\ lanes \in SUBSET Lanes
    BY DEF Reused, Ready, Remaining
  <2>3. tree' \in Forest
    BY <1>1, BranchedTyped DEF StartBatch, Coordinating
  <2> HIDE DEF my
  <2>4. /\ runner' = [runner EXCEPT !.pc = "work", !.work = lanes, !.good = Reused, !.bad = {},
                                    !.my = my]
        /\ runner.pc = "batch"
    BY <1>1 DEF StartBatch, my
  <2> HIDE DEF lanes
  <2>5. runner' \in Runner /\ runner'.my = my /\ runner'.tree = runner.tree /\ runner'.pc = "work"
    BY <2>1, <2>2, <2>4 DEF Runner, Pc
  <2>6. StepTyped
    BY <1>1, <2>1, <2>3, <2>4, <2>5 DEF StartBatch, TypeInv, TypeOK, StepTyped, Coordinating
  <2> QED BY <1>1, <2>6, StepKeepsType DEF StartBatch, TypeInv, TypeOK
<1>2. CASE StartFails
  <2>1. PICK l \in Ready \ Reused :
            LET lanes == {k \in Ready \ Reused : k < l}
            IN  /\ Mine.lane[l].state = "none"
                /\ tree' = WithWorktrees(lanes)
                /\ Exits([runner EXCEPT !.my = Marked(@, lanes, Working(runner.tree))])
    BY <1>2 DEF StartFails
  <2> DEFINE lanes == {k \in Ready \ Reused : k < l}
             my == Marked(runner.my, lanes, Working(runner.tree))
             new == [runner EXCEPT !.my = my]
  <2>2. my \in Sequence /\ Named(my)
    BY ItemsTyped, MarkedNamed DEF Working
  <2>3. tree' \in Forest
    BY <1>2, <2>1, BranchedTyped DEF StartFails, Coordinating
  <2>4. Exits(new)
    BY <2>1
  <2> HIDE DEF my
  <2>5. new \in Runner /\ new.tree = runner.tree /\ new.my = my
    BY <2>2 DEF Runner
  <2> HIDE DEF new
  <2>6. StepTyped
    BY <1>2, <2>2, <2>3, <2>4, <2>5, ExitsTyped DEF StartFails, TypeInv, TypeOK, StepTyped
  <2> QED BY <1>2, <2>6, StepKeepsType DEF StartFails, TypeInv, TypeOK
<1>3. CASE SaveOutcomes
  <2> DEFINE waiting == Marked(runner.my, runner.good, Waiting(runner.tree))
             my == Marked(waiting, runner.bad, Failed(runner.tree))
  <2>1. waiting \in Sequence /\ Named(waiting)
    BY ItemsTyped, MarkedNamed DEF Waiting
  <2> HIDE DEF waiting
  <2>2. my \in Sequence /\ Named(my)
    BY <2>1, ItemsTyped, MarkedNamed DEF Failed
  <2> HIDE DEF my
  <2>3. /\ seq' = my
        /\ runner' = [runner EXCEPT !.my = my,
                                    !.pc = IF runner.bad = {} THEN "merge" ELSE "failure"]
        /\ runner.tree # 0
    BY <1>3 DEF SaveOutcomes, my, waiting, TypeInv, Coordinating
  <2>4. runner' \in Runner /\ runner'.my = my /\ runner'.tree = runner.tree
        /\ runner'.pc \in {"merge", "failure"}
    BY <2>2, <2>3 DEF Runner, Pc
  <2>5. StepTyped
    BY <1>3, <2>2, <2>3, <2>4 DEF SaveOutcomes, TypeInv, TypeOK, StepTyped, Forest
  <2> QED BY <1>3, <2>5, StepKeepsType DEF SaveOutcomes, TypeInv, TypeOK
<1> QED BY <1>1, <1>2, <1>3

LEMMA MergeTyped ==
    ASSUME TypeInv, MergeLane \/ MergeConflicts
    PROVE  TypeInv'
<1> DEFINE l == Min(runner.good)
           t == runner.tree
<1>1. /\ l \in Lanes /\ t \in Trees /\ t # 0 /\ runner.pc = "merge"
      /\ tree \in Forest
  BY RunnerTyped, MinOfLanes DEF MergeLane, MergeConflicts, Coordinating, TypeInv, TypeOK, Forest
<1>2. tree[t].lane[l] \in Worktree /\ tree[t].main \in Coordinator
  BY <1>1 DEF Forest
<1> HIDE DEF l
<1>3. CASE MergeLane
  <2> DEFINE my == Marked(runner.my, {l}, Integrated(t))
  <2>1. my \in Sequence /\ Named(my)
    BY RunnerTyped, ItemsTyped, MarkedNamed DEF Integrated
  <2>2. runner' = [runner EXCEPT !.good = @ \ {l}, !.my = my]
    BY <1>3 DEF MergeLane, l
  <2> HIDE DEF my
  <2>3. /\ runner' \in Runner /\ runner'.my = my /\ runner'.tree = runner.tree
        /\ runner'.pc = "merge"
    BY <1>1, <2>1, <2>2, RunnerTyped DEF Runner
  <2>4. tree' = [tree EXCEPT ![t].main.has = @ \cup tree[t].lane[l].has]
    BY <1>3 DEF MergeLane, l
  <2>5. tree' \in Forest
    BY <1>1, <1>2, <2>4 DEF Forest, Coordinator, Worktree
  <2>6. StepTyped
    BY <1>1, <1>3, <2>1, <2>3, <2>5, RunnerTyped DEF MergeLane, TypeInv, TypeOK, StepTyped
  <2> QED BY <1>3, <2>6, StepKeepsType DEF MergeLane, TypeInv, TypeOK
<1>4. CASE MergeConflicts
  <2> DEFINE new == [runner EXCEPT !.my.items[l].merge = "integrating"]
  <2>1. /\ new.my.status = runner.my.status
        /\ new.my.items = [runner.my.items EXCEPT ![l].merge = "integrating"]
        /\ new = [runner EXCEPT !.my = [status |-> runner.my.status, items |-> new.my.items]]
        /\ new.tree = runner.tree
    BY <1>1, RunnerTyped DEF Runner, Sequence
  <2>2. new.my.items \in [Lanes -> Item]
    BY <1>1, <2>1, RunnerTyped DEF Sequence, Item, Integration
  <2>3. Named(new.my)
    BY <1>1, <2>1, RunnerTyped DEF Named, Sequence, Item
  <2>4. [status |-> runner.my.status, items |-> new.my.items] \in Sequence
    BY <2>2, RunnerTyped DEF Sequence
  <2>5. Exits(new) /\ tree' = [tree EXCEPT ![t].main.conflict = l]
    BY <1>4 DEF MergeConflicts, l
  <2> HIDE DEF new
  <2>6. new \in Runner
    BY <2>1, <2>4, RunnerTyped DEF Runner
  <2>7. tree' \in Forest
    BY <1>1, <1>2, <2>5 DEF Forest, Coordinator
  <2>8. StepTyped
    BY <1>4, <2>1, <2>3, <2>5, <2>6, <2>7, ExitsTyped, RunnerTyped
       DEF MergeConflicts, TypeInv, TypeOK, StepTyped
  <2> QED BY <1>1, <1>4, <2>8, StepKeepsType DEF MergeConflicts, TypeInv, TypeOK, l
<1> QED BY <1>3, <1>4

LEMMA SurroundingsTyped ==
    ASSUME TypeInv,
           \/ Crash \/ Reconcile \/ Edit
           \/ \E t \in Trees : TidyCoordinator(t) \/ \E l \in Lanes : TidyLane(t, l)
    PROVE  TypeInv'
<1>0. tree \in Forest
  BY DEF TypeInv, TypeOK, Forest
<1>1. CASE Crash
  <2>1. PICK left \in SUBSET runner.work :
          tree' = IF runner.tree = 0 THEN tree
                  ELSE [tree EXCEPT ![runner.tree].lane =
                           [l \in Lanes |-> IF l \in left THEN [@[l] EXCEPT !.state = "dirty"]
                                                          ELSE @[l]]]
    BY <1>1 DEF Crash
  <2>2. tree' \in Forest
    <3>1. CASE runner.tree = 0
      BY <1>0, <2>1, <3>1
    <3>2. CASE runner.tree # 0
      <4>1. runner.tree \in Trees /\ tree[runner.tree].lane \in [Lanes -> Worktree]
        BY <1>0, <3>2, RunnerTyped DEF Forest
      <4>2. [l \in Lanes |-> IF l \in left
                             THEN [tree[runner.tree].lane[l] EXCEPT !.state = "dirty"]
                             ELSE tree[runner.tree].lane[l]] \in [Lanes -> Worktree]
        BY <4>1 DEF Worktree
      <4> QED BY <1>0, <2>1, <3>2, <4>1, <4>2 DEF Forest
    <3> QED BY <3>1, <3>2
  <2>3. Named(NoSequence)
    BY RunnerTyped DEF Named, NoSequence, NewSequence, Untouched
  <2>4. StepTyped
    BY <1>1, <2>2, <2>3, ItemsTyped, RunnerTyped
       DEF Crash, TypeInv, TypeOK, StepTyped, Named, Coordinating, Idle
  <2>5. crashes' \in 0 .. MaxCrashes
    BY <1>1, LanesAssumption DEF Crash, TypeInv, TypeOK
  <2> QED BY <1>1, <2>4, <2>5, StepKeepsType DEF Crash, TypeInv, TypeOK
<1>2. CASE Reconcile
  <2>1. PICK hit : seq' = [status |-> "interrupted",
                           items |-> [l \in Lanes |-> IF l \in hit
                                        THEN [seq.items[l] EXCEPT !.status = "interrupted"]
                                        ELSE seq.items[l]]]
    BY <1>2 DEF Reconcile
  <2>2. \A l \in Lanes : seq.items[l] \in Item
    BY DEF TypeInv, TypeOK, Sequence
  <2>3. \A l \in Lanes : /\ [seq.items[l] EXCEPT !.status = "interrupted"] \in Item
                         /\ [seq.items[l] EXCEPT !.status = "interrupted"].tree = seq.items[l].tree
    BY <2>2 DEF Item, LaneStatus
  <2>4. seq' \in Sequence
    BY <2>1, <2>2, <2>3 DEF Sequence, Status
  <2>5. Named(seq')
    BY <2>1, <2>3 DEF Named, TypeInv
  <2> QED BY <1>2, <2>4, <2>5 DEF Reconcile, TypeInv, TypeOK, Named
<1>3. CASE Edit
  <2>1. feature' \subseteq Commits /\ edits' \in 0 .. NumEdits
    BY <1>3, LanesAssumption DEF Edit, TypeInv, TypeOK, Commits, Edits
  <2> QED BY <1>3, <2>1 DEF Edit, TypeInv, TypeOK, Named
<1>4. ASSUME NEW t \in Trees, NEW l \in Lanes, TidyLane(t, l)
      PROVE  TypeInv'
  <2>1. tree' \in Forest
    BY <1>0, <1>4, LaneTyped DEF TidyLane
  <2> QED BY <1>4, <2>1 DEF TidyLane, TypeInv, TypeOK, Named, Forest
<1>5. ASSUME NEW t \in Trees, TidyCoordinator(t)
      PROVE  TypeInv'
  <2>1. PICK merged \in {{}, tree[t].lane[tree[t].main.conflict].has} :
            /\ tree[t].main.conflict # 0
            /\ tree' = [tree EXCEPT ![t].main = [has |-> @.has \cup merged, conflict |-> 0]]
    BY <1>5 DEF TidyCoordinator
  <2>2. tree[t].main \in Coordinator /\ tree[t].lane \in [Lanes -> Worktree]
    BY <1>0 DEF Forest
  <2>3. merged \subseteq Commits
    BY <2>1, <2>2 DEF Coordinator, Worktree
  <2>4. [has |-> tree[t].main.has \cup merged, conflict |-> 0] \in Coordinator
    BY <2>2, <2>3 DEF Coordinator
  <2>5. tree' \in Forest
    BY <1>0, <2>1, <2>4 DEF Forest
  <2> QED BY <1>5, <2>5 DEF TidyCoordinator, TypeInv, TypeOK, Named, Forest
<1> QED BY <1>1, <1>2, <1>3, <1>4, <1>5

LEMMA InitTyped == Init => TypeInv
<1> SUFFICES ASSUME Init PROVE TypeInv
  OBVIOUS
<1>1. NoTree \in [lane : [Lanes -> Worktree], main : Coordinator]
  BY DEF NoTree, NoWorktree, Worktree, Coordinator
<1>2. Named(NoSequence)
  BY DEF Init, Named, NoSequence, NewSequence, Untouched
<1> QED BY <1>1, <1>2, ItemsTyped, LanesAssumption
       DEF Init, TypeInv, TypeOK, Idle, Coordinating, Named

LEMMA TypeInvHolds == Spec => []TypeInv
<1>1. ASSUME TypeInv, [Next]_vars PROVE TypeInv'
  <2>1. CASE UNCHANGED vars
    BY <1>1, <2>1 DEF vars, TypeInv, TypeOK, Named
  <2> QED BY <1>1, <2>1, BeginTyped, OpenTyped, SavesTyped, BatchTyped, LaneEndsTyped, MergeTyped,
             SurroundingsTyped DEF Next, RunStep
<1> QED BY <1>1, InitTyped, PTL DEF Spec

\* Every record, worktree and branch keeps its type, whatever lanes do and whenever a
\* run dies or the user tidies up.
THEOREM LanesTypeCorrect == Spec => []TypeOK
BY TypeInvHolds, PTL DEF TypeInv

-----------------------------------------------------------------------------
(* What worktrees and branches hold.                                         *)

\* What a step may do to the worktrees that were created before it: branches grow,
\* and a worktree stays.
Grows ==
    /\ trees' >= trees
    /\ \A t \in Trees \cap 1 .. trees :
          /\ tree[t].main.has \subseteq tree'[t].main.has
          /\ \A l \in Lanes : tree[t].lane[l].state # "none" =>
                /\ tree'[t].lane[l].state # "none"
                /\ tree[t].lane[l].has \subseteq tree'[t].lane[l].has

LEMMA OpenGrows == ASSUME TypeInv, OpenFresh PROVE Grows
<1>1. trees' = trees + 1 /\ trees' \in Trees /\ tree \in Forest
  BY LanesAssumption DEF OpenFresh, TypeInv, TypeOK, Trees, Forest
<1>2. tree' = [tree EXCEPT ![trees'].main.has = feature]
  BY DEF OpenFresh
<1>3. \A t \in Trees \cap 1 .. trees : tree'[t] = tree[t]
  BY <1>1, <1>2, RunnerTyped DEF Forest
<1> QED BY <1>1, <1>3, RunnerTyped DEF Grows

LEMMA BranchingGrows ==
    ASSUME TypeInv, Coordinating(runner.pc), NEW lanes, tree' = WithWorktrees(lanes),
           trees' = trees
    PROVE  /\ Grows
           /\ \A t \in Trees : tree'[t].main = tree[t].main
           /\ \A l \in Lanes \cap lanes : tree'[runner.tree].lane[l].state # "none"
           /\ \A t \in Trees, l \in Lanes :
                 \/ tree'[t].lane[l] = tree[t].lane[l]
                 \/ /\ t = runner.tree /\ l \in lanes /\ tree[t].lane[l].state = "none"
                    /\ tree'[t].lane[l] = [state |-> "clean", has |-> tree[t].main.has]
<1>1. runner.tree \in Trees /\ tree \in Forest
  BY RunnerTyped DEF TypeInv, TypeOK, Forest
<1>2. /\ \A t \in Trees : tree'[t].main = tree[t].main
      /\ \A t \in Trees \ {runner.tree} : tree'[t] = tree[t]
      /\ \A l \in Lanes : tree'[runner.tree].lane[l] =
            IF l \in lanes /\ tree[runner.tree].lane[l].state = "none"
            THEN [state |-> "clean", has |-> tree[runner.tree].main.has]
            ELSE tree[runner.tree].lane[l]
  BY <1>1 DEF WithWorktrees, Forest
<1>3. \A l \in Lanes \cap lanes : tree'[runner.tree].lane[l].state # "none"
  BY <1>2
<1>4. Grows
  <2>1. ASSUME NEW t \in Trees, NEW l \in Lanes
        PROVE  tree[t].lane[l].state # "none" => tree'[t].lane[l] = tree[t].lane[l]
    BY <1>2
  <2> QED BY <1>2, <2>1, RunnerTyped DEF Grows
<1>5. ASSUME NEW t \in Trees, NEW l \in Lanes
      PROVE  \/ tree'[t].lane[l] = tree[t].lane[l]
             \/ /\ t = runner.tree /\ l \in lanes /\ tree[t].lane[l].state = "none"
                /\ tree'[t].lane[l] = [state |-> "clean", has |-> tree[t].main.has]
  BY <1>2
<1> QED BY <1>2, <1>3, <1>4, <1>5

\* A step of the run that does not touch the worktrees.
LEMMA SameGrows ==
    ASSUME TypeInv, UNCHANGED <<tree, trees>>
    PROVE  Grows
BY RunnerTyped DEF Grows

\* A step that works on one worktree of a lane or on one coordinator.
LEMMA OneGrows ==
    ASSUME TypeInv, trees' = trees, NEW t \in Trees, NEW new,
           tree' = [tree EXCEPT ![t] = new],
           tree[t].main.has \subseteq new.main.has,
           \A l \in Lanes : tree[t].lane[l].state # "none" =>
              new.lane[l].state # "none" /\ tree[t].lane[l].has \subseteq new.lane[l].has
    PROVE  Grows
<1>1. tree \in Forest
  BY DEF TypeInv, TypeOK, Forest
<1>2. tree'[t] = new /\ \A u \in Trees \ {t} : tree'[u] = tree[u]
  BY <1>1 DEF Forest
<1> QED BY <1>2, RunnerTyped DEF Grows

-----------------------------------------------------------------------------
(* The invariant. The records and the copy of a run are right about what the *)
(* branches hold, and what is in a branch is there with all it depends on.   *)

Recorded(items, forest, created) ==
    \A l \in Lanes :
        LET i == items[l]
        IN  /\ i.merge = "integrated" =>
                  i.tree \in 1 .. created /\ l \in forest[i.tree].main.has
            /\ i.merge = "waiting-to-merge" =>
                  /\ i.tree \in 1 .. created
                  /\ forest[i.tree].lane[l].state # "none"
                  /\ l \in forest[i.tree].lane[l].has

\* A run has one coordinator. The lanes of its batch have worktrees in it, and those
\* that passed are committed there.
OneCoordinator ==
    /\ Coordinating(runner.pc) => \A l \in Lanes : runner.my.items[l].tree \in {0, runner.tree}
    /\ runner.pc = "open" /\ ~runner.resume => \A l \in Lanes : runner.my.items[l] = Untouched

BatchInv ==
    /\ runner.pc # "work" => runner.work = {}
    /\ \A l \in runner.work : tree[runner.tree].lane[l].state # "none"
    /\ runner.pc \in {"work", "merge"} =>
          \A l \in runner.good : /\ tree[runner.tree].lane[l].state # "none"
                                 /\ l \in tree[runner.tree].lane[l].has

Advancing ==
    /\ runner.pc = "advance" => Completed(runner.my) = Lanes
    /\ runner.pc = "finish" => Lanes \subseteq feature

Whole(commits) == \A l \in Lanes \cap commits : plan[l] \subseteq commits

BranchesWhole ==
    \A t \in Trees :
        /\ Whole(tree[t].main.has)
        /\ \A l \in Lanes : /\ Whole(tree[t].lane[l].has)
                            /\ tree[t].lane[l].state # "none" => plan[l] \subseteq tree[t].lane[l].has

LanesInv ==
    /\ Recorded(seq.items, tree, trees)
    /\ Recorded(runner.my.items, tree, trees)
    /\ OneCoordinator
    /\ BatchInv
    /\ Advancing
    /\ BranchesWhole
    /\ FeatureWhole

\* What is recorded stays right while branches grow.
LEMMA RecordedStays ==
    ASSUME TypeInv, Grows, trees' \in 0 .. NumTrees, NEW items, Recorded(items, tree, trees)
    PROVE  Recorded(items, tree', trees')
<1> SUFFICES ASSUME NEW l \in Lanes
             PROVE  LET i == items[l]
                    IN  /\ i.merge = "integrated" =>
                              i.tree \in 1 .. trees' /\ l \in tree'[i.tree].main.has
                        /\ i.merge = "waiting-to-merge" =>
                              /\ i.tree \in 1 .. trees'
                              /\ tree'[i.tree].lane[l].state # "none"
                              /\ l \in tree'[i.tree].lane[l].has
  BY DEF Recorded
<1>1. \A t \in 1 .. trees : t \in Trees /\ t \in 1 .. trees'
  BY LanesAssumption, RunnerTyped DEF TypeInv, TypeOK, Trees, Grows
<1> QED BY <1>1 DEF Recorded, Grows

LEMMA FreshRecorded ==
    ASSUME NEW forest, NEW created
    PROVE  /\ Recorded(NewSequence.items, forest, created)
           /\ Recorded(NoSequence.items, forest, created)
BY DEF Recorded, NewSequence, NoSequence, Untouched

\* A run that ends has nothing left to keep but what it has recorded.
LEMMA ExitsKeeps ==
    ASSUME TypeInv, NEW new \in Runner, Exits(new),
           Recorded(new.my.items, tree', trees'),
           new.work = {}
    PROVE  /\ Recorded(runner'.my.items, tree', trees')
           /\ OneCoordinator' /\ BatchInv' /\ Advancing'
<1>1. CASE runner' = Idle
  BY <1>1, FreshRecorded DEF Idle, OneCoordinator, BatchInv, Advancing, Coordinating
<1>2. CASE runner' = [new EXCEPT !.pc = "leave"]
  <2>1. /\ runner'.pc = "leave" /\ runner'.my = new.my /\ runner'.work = new.work
        /\ runner'.tree = new.tree
    BY <1>2 DEF Runner
  <2> QED BY <2>1 DEF OneCoordinator, BatchInv, Advancing, Coordinating
<1> QED BY <1>1, <1>2 DEF Exits

\* The branches do not change in a step that only records.
LEMMA QuietKeeps ==
    ASSUME LanesInv, UNCHANGED <<plan, feature, tree, trees, edits>>,
           run' = "completed" => run = "completed" \/ Lanes \subseteq feature
    PROVE  /\ BranchesWhole' /\ FeatureWhole'
           /\ Recorded(seq.items, tree', trees') /\ Recorded(runner.my.items, tree', trees')
BY DEF LanesInv, BranchesWhole, Whole, FeatureWhole

LEMMA BeginKeeps == ASSUME TypeInv, LanesInv, Begin PROVE LanesInv'
<1>1. PICK resume \in BOOLEAN, supervised \in Supervision :
          LET my == IF resume THEN seq ELSE NewSequence
          IN  /\ runner' = [Idle EXCEPT !.pc = "open", !.resume = resume,
                                        !.supervised = supervised, !.my = my]
              /\ seq' = IF supervised THEN my ELSE seq
  BY DEF Begin
<1>2. /\ runner'.pc = "open" /\ runner'.resume = resume /\ runner'.work = {}
      /\ runner'.my = IF resume THEN seq ELSE NewSequence
  BY <1>1 DEF Idle
<1>3. BranchesWhole' /\ FeatureWhole'
  BY QuietKeeps DEF Begin
<1>4. Recorded(runner'.my.items, tree', trees') /\ Recorded(seq'.items, tree', trees')
  BY <1>1, <1>2, FreshRecorded DEF LanesInv, Begin
<1>5. OneCoordinator' /\ BatchInv' /\ Advancing'
  BY <1>2 DEF OneCoordinator, BatchInv, Advancing, Coordinating, NewSequence
<1> QED BY <1>3, <1>4, <1>5 DEF LanesInv

LEMMA OpenKeeps ==
    ASSUME TypeInv, LanesInv, OpenFresh \/ OpenRetained \/ OpenRefused, TypeInv'
    PROVE  LanesInv'
<1>0. tree \in Forest /\ runner.my.items \in [Lanes -> Item] /\ runner \in Runner
  BY RunnerTyped DEF TypeInv, TypeOK, Forest, Sequence
<1>1. CASE OpenFresh
  <2>1. /\ trees' = trees + 1 /\ trees' \in Trees
        /\ tree' = [tree EXCEPT ![trees'].main.has = feature]
        /\ runner' = [runner EXCEPT !.pc = "plan", !.tree = trees', !.base = feature]
    BY <1>1, LanesAssumption DEF OpenFresh, TypeInv, TypeOK, Trees
  <2>2. /\ runner'.pc = "plan" /\ runner'.tree = trees' /\ runner'.my = runner.my
        /\ runner'.work = runner.work
    BY <1>0, <2>1 DEF Runner
  <2>3. Recorded(seq'.items, tree', trees') /\ Recorded(runner'.my.items, tree', trees')
    BY <1>1, <2>1, <2>2, OpenGrows, RecordedStays DEF LanesInv, OpenFresh, TypeInv, TypeOK
  <2>4. OneCoordinator'
    BY <1>1, <2>2 DEF LanesInv, OneCoordinator, OpenFresh, Untouched
  <2>5. runner.work = {}
    BY <1>1 DEF LanesInv, BatchInv, OpenFresh
  <2>6. Whole(feature)
    BY LanesAssumption, <1>1 DEF LanesInv, FeatureWhole, Whole, TypeInv, TypeOK
  <2>7. BranchesWhole'
    BY <1>0, <1>1, <2>1, <2>6 DEF LanesInv, BranchesWhole, Whole, OpenFresh, Forest
  <2> QED
    BY <1>1, <2>2, <2>3, <2>4, <2>5, <2>7
       DEF LanesInv, BatchInv, Advancing, FeatureWhole, OpenFresh
<1>2. CASE OpenRetained
  <2>1. PICK t \in Retained(runner.my) :
            runner' = [runner EXCEPT !.pc = "plan", !.tree = t, !.base = feature,
                                     !.my.status = "running"]
    BY <1>2 DEF OpenRetained
  <2>2. \A l \in Lanes : runner.my.items[l].tree \in {0, t}
    BY <2>1 DEF Retained
  <2>3. /\ runner'.my.items = runner.my.items /\ runner'.tree = t /\ runner'.pc = "plan"
        /\ runner'.work = runner.work
    BY <1>0, <2>1 DEF Runner, Sequence
  <2> QED
    BY <1>2, <2>2, <2>3, QuietKeeps
       DEF LanesInv, OneCoordinator, BatchInv, Advancing, OpenRetained
<1>3. CASE OpenRefused
  BY <1>0, <1>3, QuietKeeps, ExitsKeeps DEF LanesInv, OpenRefused, BatchInv
<1> QED BY <1>1, <1>2, <1>3

LEMMA SavesKeep ==
    ASSUME TypeInv, LanesInv,
           SavePlan \/ SaveRun \/ SaveFailure \/ SaveBatch \/ FinishRun \/ FinishSequence \/ Leave
    PROVE  LanesInv'
<1> USE RunnerTyped
<1>1. CASE SavePlan
  <2>1. /\ runner'.my = runner.my /\ runner'.tree = runner.tree /\ runner'.pc = "record"
        /\ runner'.work = runner.work
    BY <1>1 DEF SavePlan, Runner
  <2> QED BY <1>1, <2>1, QuietKeeps
             DEF LanesInv, OneCoordinator, BatchInv, Advancing, SavePlan, Coordinating
<1>2. CASE SaveRun
  <2>1. /\ runner'.my = runner.my /\ runner'.tree = runner.tree /\ runner'.pc = "batch"
        /\ runner'.work = runner.work
    BY <1>2 DEF SaveRun, Runner
  <2> QED BY <1>2, <2>1, QuietKeeps
             DEF LanesInv, OneCoordinator, BatchInv, Advancing, SaveRun, Coordinating
<1>3. CASE SaveFailure
  BY <1>3, QuietKeeps, ExitsKeeps DEF LanesInv, BatchInv, SaveFailure
<1>4. CASE SaveBatch
  <2>1. /\ runner'.my = runner.my /\ runner'.tree = runner.tree /\ runner'.pc = "batch"
        /\ runner'.work = runner.work
    BY <1>4 DEF SaveBatch, Runner
  <2> QED BY <1>4, <2>1, QuietKeeps
             DEF LanesInv, OneCoordinator, BatchInv, Advancing, SaveBatch, Coordinating
<1>5. CASE FinishRun
  <2>1. /\ runner'.my.items = runner.my.items /\ runner'.tree = runner.tree
        /\ runner'.pc = "close" /\ runner'.work = runner.work
    BY <1>5 DEF FinishRun, Runner, Sequence
  <2> QED BY <1>5, <2>1, QuietKeeps
             DEF LanesInv, OneCoordinator, BatchInv, Advancing, FinishRun, Coordinating
<1>6. CASE FinishSequence
  BY <1>6, QuietKeeps, ExitsKeeps DEF LanesInv, BatchInv, FinishSequence
<1>7. CASE Leave
  <2>1. OneCoordinator' /\ BatchInv' /\ Advancing' /\ Recorded(runner'.my.items, tree', trees')
    BY <1>7, FreshRecorded DEF Leave, Idle, OneCoordinator, BatchInv, Advancing, Coordinating
  <2> QED BY <1>7, <2>1, QuietKeeps DEF LanesInv, Leave
<1> QED BY <1>1, <1>2, <1>3, <1>4, <1>5, <1>6, <1>7

\* When nothing remains, all lanes are in the coordinator, and the feature branch is
\* moved there or left alone.
LEMMA ForwardKeeps ==
    ASSUME TypeInv, LanesInv, CheckBase \/ FastForward
    PROVE  LanesInv'
<1> USE RunnerTyped
<1>1. CASE CheckBase
  <2>1. CASE feature = runner.base
    <3>1. /\ runner'.my = runner.my /\ runner'.tree = runner.tree /\ runner'.pc = "advance"
          /\ runner'.work = runner.work
      BY <1>1, <2>1 DEF CheckBase, Runner
    <3>2. Completed(runner'.my) = Lanes
      BY <1>1, <3>1 DEF CheckBase, Remaining, Completed
    <3> QED BY <1>1, <3>1, <3>2, QuietKeeps
               DEF LanesInv, OneCoordinator, BatchInv, Advancing, CheckBase, Coordinating
  <2>2. CASE feature # runner.base
    BY <1>1, <2>2, QuietKeeps, ExitsKeeps DEF LanesInv, BatchInv, CheckBase
  <2> QED BY <2>1, <2>2
<1>2. CASE FastForward
  <2>1. CASE feature \subseteq Mine.main.has
    <3>1. /\ runner' = [runner EXCEPT !.pc = "finish"] /\ feature' = Mine.main.has
          /\ runner.pc = "advance"
      BY <1>2, <2>1 DEF FastForward
    <3>2. /\ runner'.my = runner.my /\ runner'.tree = runner.tree /\ runner'.pc = "finish"
          /\ runner'.work = runner.work
      BY <3>1 DEF Runner
    <3>3. Lanes \subseteq Mine.main.has
      <4> SUFFICES ASSUME NEW l \in Lanes PROVE l \in Mine.main.has
        OBVIOUS
      <4>1. runner.my.items[l].merge = "integrated"
        BY <3>1 DEF LanesInv, Advancing, Completed
      <4>2. runner.my.items[l].tree \in 1 .. trees /\ l \in tree[runner.my.items[l].tree].main.has
        BY <4>1 DEF LanesInv, Recorded
      <4>3. runner.my.items[l].tree = runner.tree
        BY <3>1, <4>2 DEF LanesInv, OneCoordinator, Coordinating
      <4> QED BY <4>2, <4>3
    <3>4. FeatureWhole'
      BY <1>2, <2>1, <3>1, <3>3 DEF LanesInv, FeatureWhole, FastForward
    <3> QED BY <1>2, <3>1, <3>2, <3>3, <3>4
               DEF LanesInv, OneCoordinator, BatchInv, Advancing, FastForward, Coordinating,
                   BranchesWhole, Whole
  <2>2. CASE ~(feature \subseteq Mine.main.has)
    BY <1>2, <2>2, QuietKeeps, ExitsKeeps DEF LanesInv, BatchInv, FastForward
  <2> QED BY <2>1, <2>2
<1> QED BY <1>1, <1>2

\* A worktree that is created for a ready lane holds the lanes it depends on.
LEMMA ReadyBranches ==
    ASSUME TypeInv, LanesInv, Coordinating(runner.pc), NEW lanes \in SUBSET Ready,
           tree' = WithWorktrees(lanes), UNCHANGED <<plan, trees>>
    PROVE  BranchesWhole'
<1>1. ASSUME NEW l \in Ready PROVE plan[l] \subseteq tree[runner.tree].main.has
  <2> SUFFICES ASSUME NEW k \in plan[l] PROVE k \in tree[runner.tree].main.has
    OBVIOUS
  <2>1. k \in Lanes /\ runner.my.items[k].merge = "integrated"
    BY DEF Ready, Completed
  <2>2. runner.my.items[k].tree \in 1 .. trees /\ k \in tree[runner.my.items[k].tree].main.has
    BY <2>1 DEF LanesInv, Recorded
  <2>3. runner.my.items[k].tree = runner.tree
    BY <2>1, <2>2, RunnerTyped DEF LanesInv, OneCoordinator
  <2> QED BY <2>2, <2>3
<1>2. ASSUME NEW t \in Trees, NEW l \in Lanes
      PROVE  /\ Whole(tree'[t].lane[l].has)
             /\ tree'[t].lane[l].state # "none" => plan[l] \subseteq tree'[t].lane[l].has
  <2>1. CASE tree'[t].lane[l] = tree[t].lane[l]
    BY <2>1 DEF LanesInv, BranchesWhole, Whole
  <2>2. CASE /\ t = runner.tree /\ l \in lanes
             /\ tree'[t].lane[l] = [state |-> "clean", has |-> tree[t].main.has]
    BY <1>1, <2>2 DEF LanesInv, BranchesWhole, Whole
  <2> QED BY <2>1, <2>2, BranchingGrows
<1> QED BY <1>2, BranchingGrows DEF LanesInv, BranchesWhole, Whole

LEMMA BatchKeeps ==
    ASSUME TypeInv, LanesInv, StartBatch \/ StartFails, trees' \in 0 .. NumTrees
    PROVE  LanesInv'
<1> USE RunnerTyped
<1> DEFINE t == runner.tree
<1>0. /\ Coordinating(runner.pc) /\ t \in 1 .. trees /\ runner.pc = "batch" /\ trees' = trees
      /\ seq' = seq
  BY DEF StartBatch, StartFails, Coordinating, TypeInv
<1>1. /\ Reused \in SUBSET Lanes /\ Ready \in SUBSET Lanes
      /\ \A l \in Reused : runner.my.items[l].merge = "waiting-to-merge"
  BY DEF Reused, Ready, Remaining
<1>2. ASSUME NEW lanes \in SUBSET Ready, tree' = WithWorktrees(lanes)
      PROVE  LET my == Marked(runner.my, lanes, Working(t))
             IN  /\ my \in Sequence
                 /\ Recorded(seq.items, tree', trees') /\ Recorded(my.items, tree', trees')
                 /\ \A l \in Lanes : my.items[l].tree \in {0, t}
                 /\ BranchesWhole'
                 /\ \A l \in lanes : tree'[t].lane[l].state # "none"
  <2> DEFINE my == Marked(runner.my, lanes, Working(t))
  <2>1. Working(t) \in Item
    BY ItemsTyped
  <2>2. /\ my \in Sequence
        /\ \A l \in Lanes : my.items[l] = IF l \in lanes THEN Working(t) ELSE runner.my.items[l]
    BY <2>1, MarkedTyped
  <2> HIDE DEF my
  <2>3. /\ Recorded(seq.items, tree', trees')
        /\ Recorded(runner.my.items, tree', trees')
    BY <1>0, <1>2, BranchingGrows, RecordedStays DEF LanesInv
  <2>4. Recorded(my.items, tree', trees')
    BY <2>2, <2>3 DEF Recorded, Working
  <2>5. \A l \in Lanes : my.items[l].tree \in {0, t}
    BY <1>0, <2>2 DEF LanesInv, OneCoordinator, Working
  <2>6. BranchesWhole'
    BY <1>0, <1>2, ReadyBranches DEF StartBatch, StartFails
  <2>7. \A l \in lanes : tree'[t].lane[l].state # "none"
    BY <1>0, <1>1, <1>2, BranchingGrows
  <2> QED BY <2>2, <2>3, <2>4, <2>5, <2>6, <2>7 DEF my
<1>3. CASE StartBatch
  <2> DEFINE lanes == Ready \ Reused
             my == Marked(runner.my, lanes, Working(t))
  <2>1. /\ tree' = WithWorktrees(lanes)
        /\ runner' = [runner EXCEPT !.pc = "work", !.work = lanes, !.good = Reused, !.bad = {},
                                    !.my = my]
    BY <1>3 DEF StartBatch
  <2>2. lanes \in SUBSET Ready
    OBVIOUS
  <2> HIDE DEF my, lanes
  <2>3. /\ runner'.my = my /\ runner'.tree = t /\ runner'.pc = "work"
        /\ runner'.work = lanes /\ runner'.good = Reused
    BY <2>1 DEF Runner
  <2>4. ASSUME NEW l \in Reused
        PROVE  tree'[t].lane[l].state # "none" /\ l \in tree'[t].lane[l].has
    <3>1. l \in Lanes /\ runner.my.items[l].merge = "waiting-to-merge"
      BY <1>1
    <3>2. /\ runner.my.items[l].tree \in 1 .. trees
          /\ tree[runner.my.items[l].tree].lane[l].state # "none"
          /\ l \in tree[runner.my.items[l].tree].lane[l].has
      BY <3>1 DEF LanesInv, Recorded
    <3>3. runner.my.items[l].tree = t
      BY <1>0, <3>1, <3>2 DEF LanesInv, OneCoordinator
    <3>4. tree'[t].lane[l] = tree[t].lane[l]
      BY <1>0, <2>1, <3>1, <3>2, <3>3, BranchingGrows
    <3> QED BY <3>2, <3>3, <3>4
  <2>5. /\ Recorded(seq.items, tree', trees') /\ Recorded(my.items, tree', trees')
        /\ \A l \in Lanes : my.items[l].tree \in {0, t}
        /\ BranchesWhole'
        /\ \A l \in lanes : tree'[t].lane[l].state # "none"
    BY <1>2, <2>1, <2>2 DEF my
  <2> QED BY <1>0, <1>3, <2>3, <2>4, <2>5
             DEF LanesInv, OneCoordinator, BatchInv, Advancing, FeatureWhole, StartBatch
<1>4. CASE StartFails
  <2>1. PICK lanes \in SUBSET Ready :
            /\ tree' = WithWorktrees(lanes)
            /\ Exits([runner EXCEPT !.my = Marked(@, lanes, Working(t))])
    <3>1. PICK l \in Ready \ Reused :
              LET lanes == {k \in Ready \ Reused : k < l}
              IN  /\ tree' = WithWorktrees(lanes)
                  /\ Exits([runner EXCEPT !.my = Marked(@, lanes, Working(t))])
      BY <1>4 DEF StartFails
    <3> QED BY <3>1
  <2> DEFINE my == Marked(runner.my, lanes, Working(t))
             new == [runner EXCEPT !.my = my]
  <2>2. Exits(new)
    BY <2>1
  <2>3. /\ my \in Sequence
        /\ Recorded(seq.items, tree', trees') /\ Recorded(my.items, tree', trees')
        /\ BranchesWhole'
    BY <1>2, <2>1
  <2> HIDE DEF my
  <2>4. new \in Runner /\ new.my = my /\ new.work = runner.work
    BY <2>3 DEF Runner
  <2> HIDE DEF new
  <2>5. new.work = {}
    BY <1>0, <2>4 DEF LanesInv, BatchInv
  <2>6. /\ Recorded(runner'.my.items, tree', trees')
        /\ OneCoordinator' /\ BatchInv' /\ Advancing'
    BY <2>2, <2>3, <2>4, <2>5, ExitsKeeps
  <2> QED BY <1>0, <1>4, <2>3, <2>6 DEF LanesInv, FeatureWhole, StartFails
<1> QED BY <1>3, <1>4

LEMMA LaneEndsKeep ==
    ASSUME TypeInv, LanesInv, NEW l \in Lanes, LanePasses(l) \/ LaneFails(l)
    PROVE  LanesInv'
<1> DEFINE t == runner.tree
           old == tree[t].lane[l]
<1>1. /\ runner.pc = "work" /\ l \in runner.work /\ t \in Trees /\ t # 0 /\ trees' = trees
      /\ tree \in Forest /\ old \in Worktree /\ old.state # "none" /\ plan[l] \subseteq old.has
      /\ Whole(old.has)
  BY RunnerTyped DEF LanePasses, LaneFails, LanesInv, BatchInv, BranchesWhole, Coordinating, TypeInv,
                     TypeOK, Forest
<1>2. PICK new \in Worktree :
          /\ tree' = [tree EXCEPT ![t].lane[l] = new]
          /\ new.state # "none" /\ old.has \subseteq new.has /\ Whole(new.has)
          /\ LaneFails(l) \/ l \in new.has
  <2>1. CASE LanePasses(l)
    <3>1. tree' = [tree EXCEPT ![t].lane[l] = [state |-> "clean", has |-> old.has \cup {l}]]
      BY <1>1, <2>1 DEF LanePasses, Forest
    <3>2. [state |-> "clean", has |-> old.has \cup {l}] \in Worktree
      BY <1>1 DEF Worktree, Commits
    <3>3. Whole(old.has \cup {l})
      BY <1>1 DEF Whole
    <3> QED BY <3>1, <3>2, <3>3
  <2>2. CASE LaneFails(l)
    <3>1. PICK state \in {"clean", "dirty"} : tree' = [tree EXCEPT ![t].lane[l].state = state]
      BY <2>2 DEF LaneFails
    <3>2. tree' = [tree EXCEPT ![t].lane[l] = [old EXCEPT !.state = state]]
      BY <1>1, <3>1 DEF Forest
    <3>3. [old EXCEPT !.state = state] \in Worktree
      BY <1>1 DEF Worktree
    <3>4. [old EXCEPT !.state = state].has = old.has /\ [old EXCEPT !.state = state].state = state
      BY <1>1 DEF Worktree
    <3> QED BY <1>1, <2>2, <3>2, <3>3, <3>4
  <2> QED BY <2>1, <2>2
<1>3. /\ tree'[t].lane[l] = new
      /\ \A k \in Lanes \ {l} : tree'[t].lane[k] = tree[t].lane[k]
      /\ \A u \in Trees \ {t} : tree'[u] = tree[u]
      /\ tree'[t].main = tree[t].main
  BY <1>1, <1>2 DEF Forest
<1>4. Grows
  BY <1>1, <1>2, <1>3, RunnerTyped DEF Grows
<1>5. BranchesWhole'
  <2>0. plan' = plan
    BY DEF LanePasses, LaneFails
  <2>1. ASSUME NEW u \in Trees
        PROVE  Whole(tree'[u].main.has)
    BY <1>3 DEF LanesInv, BranchesWhole
  <2>2. ASSUME NEW u \in Trees, NEW k \in Lanes
        PROVE  /\ Whole(tree'[u].lane[k].has)
               /\ tree'[u].lane[k].state # "none" => plan[k] \subseteq tree'[u].lane[k].has
    <3>1. CASE u = t /\ k = l
      BY <1>1, <1>2, <1>3, <3>1
    <3>2. CASE ~(u = t /\ k = l)
      <4>1. tree'[u].lane[k] = tree[u].lane[k]
        BY <1>3, <3>2
      <4> QED BY <4>1 DEF LanesInv, BranchesWhole
    <3> QED BY <3>1, <3>2
  <2> QED BY <2>0, <2>1, <2>2 DEF BranchesWhole, Whole
<1>6. \/ /\ LaneFails(l)
         /\ runner' = [runner EXCEPT !.work = @ \ {l}, !.bad = @ \cup {l}]
      \/ /\ l \in new.has
         /\ runner' = [runner EXCEPT !.work = @ \ {l}, !.good = @ \cup {l}]
  BY <1>2 DEF LanePasses, LaneFails
<1>7. /\ runner'.my = runner.my /\ runner'.tree = t /\ runner'.pc = "work"
      /\ runner'.work = runner.work \ {l}
      /\ runner'.good \subseteq runner.good \cup {l}
      /\ l \in runner'.good \ runner.good => l \in new.has
  BY <1>1, <1>6, RunnerTyped DEF Runner
<1>8. BatchInv'
  <2>1. ASSUME NEW k \in runner'.work
        PROVE  tree'[t].lane[k].state # "none"
    BY <1>1, <1>2, <1>3, <1>7, RunnerTyped DEF LanesInv, BatchInv
  <2>2. ASSUME NEW k \in runner'.good
        PROVE  tree'[t].lane[k].state # "none" /\ k \in tree'[t].lane[k].has
    <3>1. CASE k = l
      <4>1. l \in new.has
        BY <1>1, <1>2, <1>7, <2>2, <3>1 DEF LanesInv, BatchInv
      <4> QED BY <1>2, <1>3, <3>1, <4>1
    <3>2. CASE k # l
      BY <1>1, <1>3, <1>7, <3>2, RunnerTyped DEF LanesInv, BatchInv
    <3> QED BY <3>1, <3>2
  <2> QED BY <1>7, <2>1, <2>2 DEF BatchInv
<1>9. /\ Recorded(seq.items, tree', trees') /\ Recorded(runner.my.items, tree', trees')
  BY <1>1, <1>4, RecordedStays DEF LanesInv, TypeInv, TypeOK
<1> QED
  BY <1>1, <1>5, <1>7, <1>8, <1>9
     DEF LanesInv, OneCoordinator, Advancing, FeatureWhole, Coordinating, LanePasses, LaneFails

LEMMA OutcomesKeep ==
    ASSUME TypeInv, LanesInv, SaveOutcomes
    PROVE  LanesInv'
<1> USE RunnerTyped
<1> DEFINE t == runner.tree
           waiting == Marked(runner.my, runner.good, Waiting(t))
           my == Marked(waiting, runner.bad, Failed(t))
<1>1. Waiting(t) \in Item /\ Failed(t) \in Item
  BY ItemsTyped
<1>2. /\ my \in Sequence
      /\ \A l \in Lanes : my.items[l] = IF l \in runner.bad THEN Failed(t)
                                        ELSE IF l \in runner.good THEN Waiting(t)
                                        ELSE runner.my.items[l]
  <2>1. /\ waiting \in Sequence
        /\ \A l \in Lanes : waiting.items[l] = IF l \in runner.good THEN Waiting(t)
                                               ELSE runner.my.items[l]
    BY <1>1, MarkedTyped
  <2> HIDE DEF waiting
  <2> QED BY <1>1, <2>1, MarkedTyped
<1> HIDE DEF my
<1>3. /\ runner' = [runner EXCEPT !.my = my,
                                  !.pc = IF runner.bad = {} THEN "merge" ELSE "failure"]
      /\ seq' = my /\ runner.pc = "work" /\ runner.work = {} /\ UNCHANGED <<tree, trees>>
      /\ t \in 1 .. trees
  BY DEF SaveOutcomes, my, TypeInv, Coordinating
<1>4. /\ runner'.my = my /\ runner'.tree = t /\ runner'.work = {} /\ runner'.good = runner.good
      /\ runner'.pc \in {"merge", "failure"}
  BY <1>3 DEF Runner
<1>5. Recorded(my.items, tree, trees)
  <2> SUFFICES ASSUME NEW l \in Lanes
               PROVE  LET i == my.items[l]
                      IN  /\ i.merge = "integrated" =>
                                i.tree \in 1 .. trees /\ l \in tree[i.tree].main.has
                          /\ i.merge = "waiting-to-merge" =>
                                /\ i.tree \in 1 .. trees
                                /\ tree[i.tree].lane[l].state # "none"
                                /\ l \in tree[i.tree].lane[l].has
    BY DEF Recorded
  <2>1. CASE l \in runner.bad
    BY <1>2, <2>1 DEF Failed
  <2>2. CASE l \in runner.good \ runner.bad
    BY <1>2, <1>3, <2>2 DEF Waiting, LanesInv, BatchInv
  <2>3. CASE l \notin runner.good \cup runner.bad
    BY <1>2, <2>3 DEF LanesInv, Recorded
  <2> QED BY <2>1, <2>2, <2>3
<1>6. OneCoordinator'
  BY <1>2, <1>3, <1>4 DEF LanesInv, OneCoordinator, Coordinating, Waiting, Failed
<1>7. BatchInv' /\ Advancing'
  BY <1>3, <1>4 DEF LanesInv, BatchInv, Advancing
<1> QED BY <1>3, <1>4, <1>5, <1>6, <1>7, QuietKeeps DEF LanesInv, SaveOutcomes

LEMMA MergeKeeps ==
    ASSUME TypeInv, LanesInv, MergeLane \/ MergeConflicts
    PROVE  LanesInv'
<1> USE RunnerTyped
<1> DEFINE l == Min(runner.good)
           t == runner.tree
<1>1. /\ l \in Lanes /\ l \in runner.good /\ t \in Trees /\ t # 0 /\ t \in 1 .. trees
      /\ runner.pc = "merge" /\ tree \in Forest /\ trees' = trees /\ runner.work = {}
  <2>1. l \in runner.good
    BY MinOfLanes DEF MergeLane, MergeConflicts
  <2>2. /\ runner.pc = "merge" /\ tree \in Forest /\ trees' = trees /\ runner.work = {}
    BY DEF MergeLane, MergeConflicts, TypeInv, TypeOK, Forest, LanesInv, BatchInv
  <2>3. t \in Trees /\ t # 0 /\ t \in 1 .. trees
    BY <2>2 DEF Coordinating
  <2> QED BY <2>1, <2>2, <2>3
<1>2. tree[t].lane[l].state # "none" /\ l \in tree[t].lane[l].has
  BY <1>1 DEF LanesInv, BatchInv
<1> HIDE DEF l
<1>3. CASE MergeLane
  <2> DEFINE my == Marked(runner.my, {l}, Integrated(t))
             main == [tree[t].main EXCEPT !.has = @ \cup tree[t].lane[l].has]
             new == [tree[t] EXCEPT !.main = main]
  <2>1. /\ my \in Sequence
        /\ \A k \in Lanes : my.items[k] = IF k = l THEN Integrated(t) ELSE runner.my.items[k]
    BY ItemsTyped, MarkedTyped
  <2>2. runner' = [runner EXCEPT !.good = @ \ {l}, !.my = my]
    BY <1>3 DEF MergeLane, l
  <2> HIDE DEF my
  <2>3. /\ runner'.my = my /\ runner'.tree = t /\ runner'.pc = "merge"
        /\ runner'.work = runner.work /\ runner'.good = runner.good \ {l}
    BY <1>1, <2>2 DEF Runner
  <2>4. tree' = [tree EXCEPT ![t].main.has = @ \cup tree[t].lane[l].has]
    BY <1>3 DEF MergeLane, l
  <2>5. /\ \A u \in Trees : tree'[u].lane = tree[u].lane
        /\ \A u \in Trees \ {t} : tree'[u].main.has = tree[u].main.has
        /\ tree'[t].main.has = tree[t].main.has \cup tree[t].lane[l].has
    BY <1>1, <2>4 DEF Forest, Coordinator
  <2>6. Grows
    BY <1>1, <2>5 DEF Grows
  <2>7. Recorded(seq.items, tree', trees') /\ Recorded(runner.my.items, tree', trees')
    BY <1>1, <2>6, RecordedStays DEF LanesInv, TypeInv, TypeOK
  <2>8. Recorded(my.items, tree', trees')
    <3>1. l \in tree'[t].main.has
      BY <1>1, <1>2, <2>5
    <3>2. Integrated(t).tree = t /\ Integrated(t).merge = "integrated"
      BY DEF Integrated
    <3>3. my.items[l] = Integrated(t) /\ \A k \in Lanes \ {l} : my.items[k] = runner.my.items[k]
      BY <1>1, <2>1
    <3> QED BY <1>1, <2>7, <3>1, <3>2, <3>3 DEF Recorded
  <2>9. BranchesWhole'
    BY <1>1, <1>3, <2>5 DEF LanesInv, BranchesWhole, Whole, MergeLane
  <2>10. OneCoordinator' /\ BatchInv' /\ Advancing'
    BY <1>1, <2>1, <2>3, <2>5
       DEF LanesInv, OneCoordinator, BatchInv, Advancing, Coordinating, Integrated
  <2> QED BY <1>3, <2>3, <2>7, <2>8, <2>9, <2>10 DEF LanesInv, FeatureWhole, MergeLane
<1>4. CASE MergeConflicts
  <2> DEFINE new == [runner EXCEPT !.my.items[l].merge = "integrating"]
  <2>1. new.my \in Sequence /\ new \in Runner /\ new.work = runner.work
    <3>1. runner.my.items[l] \in Item
      BY <1>1 DEF Sequence
    <3>2. [runner.my.items[l] EXCEPT !.merge = "integrating"] \in Item
      BY <3>1 DEF Item, Integration
    <3>3. [runner.my EXCEPT !.items[l].merge = "integrating"] \in Sequence
      BY <1>1, <3>2 DEF Sequence
    <3> QED BY <3>3 DEF Runner
  <2>2. \A k \in Lanes : \/ new.my.items[k] = runner.my.items[k]
                         \/ new.my.items[k].merge = "integrating"
    BY <1>1 DEF Runner, Sequence, Item
  <2>3. Exits(new) /\ tree' = [tree EXCEPT ![t].main.conflict = l]
    BY <1>4 DEF MergeConflicts, l
  <2> HIDE DEF new
  <2>4. \A u \in Trees : tree'[u].lane = tree[u].lane /\ tree'[u].main.has = tree[u].main.has
    BY <1>1, <2>3 DEF Forest, Coordinator
  <2>5. Grows
    BY <1>1, <2>4 DEF Grows
  <2>6. Recorded(seq.items, tree', trees') /\ Recorded(runner.my.items, tree', trees')
    BY <1>1, <2>5, RecordedStays DEF LanesInv, TypeInv, TypeOK
  <2>7. Recorded(new.my.items, tree', trees')
    BY <2>2, <2>6 DEF Recorded
  <2>8. /\ Recorded(runner'.my.items, tree', trees')
        /\ OneCoordinator' /\ BatchInv' /\ Advancing'
    BY <1>1, <2>1, <2>3, <2>7, ExitsKeeps
  <2>9. BranchesWhole'
    BY <1>4, <2>4 DEF LanesInv, BranchesWhole, Whole, MergeConflicts
  <2> QED BY <1>4, <2>6, <2>8, <2>9 DEF LanesInv, FeatureWhole, MergeConflicts
<1> QED BY <1>3, <1>4

\* The worktrees of lanes are left dirty or tidied up: what they hold is the same.
LEMMA StatesKeep ==
    ASSUME TypeInv, LanesInv, UNCHANGED <<plan, trees, seq, feature, edits>>,
           run' = run,
           \A t \in Trees :
              /\ tree'[t].main.has = tree[t].main.has
              /\ \A l \in Lanes : /\ tree'[t].lane[l].has = tree[t].lane[l].has
                                  /\ tree'[t].lane[l].state = "none" <=> tree[t].lane[l].state = "none"
    PROVE  /\ BranchesWhole' /\ FeatureWhole'
           /\ Recorded(seq.items, tree', trees') /\ Recorded(runner.my.items, tree', trees')
<1>1. Grows
  BY RunnerTyped DEF Grows
<1>2. Recorded(seq.items, tree', trees') /\ Recorded(runner.my.items, tree', trees')
  BY <1>1, RecordedStays DEF LanesInv, TypeInv, TypeOK
<1> QED BY <1>2 DEF LanesInv, BranchesWhole, Whole, FeatureWhole

LEMMA CrashKeeps == ASSUME TypeInv, LanesInv, Crash PROVE LanesInv'
<1>0. tree \in Forest
  BY DEF TypeInv, TypeOK, Forest
<1>1. PICK left \in SUBSET runner.work :
          tree' = IF runner.tree = 0 THEN tree
                  ELSE [tree EXCEPT ![runner.tree].lane =
                           [l \in Lanes |-> IF l \in left THEN [@[l] EXCEPT !.state = "dirty"]
                                                          ELSE @[l]]]
  BY DEF Crash
<1>2. ASSUME NEW t \in Trees, NEW l \in Lanes
      PROVE  /\ tree'[t].main.has = tree[t].main.has
             /\ tree'[t].lane[l].has = tree[t].lane[l].has
             /\ tree'[t].lane[l].state = "none" <=> tree[t].lane[l].state = "none"
  <2>1. CASE runner.tree = t /\ runner.tree # 0
    <3>1. tree'[t].main = tree[t].main
      BY <1>0, <1>1, <2>1 DEF Forest
    <3>2. tree'[t].lane[l] = IF l \in left THEN [tree[t].lane[l] EXCEPT !.state = "dirty"]
                                           ELSE tree[t].lane[l]
      BY <1>0, <1>1, <2>1 DEF Forest
    <3>3. tree[t].lane[l] \in Worktree
      BY <1>0 DEF Forest
    <3>4. l \in left => tree[t].lane[l].state # "none"
      BY <1>1, <2>1 DEF LanesInv, BatchInv
    <3> QED BY <3>1, <3>2, <3>3, <3>4 DEF Worktree
  <2>2. CASE ~(runner.tree = t /\ runner.tree # 0)
    <3>1. tree'[t] = tree[t]
      BY <1>0, <1>1, <2>2 DEF Forest
    <3> QED BY <3>1
  <2> QED BY <2>1, <2>2
<1>3. OneCoordinator' /\ BatchInv' /\ Advancing' /\ Recorded(runner'.my.items, tree', trees')
  BY FreshRecorded DEF Crash, Idle, OneCoordinator, BatchInv, Advancing, Coordinating
<1> QED BY <1>2, <1>3, StatesKeep DEF LanesInv, Crash

LEMMA ReconcileKeeps == ASSUME TypeInv, LanesInv, Reconcile PROVE LanesInv'
<1>1. PICK hit : seq' = [status |-> "interrupted",
                         items |-> [l \in Lanes |-> IF l \in hit
                                      THEN [seq.items[l] EXCEPT !.status = "interrupted"]
                                      ELSE seq.items[l]]]
  BY DEF Reconcile
<1>2. ASSUME NEW l \in Lanes
      PROVE  seq'.items[l].merge = seq.items[l].merge /\ seq'.items[l].tree = seq.items[l].tree
  <2>1. seq.items[l] \in Item
    BY DEF TypeInv, TypeOK, Sequence
  <2> QED BY <1>1, <2>1 DEF Item
<1>3. Recorded(seq'.items, tree, trees)
  BY <1>2 DEF LanesInv, Recorded
<1> QED BY <1>3, QuietKeeps DEF LanesInv, Reconcile, OneCoordinator, BatchInv, Advancing

LEMMA EditKeeps == ASSUME TypeInv, LanesInv, Edit PROVE LanesInv'
<1>1. NumLanes + edits' \notin Lanes /\ edits \in Nat /\ edits' = edits + 1
  BY LanesAssumption DEF Edit, TypeInv, TypeOK, Lanes
<1>2. NumLanes + 1 .. NumLanes + edits' = (NumLanes + 1 .. NumLanes + edits) \cup {NumLanes + edits'}
  BY <1>1, LanesAssumption
<1>3. FeatureWhole'
  BY <1>1, <1>2 DEF LanesInv, FeatureWhole, Edit
<1> QED BY <1>3
           DEF LanesInv, Edit, OneCoordinator, BatchInv, Advancing, BranchesWhole, Whole

LEMMA TidyKeeps ==
    ASSUME TypeInv, LanesInv, NEW t \in Trees,
           TidyCoordinator(t) \/ \E l \in Lanes : TidyLane(t, l)
    PROVE  LanesInv'
<1>0. /\ tree \in Forest /\ runner.pc = "idle" /\ runner' = runner
      /\ OneCoordinator' /\ BatchInv' /\ Advancing'
  BY DEF TypeInv, TypeOK, Forest, TidyCoordinator, TidyLane, LanesInv, OneCoordinator, BatchInv,
         Advancing, Coordinating
<1>1. ASSUME NEW l \in Lanes, TidyLane(t, l)
      PROVE  LanesInv'
  <2>1. tree' = [tree EXCEPT ![t].lane[l].state = "clean"] /\ tree[t].lane[l].state = "dirty"
    BY <1>1 DEF TidyLane
  <2>2. tree[t].lane[l] \in Worktree
    BY <1>0 DEF Forest
  <2>3. /\ tree'[t].lane[l].has = tree[t].lane[l].has /\ tree'[t].lane[l].state = "clean"
        /\ \A k \in Lanes \ {l} : tree'[t].lane[k] = tree[t].lane[k]
        /\ \A u \in Trees \ {t} : tree'[u] = tree[u]
        /\ tree'[t].main = tree[t].main
    BY <1>0, <2>1, <2>2 DEF Forest, Worktree
  <2>4. ASSUME NEW u \in Trees, NEW k \in Lanes
        PROVE  /\ tree'[u].main.has = tree[u].main.has
               /\ tree'[u].lane[k].has = tree[u].lane[k].has
               /\ tree'[u].lane[k].state = "none" <=> tree[u].lane[k].state = "none"
    BY <2>1, <2>3
  <2> QED BY <1>0, <1>1, <2>4, StatesKeep DEF LanesInv, TidyLane
<1>2. CASE TidyCoordinator(t)
  <2>1. PICK merged \in {{}, tree[t].lane[tree[t].main.conflict].has} :
            /\ tree[t].main.conflict # 0
            /\ tree' = [tree EXCEPT ![t].main = [has |-> @.has \cup merged, conflict |-> 0]]
    BY <1>2 DEF TidyCoordinator
  <2>2. tree[t].main.conflict \in Lanes
    BY <1>0, <2>1 DEF Forest, Coordinator
  <2>3. /\ tree'[t].main.has = tree[t].main.has \cup merged
        /\ tree'[t].lane = tree[t].lane
        /\ \A u \in Trees \ {t} : tree'[u] = tree[u]
    BY <1>0, <2>1 DEF Forest
  <2>4. Grows
    <3>1. \A u \in Trees : tree[u].main.has \subseteq tree'[u].main.has /\ tree'[u].lane = tree[u].lane
      BY <2>3
    <3>2. trees' = trees /\ trees \in Nat
      BY <1>2, RunnerTyped DEF TidyCoordinator
    <3> QED BY <3>1, <3>2 DEF Grows
  <2>5. /\ Recorded(seq.items, tree', trees') /\ Recorded(runner.my.items, tree', trees')
    BY <1>2, <2>4, RecordedStays DEF LanesInv, TypeInv, TypeOK, TidyCoordinator
  <2>6. Whole(tree[t].main.has \cup merged)
    BY <2>1, <2>2 DEF LanesInv, BranchesWhole, Whole
  <2>7. BranchesWhole'
    <3>1. plan' = plan
      BY <1>2 DEF TidyCoordinator
    <3>2. ASSUME NEW u \in Trees PROVE Whole(tree'[u].main.has) /\ tree'[u].lane = tree[u].lane
      BY <2>3, <2>6 DEF LanesInv, BranchesWhole
    <3> QED BY <3>1, <3>2 DEF LanesInv, BranchesWhole, Whole
  <2> QED BY <1>0, <1>2, <2>5, <2>7 DEF LanesInv, FeatureWhole, TidyCoordinator
<1> QED BY <1>1, <1>2

LEMMA InitKeeps == Init => LanesInv
<1> SUFFICES ASSUME Init PROVE LanesInv
  OBVIOUS
<1>1. Recorded(seq.items, tree, trees) /\ Recorded(runner.my.items, tree, trees)
  BY FreshRecorded DEF Init, Idle
<1>2. BranchesWhole
  BY DEF Init, BranchesWhole, Whole, NoTree, NoWorktree
<1>3. FeatureWhole
  BY LanesAssumption DEF Init, FeatureWhole
<1> QED BY <1>1, <1>2, <1>3 DEF Init, LanesInv, OneCoordinator, BatchInv, Advancing, Idle, Coordinating

LEMMA LanesInvHolds == Spec => [](TypeInv /\ LanesInv)
<1>1. ASSUME TypeInv, TypeInv', LanesInv, [Next]_vars PROVE LanesInv'
  <2>0. trees' \in 0 .. NumTrees
    BY <1>1 DEF TypeInv, TypeOK
  <2>1. CASE UNCHANGED vars
    BY <1>1, <2>1 DEF vars, LanesInv, OneCoordinator, BatchInv, Advancing, BranchesWhole, Whole,
                      FeatureWhole
  <2> QED BY <1>1, <2>0, <2>1, BeginKeeps, OpenKeeps, SavesKeep, ForwardKeeps, BatchKeeps,
             LaneEndsKeep, OutcomesKeep, MergeKeeps, CrashKeeps, ReconcileKeeps, EditKeeps,
             TidyKeeps DEF Next, RunStep
<1> QED BY <1>1, InitKeeps, TypeInvHolds, PTL DEF Spec

\* Whatever fails, dies and is resumed, a lane has a worktree only with the results of
\* the lanes it depends on in it, and is merged after them.
THEOREM LanesAfterDependencies == Spec => []DependenciesFirst
<1>1. TypeInv /\ LanesInv => DependenciesFirst
  BY DEF LanesInv, BranchesWhole, Whole, DependenciesFirst
<1> QED BY <1>1, LanesInvHolds, PTL

\* The feature branch gets all the lanes or none, and keeps what the user commits: the
\* run that moves it has all the lanes in its coordinator, and Git moves it forward only.
THEOREM FeatureStaysWhole == Spec => []FeatureWhole
BY LanesInvHolds, PTL DEF LanesInv

\* What the sequence records as integrated is merged in the coordinator that its item
\* names, so that a resumed run may skip it.
THEOREM IntegratedAreMerged == Spec => []IntegratedIsMerged
<1>1. TypeInv /\ LanesInv => IntegratedIsMerged
  BY DEF LanesInv, Recorded, IntegratedIsMerged
<1> QED BY <1>1, LanesInvHolds, PTL

-----------------------------------------------------------------------------
(* A lane that passed is not launched again. Its item, in the record and in  *)
(* the copy of a run, says that it is merged or waits for that; a run that   *)
(* starts over has items of its own before it forgets what passed.           *)

Kept(item) ==
    \/ item.merge = "integrated"
    \/ item.status = "waiting-to-merge" /\ item.merge = "waiting-to-merge"

Owed == passed \ conflicted

StartsOver == ~runner.resume /\ runner.pc \in {"open", "plan"}

PassedInv ==
    /\ \A l \in Owed : Kept(seq.items[l])
    /\ runner.pc # "idle" /\ ~StartsOver => \A l \in Owed : Kept(runner.my.items[l])
    /\ runner.pc \in {"record", "batch"} /\ ~runner.resume =>
          \A l \in Owed : runner.my.items[l].merge = "integrated"
    /\ runner.pc \in {"work", "merge"} /\ ~runner.resume =>
          \A l \in Owed : runner.my.items[l].merge = "integrated" \/ l \in runner.good
    /\ runner.pc = "work" =>
          /\ Owed \cap (runner.work \cup runner.bad) = {}
          /\ runner.work \cap runner.bad = {}
          /\ runner.good \cap (runner.work \cup runner.bad) = {}

\* No lane that is ready and not reused is owed.
LEMMA LaunchedNotOwed ==
    ASSUME TypeInv, PassedInv, runner.pc = "batch"
    PROVE  Owed \cap (Ready \ Reused) = {}
<1> SUFFICES ASSUME NEW l \in Owed, l \in Ready PROVE l \in Reused
  OBVIOUS
<1>1. l \in Lanes /\ runner.my.items[l].merge # "integrated"
  BY DEF Ready, Remaining, Completed
<1>2. Kept(runner.my.items[l]) /\ runner.resume
  BY <1>1, RunnerTyped DEF PassedInv, StartsOver, Runner
<1> QED BY <1>1, <1>2 DEF Kept, Reused

\* A run that ends takes its items with it.
LEMMA ExitsOwes ==
    ASSUME TypeInv, PassedInv, NEW new \in Runner, Exits(new),
           \A l \in Owed' : Kept(seq'.items[l]),
           \A l \in Owed' : Kept(new.my.items[l])
    PROVE  PassedInv'
<1>1. CASE runner' = Idle
  BY <1>1 DEF PassedInv, Idle
<1>2. CASE runner' = [new EXCEPT !.pc = "leave"]
  <2>1. runner'.pc = "leave" /\ runner'.my = new.my
    BY <1>2 DEF Runner
  <2> QED BY <2>1 DEF PassedInv
<1> QED BY <1>1, <1>2 DEF Exits

LEMMA StartsOwe ==
    ASSUME TypeInv, PassedInv, Begin \/ OpenFresh \/ OpenRetained \/ OpenRefused \/ SavePlan \/ SaveRun
    PROVE  PassedInv'
<1> USE RunnerTyped
<1>1. CASE Begin
  <2>1. PICK resume \in BOOLEAN, supervised \in Supervision :
          LET my == IF resume THEN seq ELSE NewSequence
          IN  /\ runner' = [Idle EXCEPT !.pc = "open", !.resume = resume,
                                        !.supervised = supervised, !.my = my]
              /\ seq' = IF supervised THEN my ELSE seq
              /\ passed' = IF supervised /\ ~resume THEN {} ELSE passed
              /\ conflicted' = IF supervised /\ ~resume THEN {} ELSE conflicted
    BY <1>1 DEF Begin
  <2>2. /\ runner'.pc = "open" /\ runner'.resume = resume
        /\ runner'.my = IF resume THEN seq ELSE NewSequence
    BY <2>1 DEF Idle
  <2>3. CASE supervised /\ ~resume
    BY <2>1, <2>2, <2>3 DEF PassedInv, Owed, StartsOver
  <2>4. CASE ~(supervised /\ ~resume)
    BY <2>1, <2>2, <2>4 DEF PassedInv, Owed, StartsOver
  <2> QED BY <2>3, <2>4
<1>2. CASE OpenFresh
  <2>1. /\ runner'.pc = "plan" /\ runner'.my = runner.my /\ runner'.resume = runner.resume
    BY <1>2 DEF OpenFresh, Runner
  <2> QED BY <1>2, <2>1 DEF OpenFresh, PassedInv, Owed, StartsOver
<1>3. CASE OpenRetained
  <2>1. PICK t \in Retained(runner.my) :
            runner' = [runner EXCEPT !.pc = "plan", !.tree = t, !.base = feature,
                                     !.my.status = "running"]
    BY <1>3 DEF OpenRetained
  <2>2. /\ runner'.my.items = runner.my.items /\ runner'.pc = "plan"
        /\ runner'.resume = runner.resume
    BY <2>1 DEF Runner, Sequence
  <2> QED BY <1>3, <2>2 DEF OpenRetained, PassedInv, Owed, StartsOver
<1>4. CASE OpenRefused
  BY <1>4, ExitsOwes DEF OpenRefused, PassedInv, Owed, StartsOver
<1>5. CASE SavePlan
  <2>1. /\ runner'.pc = "record" /\ runner'.my = runner.my /\ runner'.resume = runner.resume
    BY <1>5 DEF SavePlan, Runner
  <2>2. CASE runner.resume
    BY <1>5, <2>1, <2>2 DEF SavePlan, PassedInv, Owed, StartsOver
  <2>3. CASE ~runner.resume
    BY <1>5, <2>1, <2>3 DEF SavePlan, PassedInv, Owed, StartsOver
  <2> QED BY <2>2, <2>3
<1>6. CASE SaveRun
  <2>1. /\ runner'.pc = "batch" /\ runner'.my = runner.my /\ runner'.resume = runner.resume
    BY <1>6 DEF SaveRun, Runner
  <2> QED BY <1>6, <2>1 DEF SaveRun, PassedInv, Owed, StartsOver
<1> QED BY <1>1, <1>2, <1>3, <1>4, <1>5, <1>6

LEMMA BatchOwes ==
    ASSUME TypeInv, PassedInv, StartBatch \/ StartFails
    PROVE  PassedInv'
<1> USE RunnerTyped
<1>1. /\ runner.pc = "batch" /\ Owed' = Owed /\ seq' = seq
      /\ Owed \cap (Ready \ Reused) = {}
      /\ Reused \in SUBSET Ready /\ Owed \in SUBSET Lanes
      /\ \A l \in Owed : Kept(runner.my.items[l])
  BY LaunchedNotOwed DEF StartBatch, StartFails, Owed, Reused, PassedInv, StartsOver, TypeInv, TypeOK
<1>2. ASSUME NEW lanes \in SUBSET (Ready \ Reused)
      PROVE  LET my == Marked(runner.my, lanes, Working(runner.tree))
             IN  my \in Sequence /\ \A l \in Owed : my.items[l] = runner.my.items[l]
  BY <1>1, ItemsTyped, MarkedTyped
<1>3. CASE StartBatch
  <2> DEFINE lanes == Ready \ Reused
             my == Marked(runner.my, lanes, Working(runner.tree))
  <2>1. runner' = [runner EXCEPT !.pc = "work", !.work = lanes, !.good = Reused, !.bad = {},
                                 !.my = my]
    BY <1>3 DEF StartBatch
  <2>2. \A l \in Owed : my.items[l] = runner.my.items[l]
    BY <1>2
  <2> HIDE DEF my, lanes
  <2>3. /\ runner'.my = my /\ runner'.pc = "work" /\ runner'.work = lanes
        /\ runner'.good = Reused /\ runner'.bad = {} /\ runner'.resume = runner.resume
    BY <2>1 DEF Runner
  <2>4. lanes \cap Owed = {} /\ lanes \cap Reused = {}
    BY <1>1 DEF lanes
  <2> QED BY <1>1, <2>2, <2>3, <2>4 DEF PassedInv
<1>4. CASE StartFails
  <2>1. PICK lanes \in SUBSET (Ready \ Reused) :
            Exits([runner EXCEPT !.my = Marked(@, lanes, Working(runner.tree))])
    <3>1. PICK l \in Ready \ Reused :
              LET lanes == {k \in Ready \ Reused : k < l}
              IN  Exits([runner EXCEPT !.my = Marked(@, lanes, Working(runner.tree))])
      BY <1>4 DEF StartFails
    <3> QED BY <3>1
  <2> DEFINE my == Marked(runner.my, lanes, Working(runner.tree))
             new == [runner EXCEPT !.my = my]
  <2>2. my \in Sequence /\ \A l \in Owed : my.items[l] = runner.my.items[l]
    BY <1>2
  <2>3. Exits(new)
    BY <2>1
  <2> HIDE DEF my
  <2>4. new \in Runner /\ new.my = my
    BY <2>2 DEF Runner
  <2> HIDE DEF new
  <2> QED BY <1>1, <2>2, <2>3, <2>4, ExitsOwes DEF PassedInv
<1> QED BY <1>3, <1>4

LEMMA LaneEndsOwe ==
    ASSUME TypeInv, PassedInv, NEW l \in Lanes, LanePasses(l) \/ LaneFails(l)
    PROVE  PassedInv'
<1> USE RunnerTyped
<1>1. /\ runner.pc = "work" /\ l \in runner.work
      /\ Owed' = Owed /\ seq' = seq
      /\ runner'.pc = "work" /\ runner'.my = runner.my /\ runner'.resume = runner.resume
      /\ runner'.work = runner.work \ {l}
  BY DEF LanePasses, LaneFails, Owed, Runner
<1>2. \/ runner'.good = runner.good \cup {l} /\ runner'.bad = runner.bad
      \/ runner'.good = runner.good /\ runner'.bad = runner.bad \cup {l}
  BY DEF LanePasses, LaneFails, Runner
<1>3. runner.good \subseteq runner'.good
  BY <1>2
<1>4. /\ Owed \cap (runner.work \cup runner.bad) = {}
      /\ runner.work \cap runner.bad = {}
      /\ runner.good \cap (runner.work \cup runner.bad) = {}
  BY <1>1 DEF PassedInv
<1>5. /\ Owed \cap (runner'.work \cup runner'.bad) = {}
      /\ runner'.work \cap runner'.bad = {}
      /\ runner'.good \cap (runner'.work \cup runner'.bad) = {}
  BY <1>1, <1>2, <1>4
<1> QED BY <1>1, <1>3, <1>5 DEF PassedInv, StartsOver

LEMMA OutcomesOwe ==
    ASSUME TypeInv, PassedInv, SaveOutcomes
    PROVE  PassedInv'
<1> USE RunnerTyped
<1> DEFINE waiting == Marked(runner.my, runner.good, Waiting(runner.tree))
           my == Marked(waiting, runner.bad, Failed(runner.tree))
<1>1. /\ runner.pc = "work"
      /\ seq' = my
      /\ runner' = [runner EXCEPT !.my = my,
                                  !.pc = IF runner.bad = {} THEN "merge" ELSE "failure"]
      /\ passed' = passed \cup runner.good
      /\ conflicted' = conflicted
  BY DEF SaveOutcomes
<1>2. /\ waiting \in Sequence
      /\ \A l \in Lanes : waiting.items[l] = IF l \in runner.good THEN Waiting(runner.tree)
                                                                  ELSE runner.my.items[l]
  BY ItemsTyped, MarkedTyped
<1>3. /\ my \in Sequence
      /\ \A l \in Lanes : my.items[l] = IF l \in runner.bad THEN Failed(runner.tree)
                                                            ELSE waiting.items[l]
  BY <1>2, ItemsTyped, MarkedTyped
<1> HIDE DEF my, waiting
<1>4. /\ runner'.my = my /\ runner'.resume = runner.resume /\ runner'.good = runner.good
      /\ runner'.pc \in {"merge", "failure"}
  BY <1>1 DEF Runner
<1>5. Owed' \in SUBSET Lanes /\ Owed' \in SUBSET (Owed \cup runner.good)
  BY <1>1 DEF Owed, TypeInv, TypeOK
<1>6. /\ Owed \cap runner.bad = {}
      /\ runner.good \cap runner.bad = {}
      /\ \A l \in Owed : Kept(runner.my.items[l])
      /\ ~runner.resume =>
            \A l \in Owed : runner.my.items[l].merge = "integrated" \/ l \in runner.good
  BY <1>1 DEF PassedInv, StartsOver
<1>7. \A l \in Owed' : l \notin runner.bad
  BY <1>5, <1>6
<1>8. \A l \in Owed' : \/ l \in runner.good /\ my.items[l] = Waiting(runner.tree)
                       \/ l \in Owed /\ l \notin runner.good /\ my.items[l] = runner.my.items[l]
  BY <1>2, <1>3, <1>5, <1>7
<1>9. \A l \in Owed' : Kept(my.items[l])
  BY <1>6, <1>8 DEF Kept, Waiting
<1>10. ~runner.resume => \A l \in Owed' : my.items[l].merge = "integrated" \/ l \in runner.good
  BY <1>6, <1>8
<1> QED BY <1>1, <1>4, <1>9, <1>10 DEF PassedInv

LEMMA MergeOwes ==
    ASSUME TypeInv, PassedInv, MergeLane \/ MergeConflicts
    PROVE  PassedInv'
<1> USE RunnerTyped
<1> DEFINE l == Min(runner.good)
<1>1. l \in Lanes /\ runner.pc = "merge" /\ seq' = seq /\ passed' = passed
  BY MinOfLanes DEF MergeLane, MergeConflicts
<1>2. /\ \A k \in Owed : Kept(seq.items[k]) /\ Kept(runner.my.items[k])
      /\ Owed \in SUBSET Lanes
  BY <1>1 DEF PassedInv, StartsOver, Owed, TypeInv, TypeOK
<1> HIDE DEF l
<1>3. CASE MergeLane
  <2> DEFINE my == Marked(runner.my, {l}, Integrated(runner.tree))
  <2>1. /\ my \in Sequence
        /\ \A k \in Lanes : my.items[k] = IF k = l THEN Integrated(runner.tree)
                                                   ELSE runner.my.items[k]
    BY ItemsTyped, MarkedTyped
  <2>2. runner' = [runner EXCEPT !.good = @ \ {l}, !.my = my]
    BY <1>3 DEF MergeLane, l
  <2> HIDE DEF my
  <2>3. /\ runner'.my = my /\ runner'.pc = "merge" /\ runner'.resume = runner.resume
        /\ runner'.good = runner.good \ {l}
    BY <1>1, <2>2 DEF Runner
  <2>4. Owed' = Owed
    BY <1>3 DEF MergeLane, Owed
  <2>5. \A k \in Owed : Kept(my.items[k])
    BY <1>2, <2>1 DEF Kept, Integrated
  <2>6. ~runner.resume => \A k \in Owed : my.items[k].merge = "integrated" \/ k \in runner.good \ {l}
    BY <1>1, <1>2, <2>1 DEF PassedInv, Integrated
  <2> QED BY <1>1, <1>2, <2>3, <2>4, <2>5, <2>6 DEF PassedInv
<1>4. CASE MergeConflicts
  <2> DEFINE new == [runner EXCEPT !.my.items[l].merge = "integrating"]
             items == [runner.my.items EXCEPT ![l].merge = "integrating"]
             my == [status |-> runner.my.status, items |-> items]
  <2>1. Exits(new)
    BY <1>4 DEF MergeConflicts, l
  <2>2. \A k \in Lanes \ {l} : items[k] = runner.my.items[k]
    BY <1>1 DEF Sequence
  <2>3. items \in [Lanes -> Item]
    BY <1>1 DEF Sequence, Item, Integration
  <2>4. new = [runner EXCEPT !.my = my]
    BY <1>1 DEF Runner, Sequence
  <2>5. my \in Sequence /\ my.items = items
    BY <2>3 DEF Sequence
  <2> HIDE DEF new, my, items
  <2>6. new \in Runner /\ new.my = my
    BY <2>4, <2>5 DEF Runner
  <2>7. Owed' = Owed \ {l}
    BY <1>4 DEF MergeConflicts, Owed, l
  <2> QED BY <1>1, <1>2, <2>1, <2>2, <2>5, <2>6, <2>7, ExitsOwes
<1> QED BY <1>3, <1>4

LEMMA SavesOwe ==
    ASSUME TypeInv, PassedInv,
           SaveFailure \/ SaveBatch \/ CheckBase \/ FastForward \/ FinishRun \/ FinishSequence
              \/ Leave
    PROVE  PassedInv'
<1> USE RunnerTyped
<1>1. /\ Owed' = Owed
      /\ \A l \in Owed : Kept(seq.items[l]) /\ Kept(runner.my.items[l])
  BY DEF SaveFailure, SaveBatch, CheckBase, FastForward, FinishRun, FinishSequence, Leave, Owed,
         PassedInv, StartsOver
<1>2. CASE Exits(runner) /\ (seq' = seq \/ seq' = runner.my)
  BY <1>1, <1>2, ExitsOwes
<1>3. CASE SaveBatch
  <2>1. /\ runner'.pc = "batch" /\ runner'.my = runner.my /\ runner'.resume = runner.resume
        /\ seq' = runner.my /\ runner.good = {} /\ runner.pc = "merge"
    BY <1>3 DEF SaveBatch, Runner
  <2> QED BY <1>1, <2>1 DEF PassedInv
<1>4. CASE seq' = seq /\ runner' = [runner EXCEPT !.pc = "advance"]
  <2>1. runner'.pc = "advance" /\ runner'.my = runner.my
    BY <1>4 DEF Runner
  <2> QED BY <1>1, <1>4, <2>1 DEF PassedInv
<1>5. CASE seq' = seq /\ runner' = [runner EXCEPT !.pc = "finish"]
  <2>1. runner'.pc = "finish" /\ runner'.my = runner.my
    BY <1>5 DEF Runner
  <2> QED BY <1>1, <1>5, <2>1 DEF PassedInv
<1>6. CASE FinishRun
  <2>1. runner'.pc = "close" /\ runner'.my.items = runner.my.items /\ seq' = seq
    BY <1>6 DEF FinishRun, Runner, Sequence
  <2> QED BY <1>1, <2>1 DEF PassedInv
<1>7. CASE Leave
  <2>1. runner'.pc = "idle" /\ seq' = runner.my
    BY <1>7 DEF Leave, Idle
  <2> QED BY <1>1, <2>1 DEF PassedInv
<1> QED BY <1>2, <1>3, <1>4, <1>5, <1>6, <1>7
       DEF SaveFailure, CheckBase, FastForward, FinishSequence

\* What becomes interrupted was not waiting for its merge.
LEMMA SurroundingsOwe ==
    ASSUME TypeInv, PassedInv,
           \/ Crash \/ Reconcile \/ Edit
           \/ \E t \in Trees : TidyCoordinator(t) \/ \E l \in Lanes : TidyLane(t, l)
    PROVE  PassedInv'
<1>1. CASE Crash
  <2>1. Owed' = Owed /\ seq' = seq /\ runner'.pc = "idle"
    BY <1>1 DEF Crash, Owed, Idle
  <2> QED BY <2>1 DEF PassedInv
<1>2. CASE Reconcile
  <2> DEFINE with(status) == {l \in Lanes : seq.items[l].status = status}
             hit == IF with("running") # {} THEN with("running")
                    ELSE IF with("pending") # {} THEN {Min(with("pending"))} ELSE {}
  <2>1. \A l \in hit : seq.items[l].status \in {"running", "pending"}
    <3>1. with("pending") # {} => Min(with("pending")) \in with("pending")
      BY MinOfLanes
    <3> QED BY <3>1
  <2>2. /\ seq' = [status |-> "interrupted",
                   items |-> [l \in Lanes |-> IF l \in hit
                                THEN [seq.items[l] EXCEPT !.status = "interrupted"]
                                ELSE seq.items[l]]]
        /\ Owed' = Owed /\ runner' = runner
    BY <1>2 DEF Reconcile, Owed
  <2> HIDE DEF hit
  <2>3. \A l \in Owed : l \in Lanes /\ seq.items[l] \in Item
    BY DEF TypeInv, TypeOK, Owed, Sequence
  <2>4. ASSUME NEW l \in Owed PROVE Kept(seq'.items[l])
    <3>1. Kept(seq.items[l])
      BY DEF PassedInv
    <3>2. CASE l \in hit
      <4>1. seq.items[l].merge = "integrated"
        BY <2>1, <3>1, <3>2 DEF Kept
      <4>2. seq'.items[l] = [seq.items[l] EXCEPT !.status = "interrupted"]
        BY <2>2, <2>3, <3>2
      <4> QED BY <2>3, <4>1, <4>2 DEF Kept, Item
    <3>3. CASE l \notin hit
      BY <2>2, <2>3, <3>1, <3>3
    <3> QED BY <3>2, <3>3
  <2> QED BY <2>2, <2>4 DEF PassedInv, StartsOver
<1>3. CASE \/ Edit
           \/ \E t \in Trees : TidyCoordinator(t) \/ \E l \in Lanes : TidyLane(t, l)
  <2>1. Owed' = Owed /\ seq' = seq /\ runner' = runner
    BY <1>3 DEF Edit, TidyCoordinator, TidyLane, Owed
  <2> QED BY <2>1 DEF PassedInv, StartsOver
<1> QED BY <1>1, <1>2, <1>3

LEMMA PassedInvHolds == Spec => [](TypeInv /\ PassedInv)
<1>1. Init => PassedInv
  BY DEF Init, PassedInv, Owed, Idle
<1>2. ASSUME TypeInv, PassedInv, [Next]_vars PROVE PassedInv'
  <2>1. CASE UNCHANGED vars
    BY <1>2, <2>1 DEF vars, PassedInv, Owed, StartsOver
  <2> QED BY <1>2, <2>1, StartsOwe, BatchOwes, LaneEndsOwe, OutcomesOwe, MergeOwes, SavesOwe,
             SurroundingsOwe DEF Next, RunStep
<1> QED BY <1>1, <1>2, TypeInvHolds, PTL DEF Spec

\* A lane that was recorded as passed is launched again, before the folder is started
\* over, only if it could not be merged: the outcomes of a batch are saved before
\* anything else, and no copy of the sequence that is saved later takes them back.
THEOREM PassedStayDone == Spec => PassedNotRelaunched
<1>1. ASSUME TypeInv, PassedInv, [Next]_vars
      PROVE  \A l \in runner'.work \ runner.work : l \in passed => l \in conflicted
  <2> DEFINE Relaunched == runner'.work \ runner.work
  <2> USE RunnerTyped
  <2>1. CASE StartBatch
    <3>1. Relaunched \subseteq Ready \ Reused
      <4> DEFINE my == Marked(runner.my, Ready \ Reused, Working(runner.tree))
      <4>1. runner' = [runner EXCEPT !.pc = "work", !.work = Ready \ Reused, !.good = Reused,
                                     !.bad = {}, !.my = my]
        BY <2>1 DEF StartBatch
      <4> HIDE DEF my
      <4> QED BY <4>1 DEF Runner
    <3> QED BY <1>1, <2>1, <3>1, LaunchedNotOwed DEF StartBatch, Owed
  <2>2. ASSUME NEW new, new \in Runner, new.work = runner.work, Exits(new) PROVE Relaunched = {}
    BY <2>2 DEF Exits, Idle, Runner
  <2>3. Exits(runner) => Relaunched = {}
    BY <1>1, <2>2
  <2>4. StartFails => Relaunched = {}
    <3> SUFFICES ASSUME StartFails PROVE Relaunched = {}
      OBVIOUS
    <3>1. PICK lanes : Exits([runner EXCEPT !.my = Marked(@, lanes, Working(runner.tree))])
      <4>1. PICK l \in Ready \ Reused :
                LET lanes == {k \in Ready \ Reused : k < l}
                IN  Exits([runner EXCEPT !.my = Marked(@, lanes, Working(runner.tree))])
        BY DEF StartFails
      <4> QED BY <4>1
    <3> DEFINE my == Marked(runner.my, lanes, Working(runner.tree))
    <3>2. my \in Sequence
      BY <1>1, ItemsTyped, MarkedTyped
    <3>3. Exits([runner EXCEPT !.my = my])
      BY <3>1
    <3> HIDE DEF my
    <3>4. [runner EXCEPT !.my = my] \in Runner /\ [runner EXCEPT !.my = my].work = runner.work
      BY <1>1, <3>2 DEF Runner
    <3> QED BY <2>2, <3>3, <3>4
  <2>5. MergeConflicts => Relaunched = {}
    BY <1>1 DEF MergeConflicts, Exits, Idle, Runner
  <2>6. ASSUME NEW l \in Lanes, LanePasses(l) \/ LaneFails(l) PROVE Relaunched = {}
    <3>1. runner'.work = runner.work \ {l}
      BY <1>1, <2>6 DEF LanePasses, LaneFails, Runner
    <3> QED BY <3>1
  <2>7. Begin \/ Crash \/ Leave => Relaunched = {}
    <3>1. Begin => runner'.work = {}
      BY DEF Begin, Idle
    <3>2. Crash \/ Leave => runner'.work = {}
      BY DEF Crash, Leave, Idle
    <3> QED BY <3>1, <3>2
  <2>8. OpenFresh \/ OpenRetained \/ SavePlan \/ SaveRun \/ SaveOutcomes \/ MergeLane \/ SaveBatch
           \/ FinishRun \/ runner' = runner \/ runner' = [runner EXCEPT !.pc = "advance"]
           \/ runner' = [runner EXCEPT !.pc = "finish"] => runner'.work = runner.work
    <3>1. OpenFresh \/ SavePlan \/ SaveRun \/ SaveBatch \/ FinishRun => runner'.work = runner.work
      BY <1>1 DEF OpenFresh, SavePlan, SaveRun, SaveBatch, FinishRun, Runner
    <3>2. OpenRetained => runner'.work = runner.work
      BY <1>1 DEF OpenRetained, Runner
    <3>3. SaveOutcomes => runner'.work = runner.work
      <4> DEFINE my == Marked(Marked(runner.my, runner.good, Waiting(runner.tree)), runner.bad,
                              Failed(runner.tree))
                 pc == IF runner.bad = {} THEN "merge" ELSE "failure"
      <4>1. SaveOutcomes => runner' = [runner EXCEPT !.my = my, !.pc = pc]
        BY DEF SaveOutcomes
      <4> HIDE DEF my, pc
      <4> QED BY <1>1, <4>1 DEF Runner
    <3>4. MergeLane => runner'.work = runner.work
      <4> DEFINE l == Min(runner.good)
                 my == Marked(runner.my, {l}, Integrated(runner.tree))
      <4>1. MergeLane => runner' = [runner EXCEPT !.good = @ \ {l}, !.my = my]
        BY DEF MergeLane
      <4> HIDE DEF my, l
      <4> QED BY <1>1, <4>1 DEF Runner
    <3>5. ASSUME NEW pc, runner' = runner \/ runner' = [runner EXCEPT !.pc = pc]
          PROVE  runner'.work = runner.work
      BY <1>1, <3>5 DEF Runner
    <3> QED BY <3>1, <3>2, <3>3, <3>4, <3>5
  <2>9. OpenRefused \/ SaveFailure \/ CheckBase \/ FastForward \/ FinishSequence =>
           \/ Exits(runner) \/ runner' = [runner EXCEPT !.pc = "advance"]
           \/ runner' = [runner EXCEPT !.pc = "finish"]
    BY DEF OpenRefused, SaveFailure, CheckBase, FastForward, FinishSequence
  <2>10. Reconcile \/ Edit \/ (\E t \in Trees : TidyCoordinator(t) \/ \E l \in Lanes : TidyLane(t, l))
            \/ UNCHANGED vars => runner' = runner
    BY DEF Reconcile, Edit, TidyCoordinator, TidyLane, vars
  <2> HIDE DEF Relaunched
  <2>11. StartBatch \/ Relaunched = {}
    <3>1. runner'.work = runner.work => Relaunched = {}
      BY DEF Relaunched
    <3> QED BY <1>1, <2>3, <2>4, <2>5, <2>6, <2>7, <2>8, <2>9, <2>10, <3>1 DEF Next, RunStep
  <2> QED BY <2>1, <2>11 DEF Relaunched
<1>2. TypeInv /\ PassedInv /\ [Next]_vars =>
         [\A l \in runner'.work \ runner.work : l \in passed => l \in conflicted]_vars
  BY <1>1
<1> QED BY <1>2, PassedInvHolds, PTL DEF PassedNotRelaunched, Spec
=============================================================================
