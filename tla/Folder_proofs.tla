---------------------------- MODULE Folder_proofs ----------------------------
(***************************************************************************)
(* Type correctness of the runs of a folder, that the claim keeps two of   *)
(* them from working at once, that what is recorded is not done again,     *)
(* when what is reported as done has passed, and that undisturbed runs     *)
(* keep the promise of FolderOrder.                                        *)
(***************************************************************************)
EXTENDS FolderControl, WellFoundedInduction, TLAPS

USE FolderAssumption DEF At

\* The steps at which a run is at work on a slice.
Busy == {"launch", "wait", "record", "blocked", "failed"}

\* The steps at which a run holds the claim, whatever cancel releases.
Holds == {"load", "announce", "prepare", "next", "launch", "wait", "record", "blocked",
          "failed", "finish", "leave", "sign", "signoff"}

\* Nobody can name a supervisor before it has written its record.
Announced(x) == x # 0 => supervisor[x] # "none"

\* What the step of a run says of its slices, its claim and its supervisor record.
RunInv(r) ==
    /\ runner[r].pc \in Busy => runner[r].todo # {}
    /\ runner[r].pc \in Holds => claim = r
    /\ runner[r].pc \in {"unborn", "load", "announce"} => supervisor[r] = "none"
    /\ runner[r].pc \in {"announce", "leave", "sign", "signoff"} => detached[r]
    /\ runner[r].pc \in Holds \ {"load", "announce"} /\ detached[r] => supervisor[r] = "running"
    /\ ~detached[r] => supervisor[r] = "none"
    /\ Announced(runner[r].my.sup)

\* The inductive invariant: cancel names a supervisor that has written its
\* record; if that still says running, the run is killed before its claim is
\* released, and otherwise it has nothing left to do but to release the claim.
FolderInv ==
    /\ TypeOK
    /\ \A r \in Runs : RunInv(r)
    /\ Announced(seq.sup)
    /\ Announced(canceller.sup)
    /\ Announced(canceller.copy.sup)
    /\ Announced(reconciler.copy.sup)

-----------------------------------------------------------------------------
(* Types of the values that steps write.                                    *)

LEMMA RecordsTyped ==
    /\ NoSequence \in Sequence /\ NewSequence \in Sequence
    /\ NoSequence.sup = 0 /\ NewSequence.sup = 0
    /\ NoRun \in RunState /\ NewRun \in RunState
    /\ Unborn \in Runner /\ Unborn.pc = "unborn" /\ Unborn.my.sup = 0
    /\ Idle \in Operator /\ Idle.sup = 0 /\ Idle.copy.sup = 0
<1>1. NoSequence \in Sequence /\ NewSequence \in Sequence
  BY DEF NoSequence, NewSequence, Sequence, Untouched, ItemStatus, SequenceStatus
<1>2. NoSequence.sup = 0 /\ NewSequence.sup = 0
  BY DEF NoSequence, NewSequence
<1>3. NoRun \in RunState /\ NewRun \in RunState
  BY DEF NoRun, NewRun, RunState, RunStatus
<1>4. "unborn" \in Pc /\ "default" \in Mode
  BY DEF Pc, Mode
<1>5. Unborn \in Runner /\ Unborn.pc = "unborn" /\ Unborn.my = NoSequence
  BY <1>1, <1>3, <1>4 DEF Unborn, Runner
<1>6. Idle \in Operator /\ Idle.sup = 0 /\ Idle.copy = NoSequence
  BY <1>1 DEF Idle, Operator
<1> QED BY <1>1, <1>2, <1>3, <1>5, <1>6

LEMMA StatusTyped ==
    ASSUME NEW items PROVE SequenceStatusOf(items) \in SequenceStatus
BY DEF SequenceStatusOf, SequenceStatus

LEMMA MarkedTyped ==
    ASSUME NEW s \in Sequence, NEW k, NEW status \in ItemStatus, NEW ids, ids \subseteq Slices
    PROVE  Marked(s, k, status, ids) \in Sequence /\ Marked(s, k, status, ids).sup = s.sup
<1> DEFINE items == [s.items EXCEPT ![k] = status]
<1>1. items \in [Slices -> ItemStatus]
  BY DEF Sequence
<1>2. SequenceStatusOf(items) \in SequenceStatus
  BY StatusTyped
<1> HIDE DEF items
<1>3. [s EXCEPT !.items = items, !.status = SequenceStatusOf(items), !.known = @ \cup ids]
         \in Sequence
  BY <1>1, <1>2 DEF Sequence
<1>4. Marked(s, k, status, ids)
         = [s EXCEPT !.items = items, !.status = SequenceStatusOf(items), !.known = @ \cup ids]
  BY DEF Marked, items
<1> QED BY <1>3, <1>4 DEF Sequence

\* A set of numbers that is not empty has a least element.
LEMMA MinIn ==
    ASSUME NEW S \in SUBSET Nat, S # {} PROVE Min(S) \in S
<1>1. PICK x \in S : \A y \in S : ~(<<y, x>> \in OpToRel(<, Nat))
  BY NatLessThanWellFounded, WFMin
<1>2. ASSUME NEW y \in S PROVE x =< y
  <2>1. ~(<<y, x>> \in {ss \in Nat \X Nat : ss[1] < ss[2]})
    BY <1>1, Zenon DEF OpToRel
  <2>2. x \in Nat /\ y \in Nat
    OBVIOUS
  <2> QED BY <2>1, <2>2
<1> QED BY <1>1, <1>2 DEF Min

LEMMA SliceTyped ==
    ASSUME TypeOK, NEW r \in Runs, runner[r].todo # {}
    PROVE  Slice(r) \in runner[r].todo /\ Slice(r) \in Slices
<1>1. runner[r].todo \in SUBSET Slices
  BY DEF TypeOK, Runner
<1>2. runner[r].todo \in SUBSET Nat
  BY <1>1 DEF Slices
<1> QED BY <1>1, <1>2, MinIn DEF Slice

-----------------------------------------------------------------------------
(* What steps do to the invariant.                                          *)

LEMMA BecomesTyped ==
    ASSUME runner \in [Runs -> Runner], NEW r \in Runs, NEW new \in Runner, Becomes(r, new)
    PROVE  /\ runner' \in [Runs -> Runner]
           /\ runner'[r] = new
           /\ \A q \in Runs \ {r} : runner'[q] = runner[q]
BY DEF Becomes

\* A step of run r to `new` that may follow in the invariant.
Follows(r, new) ==
    /\ new \in Runner
    /\ new.my.sup \in {runner[r].my.sup, seq.sup, 0}
    /\ new.pc \in Busy => new.todo # {}
    /\ new.pc \in Holds => runner[r].pc \in Holds
    /\ new.pc \notin {"unborn", "load"}
    /\ new.pc = "announce" => runner[r].pc = "load" /\ detached[r]
    /\ detached[r] /\ runner[r].pc = "load" => new.pc \in {"announce", "release", "dead"}
    /\ runner[r].pc # "announce" \/ new.pc = "dead"
    /\ new.pc \in {"leave", "sign", "signoff"} => detached[r]

\* The variables that such a step leaves alone, and the types of the others.
Quiet ==
    /\ UNCHANGED <<folder, detached, claim, supervisor, canceller, reconciler>>
    /\ run' \in RunState
    /\ live' \subseteq Runs \X Slices
    /\ passed' \subseteq Slices
    /\ crashes' \in 0 .. MaxCrashes

\* A step of one run that leaves the claim and the supervisor records alone.
LEMMA QuietStep ==
    ASSUME FolderInv, Quiet, NEW r \in Runs, NEW new, Follows(r, new), Becomes(r, new),
           seq' = seq \/ seq' = new.my
    PROVE  FolderInv'
<1>1. /\ runner' \in [Runs -> Runner]
      /\ runner'[r] = new
      /\ \A q \in Runs \ {r} : runner'[q] = runner[q]
  BY BecomesTyped DEF FolderInv, TypeOK, Follows
<1>2. new.my \in Sequence
  BY DEF Runner, Follows
<1>3. TypeOK'
  BY <1>1, <1>2 DEF FolderInv, TypeOK, Quiet
<1>4. \A x : Announced(x)' <=> Announced(x)
  BY DEF Announced, Quiet
<1>5. Announced(new.my.sup)
  BY DEF FolderInv, RunInv, Announced, Follows
<1>6. RunInv(r)'
  <2>1. RunInv(r)
    BY DEF FolderInv
  <2>2. new.pc \in Holds \ {"load", "announce"} /\ detached[r] => supervisor[r] = "running"
    BY <2>1 DEF RunInv, Holds, Follows
  <2>3. new.pc \in {"unborn", "load", "announce"} => supervisor[r] = "none"
    BY <2>1 DEF RunInv, Follows
  <2>4. new.pc \in {"announce", "leave", "sign", "signoff"} => detached[r]
    BY DEF Follows
  <2> QED BY <1>1, <1>4, <1>5, <2>1, <2>2, <2>3, <2>4 DEF RunInv, Follows, Quiet
<1>7. ASSUME NEW q \in Runs \ {r} PROVE RunInv(q)'
  BY <1>1, <1>4, <1>7 DEF FolderInv, RunInv, Quiet
<1>8. Announced(seq.sup)'
  BY <1>4, <1>5 DEF FolderInv
<1> QED BY <1>3, <1>4, <1>6, <1>7, <1>8 DEF FolderInv, Quiet

\* What a step of a run leaves alone, save a crash.
Frame == UNCHANGED <<folder, detached, canceller, reconciler, crashes>>

LEMMA PcTyped ==
    ASSUME NEW x \in Runner, NEW pc \in Pc
    PROVE  /\ [x EXCEPT !.pc = pc] \in Runner
           /\ [x EXCEPT !.pc = pc].pc = pc
           /\ [x EXCEPT !.pc = pc].my = x.my
           /\ [x EXCEPT !.pc = pc].todo = x.todo
BY DEF Runner

LEMMA RunnerTyped ==
    ASSUME FolderInv, NEW r \in Runs
    PROVE  /\ runner[r] \in Runner
           /\ runner[r].my \in Sequence
           /\ runner[r].own \in RunState
           /\ runner[r].todo \subseteq Slices
           /\ RunInv(r)
           /\ Exit(r) \in Pc
BY DEF FolderInv, TypeOK, Runner, Exit, Pc

LEMMA ItemMarked ==
    ASSUME FolderInv, NEW r \in Runs, NEW k, NEW ids \in SUBSET Slices,
           NEW status \in {"running", "skipped", "succeeded", "failed", "gate-blocked"}
    PROVE  /\ Marked(runner[r].my, k, status, ids) \in Sequence
           /\ Marked(runner[r].my, k, status, ids).sup = runner[r].my.sup
<1>1. status \in ItemStatus
  BY DEF ItemStatus
<1> QED BY <1>1, RunnerTyped, MarkedTyped

LEMMA LoadKeeps ==
    ASSUME FolderInv, NEW r \in Runs, Frame, Load(r) PROVE FolderInv'
<1> DEFINE mode == runner[r].mode
           resumes == mode # "fresh" /\ seq.status # "absent"
           continues == mode # "fresh" /\ run.status \notin {"absent", "completed"}
           my == IF resumes THEN seq ELSE NewSequence
           own == IF continues THEN run ELSE NewRun
           todo == IF resumes THEN Slices \ Done(my, own) ELSE Slices
           pc == IF detached[r] THEN "announce" ELSE "prepare"
           refused == [runner[r] EXCEPT !.pc = "release"]
           loaded == [runner[r] EXCEPT !.resumed = resumes, !.my = my, !.own = own,
                                       !.todo = todo, !.pc = pc]
<1>1. runner[r].pc = "load" /\ UNCHANGED <<seq, run, claim, supervisor, live, passed>>
  BY DEF Load
<1>2. Becomes(r, refused) \/ Becomes(r, loaded)
  BY DEF Load, Goto
<1>3. /\ refused \in Runner /\ refused.my = runner[r].my /\ refused.pc = "release"
  BY RunnerTyped, PcTyped DEF Pc
<1>4. my \in Sequence /\ own \in RunState /\ todo \subseteq Slices /\ pc \in Pc
  BY RecordsTyped DEF FolderInv, TypeOK, Pc
<1>5. my.sup \in {seq.sup, 0}
  BY RecordsTyped
<1>6. resumes \in BOOLEAN
  OBVIOUS
<1> HIDE DEF resumes, my, own, todo
<1>7. loaded \in Runner /\ loaded.my = my /\ loaded.pc = pc
  BY <1>4, <1>6, RunnerTyped DEF Runner
<1> HIDE DEF refused, loaded
<1>8. Quiet
  BY <1>1 DEF Frame, FolderInv, TypeOK, Quiet
<1>9. Follows(r, refused)
  BY <1>1, <1>3 DEF Follows, Busy, Holds
<1>10. Follows(r, loaded)
  BY <1>1, <1>5, <1>7 DEF Follows, Busy, Holds
<1> QED BY <1>1, <1>2, <1>8, <1>9, <1>10, QuietStep

LEMMA PrepareKeeps ==
    ASSUME FolderInv, NEW r \in Runs, Frame, Prepare(r) PROVE FolderInv'
<1>1. runner[r].pc = "prepare" /\ UNCHANGED <<run, claim, supervisor, live, passed>>
  BY DEF Prepare
<1>2. PICK pc \in {"next", Exit(r)} :
        LET new == [runner[r] EXCEPT !.pc = pc]
        IN  Becomes(r, new) /\ (seq' = seq \/ seq' = new.my)
  BY DEF Prepare, Goto, Saves
<1> DEFINE new == [runner[r] EXCEPT !.pc = pc]
<1>0. pc \in Pc
  BY RunnerTyped DEF Pc
<1>3. new \in Runner /\ new.my = runner[r].my /\ new.pc = pc
  BY <1>0, RunnerTyped, PcTyped
<1>4. Becomes(r, new) /\ (seq' = seq \/ seq' = new.my)
  BY <1>2
<1> HIDE DEF new
<1>5. Follows(r, new)
  BY <1>1, <1>3 DEF Follows, Exit, Busy, Holds
<1>6. Quiet
  BY <1>1 DEF Frame, FolderInv, TypeOK, Quiet
<1> QED BY <1>4, <1>5, <1>6, QuietStep
LEMMA SkipSpecificationKeeps ==
    ASSUME FolderInv, NEW r \in Runs, Frame, SkipSpecification(r) PROVE FolderInv'
<1> DEFINE my == Marked(runner[r].my, Slice(r), "skipped", {})
           new == [runner[r] EXCEPT !.my = my, !.pc = "record"]
<1>1. /\ runner[r].pc = "next" /\ runner[r].todo # {}
      /\ UNCHANGED <<run, claim, supervisor, live>>
      /\ passed' = {} \/ passed' = passed
      /\ seq' = new.my /\ Becomes(r, new)
  BY DEF SkipSpecification, Saves
<1>2. my \in Sequence /\ my.sup = runner[r].my.sup
  BY ItemMarked
<1> HIDE DEF my
<1>3. new \in Runner /\ new.my = my /\ new.pc = "record" /\ new.todo = runner[r].todo
  <2>1. "record" \in Pc
    BY DEF Pc
  <2>2. runner[r] \in Runner
    BY RunnerTyped
  <2> QED BY <2>1, <2>2, <1>2 DEF Runner
<1> HIDE DEF new
<1>4. Follows(r, new)
  BY <1>1, <1>2, <1>3, RunnerTyped DEF Follows, Exit, Busy, Holds, RunInv
<1>5. Quiet
  BY <1>1, RunnerTyped DEF Frame, FolderInv, TypeOK, Quiet
<1> QED BY <1>1, <1>4, <1>5, QuietStep

LEMMA StartSliceKeeps ==
    ASSUME FolderInv, NEW r \in Runs, Frame, StartSlice(r) PROVE FolderInv'
<1> DEFINE my == Marked(runner[r].my, Slice(r), "running", {})
           to(repair) == [runner[r] EXCEPT !.my = my, !.attempt = 0, !.repaired = repair,
                                           !.pc = "launch"]
<1>1. /\ runner[r].pc = "next" /\ runner[r].todo # {}
      /\ UNCHANGED <<run, claim, supervisor, live>>
      /\ passed' = {} \/ passed' = passed
  BY DEF StartSlice
<1>2. PICK repair \in BOOLEAN : seq' = to(repair).my /\ Becomes(r, to(repair))
  BY DEF StartSlice, Saves
<1>3. my \in Sequence /\ my.sup = runner[r].my.sup
  BY ItemMarked
<1> HIDE DEF my
<1> DEFINE new == to(repair)
<1>4. 0 \in 0 .. RecoveryAttempts
  OBVIOUS
<1>5. new \in Runner /\ new.my = my /\ new.pc = "launch" /\ new.todo = runner[r].todo
  <2>1. "launch" \in Pc
    BY DEF Pc
  <2>2. runner[r] \in Runner
    BY RunnerTyped
  <2> QED BY <2>1, <2>2, <1>3, <1>4 DEF Runner
<1>6. seq' = new.my /\ Becomes(r, new)
  BY <1>2
<1> HIDE DEF new
<1>7. Follows(r, new)
  BY <1>1, <1>3, <1>5, RunnerTyped DEF Follows, Exit, Busy, Holds, RunInv
<1>8. Quiet
  BY <1>1, RunnerTyped DEF Frame, FolderInv, TypeOK, Quiet
<1> QED BY <1>6, <1>7, <1>8, QuietStep

LEMMA LaunchKeeps ==
    ASSUME FolderInv, NEW r \in Runs, Frame, Launch(r) PROVE FolderInv'
<1> DEFINE new == [runner[r] EXCEPT !.pc = "wait"]
<1>1. /\ runner[r].pc = "launch" /\ Becomes(r, new)
      /\ UNCHANGED <<seq, run, claim, supervisor, passed>>
      /\ live' = live \cup {<<r, Slice(r)>>}
  BY DEF Launch, Goto
<1>2. runner[r].todo # {}
  BY <1>1, RunnerTyped DEF RunInv, Busy
<1>3. live' \subseteq Runs \X Slices
  BY <1>1, <1>2, SliceTyped DEF FolderInv, TypeOK
<1>4. new \in Runner /\ new.my = runner[r].my /\ new.pc = "wait" /\ new.todo = runner[r].todo
  <2>1. "wait" \in Pc
    BY DEF Pc
  <2> QED BY <2>1, RunnerTyped, PcTyped
<1> HIDE DEF new
<1>5. Follows(r, new)
  BY <1>1, <1>2, <1>4, RunnerTyped DEF Follows, Exit, Busy, Holds, RunInv
<1>6. Quiet
  BY <1>1, <1>3, RunnerTyped DEF Frame, FolderInv, TypeOK, Quiet
<1> QED BY <1>1, <1>5, <1>6, QuietStep

LEMMA SlicePassesKeeps ==
    ASSUME FolderInv, NEW r \in Runs, Frame, SlicePasses(r) PROVE FolderInv'
<1> DEFINE my(ids) == Marked(runner[r].my, Slice(r), "succeeded", ids)
           to(ids) == [runner[r] EXCEPT !.my = my(ids), !.pc = "record"]
<1>1. runner[r].pc = "wait" /\ UNCHANGED <<run, claim, supervisor, live>>
  BY DEF SlicePasses, Ended
<1>2. runner[r].todo # {}
  BY <1>1, RunnerTyped DEF RunInv, Busy
<1>3. Slice(r) \in Slices
  BY <1>2, SliceTyped DEF FolderInv
<1>4. PICK ids \in SUBSET {Slice(r)} : seq' = to(ids).my /\ Becomes(r, to(ids))
  BY DEF SlicePasses, Saves
<1>5. my(ids) \in Sequence /\ my(ids).sup = runner[r].my.sup
  BY <1>3, ItemMarked
<1> HIDE DEF my
<1> DEFINE new == to(ids)
<1>6. new \in Runner /\ new.my = my(ids) /\ new.pc = "record" /\ new.todo = runner[r].todo
  <2>1. "record" \in Pc
    BY DEF Pc
  <2>2. runner[r] \in Runner
    BY RunnerTyped
  <2> QED BY <2>1, <2>2, <1>5 DEF Runner
<1>7. seq' = new.my /\ Becomes(r, new)
  BY <1>4
<1>8. passed' \subseteq Slices
  BY <1>3 DEF SlicePasses, FolderInv, TypeOK
<1> HIDE DEF new
<1>9. Follows(r, new)
  BY <1>1, <1>2, <1>5, <1>6, RunnerTyped DEF Follows, Exit, Busy, Holds, RunInv
<1>10. Quiet
  BY <1>1, <1>8, RunnerTyped DEF Frame, FolderInv, TypeOK, Quiet
<1> QED BY <1>7, <1>9, <1>10, QuietStep

LEMMA GateBlocksKeeps ==
    ASSUME FolderInv, NEW r \in Runs, Frame, GateBlocks(r) PROVE FolderInv'
<1> DEFINE my(ids) == Marked(runner[r].my, Slice(r), "gate-blocked", ids)
           to(ids) == [runner[r] EXCEPT !.my = my(ids), !.pc = "blocked"]
<1>1. runner[r].pc = "wait" /\ UNCHANGED <<run, claim, supervisor, live, passed>>
  BY DEF GateBlocks, Ended
<1>2. runner[r].todo # {}
  BY <1>1, RunnerTyped DEF RunInv, Busy
<1>3. Slice(r) \in Slices
  BY <1>2, SliceTyped DEF FolderInv
<1>4. PICK ids \in SUBSET {Slice(r)} : seq' = to(ids).my /\ Becomes(r, to(ids))
  BY DEF GateBlocks, Saves
<1>5. my(ids) \in Sequence /\ my(ids).sup = runner[r].my.sup
  BY <1>3, ItemMarked
<1> HIDE DEF my
<1> DEFINE new == to(ids)
<1>6. new \in Runner /\ new.my = my(ids) /\ new.pc = "blocked" /\ new.todo = runner[r].todo
  <2>1. "blocked" \in Pc
    BY DEF Pc
  <2>2. runner[r] \in Runner
    BY RunnerTyped
  <2> QED BY <2>1, <2>2, <1>5 DEF Runner
<1>7. seq' = new.my /\ Becomes(r, new)
  BY <1>4
<1>8. passed' \subseteq Slices
  BY <1>1, <1>3 DEF FolderInv, TypeOK
<1> HIDE DEF new
<1>9. Follows(r, new)
  BY <1>1, <1>2, <1>5, <1>6, RunnerTyped DEF Follows, Exit, Busy, Holds, RunInv
<1>10. Quiet
  BY <1>1, <1>8, RunnerTyped DEF Frame, FolderInv, TypeOK, Quiet
<1> QED BY <1>7, <1>9, <1>10, QuietStep

LEMMA SliceFailsKeeps ==
    ASSUME FolderInv, NEW r \in Runs, Frame, SliceFails(r) PROVE FolderInv'
<1> DEFINE my(ids) == Marked(runner[r].my, Slice(r), "failed", ids)
           to(ids) == [runner[r] EXCEPT !.my = my(ids), !.pc = "failed"]
<1>1. runner[r].pc = "wait" /\ UNCHANGED <<run, claim, supervisor, live, passed>>
  BY DEF SliceFails, Ended
<1>2. runner[r].todo # {}
  BY <1>1, RunnerTyped DEF RunInv, Busy
<1>3. Slice(r) \in Slices
  BY <1>2, SliceTyped DEF FolderInv
<1>4. PICK ids \in SUBSET {Slice(r)} : seq' = to(ids).my /\ Becomes(r, to(ids))
  BY DEF SliceFails, Saves
<1>5. my(ids) \in Sequence /\ my(ids).sup = runner[r].my.sup
  BY <1>3, ItemMarked
<1> HIDE DEF my
<1> DEFINE new == to(ids)
<1>6. new \in Runner /\ new.my = my(ids) /\ new.pc = "failed" /\ new.todo = runner[r].todo
  <2>1. "failed" \in Pc
    BY DEF Pc
  <2>2. runner[r] \in Runner
    BY RunnerTyped
  <2> QED BY <2>1, <2>2, <1>5 DEF Runner
<1>7. seq' = new.my /\ Becomes(r, new)
  BY <1>4
<1>8. passed' \subseteq Slices
  BY <1>1, <1>3 DEF FolderInv, TypeOK
<1> HIDE DEF new
<1>9. Follows(r, new)
  BY <1>1, <1>2, <1>5, <1>6, RunnerTyped DEF Follows, Exit, Busy, Holds, RunInv
<1>10. Quiet
  BY <1>1, <1>8, RunnerTyped DEF Frame, FolderInv, TypeOK, Quiet
<1> QED BY <1>7, <1>9, <1>10, QuietStep

LEMMA RecoverKeeps ==
    ASSUME FolderInv, NEW r \in Runs, Frame, Recover(r) PROVE FolderInv'
<1> DEFINE my(ids) == Marked(runner[r].my, Slice(r), "running", ids)
           to(ids, repair) == [runner[r] EXCEPT !.my = my(ids), !.pc = "launch",
                                                !.attempt = @ + 1, !.repaired = repair]
<1>1. runner[r].pc = "wait" /\ UNCHANGED <<run, claim, supervisor, live, passed>>
  BY DEF Recover, Ended
<1>2. runner[r].todo # {}
  BY <1>1, RunnerTyped DEF RunInv, Busy
<1>3. Slice(r) \in Slices
  BY <1>2, SliceTyped DEF FolderInv
<1>4. PICK ids \in SUBSET {Slice(r)}, repair \in BOOLEAN :
         Saves(r, to(ids, repair))
  BY DEF Recover
<1>5. my(ids) \in Sequence /\ my(ids).sup = runner[r].my.sup
  <2>1. ids \in SUBSET Slices
    BY <1>3
  <2> QED BY <2>1, ItemMarked
<1> HIDE DEF my
<1>6. runner[r].attempt + 1 \in 0 .. RecoveryAttempts
  BY RunnerTyped DEF Recover, MayRetry, Runner
<1> DEFINE new == [runner[r] EXCEPT !.my = my(ids), !.attempt = runner[r].attempt + 1,
                                    !.repaired = repair, !.pc = "launch"]
<1>7. new \in Runner /\ new.my = my(ids) /\ new.pc = "launch" /\ new.todo = runner[r].todo
  <2>1. "launch" \in Pc
    BY DEF Pc
  <2>2. runner[r] \in Runner
    BY RunnerTyped
  <2> QED BY <2>1, <2>2, <1>5, <1>6 DEF Runner
<1>8. seq' = new.my /\ Becomes(r, new)
  <2>1. to(ids, repair) = new
    BY RunnerTyped DEF Runner
  <2> QED BY <1>4, <2>1 DEF Saves
<1> HIDE DEF new
<1>9. Follows(r, new)
  BY <1>1, <1>2, <1>5, <1>7, RunnerTyped DEF Follows, Exit, Busy, Holds, RunInv
<1>10. Quiet
  BY <1>1, RunnerTyped DEF Frame, FolderInv, TypeOK, Quiet
<1> QED BY <1>8, <1>9, <1>10, QuietStep

LEMMA RecordSliceKeeps ==
    ASSUME FolderInv, NEW r \in Runs, Frame, RecordSlice(r) PROVE FolderInv'
<1> DEFINE own == [status |-> "running",
                   completed |-> runner[r].own.completed \cup {Slice(r)}]
           new == [runner[r] EXCEPT !.own = own, !.todo = @ \ {Slice(r)}, !.pc = "next"]
<1>1. /\ runner[r].pc = "record" /\ Becomes(r, new) /\ run' = own
      /\ UNCHANGED <<seq, claim, supervisor, live, passed>>
  BY DEF RecordSlice
<1>2. Slice(r) \in Slices
  BY <1>1, RunnerTyped, SliceTyped DEF RunInv, Busy, FolderInv
<1>3. own \in RunState
  BY <1>2, RunnerTyped DEF RunState, RunStatus
<1> HIDE DEF own
<1>4. new \in Runner /\ new.my = runner[r].my /\ new.pc = "next"
  BY <1>3, RunnerTyped DEF Runner, Pc
<1> HIDE DEF new
<1>5. Follows(r, new)
  BY <1>1, <1>4, RunnerTyped DEF Follows, Exit, Busy, Holds, RunInv
<1>6. Quiet
  BY <1>1, <1>3, RunnerTyped DEF Frame, FolderInv, TypeOK, Quiet
<1> QED BY <1>1, <1>5, <1>6, QuietStep

LEMMA RecordBlockedKeeps ==
    ASSUME FolderInv, NEW r \in Runs, Frame, RecordBlocked(r) PROVE FolderInv'
<1> DEFINE own == [status |-> "product-blocked",
                   completed |-> runner[r].own.completed \cup {Slice(r)}]
           new == [runner[r] EXCEPT !.own = own, !.pc = Exit(r)]
<1>1. /\ runner[r].pc = "blocked" /\ Becomes(r, new) /\ run' = own
      /\ UNCHANGED <<seq, claim, supervisor, live, passed>>
  BY DEF RecordBlocked
<1>2. Slice(r) \in Slices
  BY <1>1, RunnerTyped, SliceTyped DEF RunInv, Busy, FolderInv
<1>3. own \in RunState
  BY <1>2, RunnerTyped DEF RunState, RunStatus
<1> HIDE DEF own
<1>4. new \in Runner /\ new.my = runner[r].my /\ new.pc = Exit(r)
  BY <1>3, RunnerTyped DEF Runner, Pc
<1> HIDE DEF new
<1>5. Follows(r, new)
  BY <1>1, <1>4, RunnerTyped DEF Follows, Exit, Busy, Holds, RunInv
<1>6. Quiet
  BY <1>1, <1>3, RunnerTyped DEF Frame, FolderInv, TypeOK, Quiet
<1> QED BY <1>1, <1>5, <1>6, QuietStep

LEMMA RecordFailedKeeps ==
    ASSUME FolderInv, NEW r \in Runs, Frame, RecordFailed(r) PROVE FolderInv'
<1> DEFINE own == [runner[r].own EXCEPT !.status = "failed"]
           new == [runner[r] EXCEPT !.own = own, !.pc = Exit(r)]
<1>1. /\ runner[r].pc = "failed" /\ Becomes(r, new) /\ run' = own
      /\ UNCHANGED <<seq, claim, supervisor, live, passed>>
  BY DEF RecordFailed
<1>2. runner[r].own \in RunState
  BY RunnerTyped
<1>3. own \in RunState
  BY <1>2, RunnerTyped DEF RunState, RunStatus
<1> HIDE DEF own
<1>4. new \in Runner /\ new.my = runner[r].my /\ new.pc = Exit(r)
  BY <1>3, RunnerTyped DEF Runner, Pc
<1> HIDE DEF new
<1>5. Follows(r, new)
  BY <1>1, <1>4, RunnerTyped DEF Follows, Exit, Busy, Holds, RunInv
<1>6. Quiet
  BY <1>1, <1>3, RunnerTyped DEF Frame, FolderInv, TypeOK, Quiet
<1> QED BY <1>1, <1>5, <1>6, QuietStep

LEMMA FinishRunKeeps ==
    ASSUME FolderInv, NEW r \in Runs, Frame, FinishRun(r) PROVE FolderInv'
<1> DEFINE own == [runner[r].own EXCEPT !.status = "completed"]
           new == [runner[r] EXCEPT !.own = own, !.pc = "finish"]
<1>1. /\ runner[r].pc = "next" /\ Becomes(r, new) /\ run' = own
      /\ UNCHANGED <<seq, claim, supervisor, live, passed>>
  BY DEF FinishRun
<1>2. runner[r].own \in RunState
  BY RunnerTyped
<1>3. own \in RunState
  BY <1>2, RunnerTyped DEF RunState, RunStatus
<1> HIDE DEF own
<1>4. new \in Runner /\ new.my = runner[r].my /\ new.pc = "finish"
  BY <1>3, RunnerTyped DEF Runner, Pc
<1> HIDE DEF new
<1>5. Follows(r, new)
  BY <1>1, <1>4, RunnerTyped DEF Follows, Exit, Busy, Holds, RunInv
<1>6. Quiet
  BY <1>1, <1>3, RunnerTyped DEF Frame, FolderInv, TypeOK, Quiet
<1> QED BY <1>1, <1>5, <1>6, QuietStep

LEMMA FinishSequenceKeeps ==
    ASSUME FolderInv, NEW r \in Runs, Frame, FinishSequence(r) PROVE FolderInv'
<1> DEFINE my == [runner[r].my EXCEPT !.status = "completed"]
           new == [runner[r] EXCEPT !.my = my, !.pc = Exit(r)]
<1>1. /\ runner[r].pc = "finish" /\ UNCHANGED <<run, claim, supervisor, live, passed>>
      /\ Becomes(r, [runner[r] EXCEPT !.my.status = "completed", !.pc = Exit(r)])
      /\ seq' = [runner[r] EXCEPT !.my.status = "completed", !.pc = Exit(r)].my
  BY DEF FinishSequence, Saves
<1>2. [runner[r] EXCEPT !.my.status = "completed", !.pc = Exit(r)] = new
  BY RunnerTyped DEF Runner
<1>3. my \in Sequence /\ my.sup = runner[r].my.sup
  BY RunnerTyped DEF Sequence, SequenceStatus
<1> HIDE DEF my
<1>4. new \in Runner /\ new.my = my /\ new.pc = Exit(r)
  BY <1>3, RunnerTyped DEF Runner
<1>5. seq' = new.my /\ Becomes(r, new)
  BY <1>1, <1>2
<1> HIDE DEF new
<1>6. Follows(r, new)
  BY <1>1, <1>3, <1>4, RunnerTyped DEF Follows, Exit, Busy, Holds, RunInv
<1>7. Quiet
  BY <1>1, RunnerTyped DEF Frame, FolderInv, TypeOK, Quiet
<1> QED BY <1>5, <1>6, <1>7, QuietStep

LEMMA LeaveKeeps ==
    ASSUME FolderInv, NEW r \in Runs, Frame, Leave(r) PROVE FolderInv'
<1> DEFINE pc == IF seq.status = "cancelled" THEN "signoff" ELSE "sign"
           new == [runner[r] EXCEPT !.pc = pc]
<1>1. /\ runner[r].pc = "leave" /\ Becomes(r, new)
      /\ UNCHANGED <<seq, run, claim, supervisor, live, passed>>
  BY DEF Leave, Goto
<1>2. pc \in Pc /\ pc \in {"sign", "signoff"}
  BY DEF Pc
<1> HIDE DEF pc
<1>3. new \in Runner /\ new.my = runner[r].my /\ new.pc = pc
  BY <1>2, RunnerTyped, PcTyped
<1> HIDE DEF new
<1>4. Follows(r, new)
  BY <1>1, <1>2, <1>3, RunnerTyped DEF Follows, Exit, Busy, Holds, RunInv
<1>5. Quiet
  BY <1>1, RunnerTyped DEF Frame, FolderInv, TypeOK, Quiet
<1> QED BY <1>1, <1>4, <1>5, QuietStep

LEMMA LastSaveKeeps ==
    ASSUME FolderInv, NEW r \in Runs, Frame, LastSave(r) PROVE FolderInv'
<1> DEFINE new == [runner[r] EXCEPT !.pc = "release"]
<1>1. /\ runner[r].pc = "lastsave" /\ Becomes(r, new) /\ seq' = new.my
      /\ UNCHANGED <<run, claim, supervisor, live, passed>>
  BY DEF LastSave, Saves
<1>2. new \in Runner /\ new.my = runner[r].my /\ new.pc = "release"
  BY RunnerTyped, PcTyped DEF Pc
<1> HIDE DEF new
<1>3. Follows(r, new)
  BY <1>1, <1>2, RunnerTyped DEF Follows, Exit, Busy, Holds, RunInv
<1>4. Quiet
  BY <1>1, RunnerTyped DEF Frame, FolderInv, TypeOK, Quiet
<1> QED BY <1>1, <1>3, <1>4, QuietStep

LEMMA CrashKeeps ==
    ASSUME FolderInv, NEW r \in Runs, Crash(r), UNCHANGED <<folder, detached>>
    PROVE  FolderInv'
<1> DEFINE new == [runner[r] EXCEPT !.pc = "dead"]
<1>1. /\ Becomes(r, new) /\ crashes < MaxCrashes /\ crashes' = crashes + 1
      /\ UNCHANGED <<seq, run, claim, supervisor, live, passed, canceller, reconciler>>
  BY DEF Crash, Goto
<1>2. new \in Runner /\ new.my = runner[r].my /\ new.pc = "dead"
  BY RunnerTyped, PcTyped DEF Pc
<1> HIDE DEF new
<1>3. Follows(r, new)
  BY <1>1, <1>2, RunnerTyped DEF Follows, Busy, Holds
<1>4. Quiet
  BY <1>1 DEF FolderInv, TypeOK, Quiet
<1> QED BY <1>1, <1>3, <1>4, QuietStep

-----------------------------------------------------------------------------
(* The steps that change the claim or a supervisor record.                  *)

\* What another run needs of a step that leaves it alone.
LEMMA OthersKeep ==
    ASSUME FolderInv, NEW q \in Runs, runner'[q] = runner[q], UNCHANGED detached,
           supervisor'[q] = supervisor[q],
           \A x \in Runs : Announced(x) => Announced(x)',
           runner[q].pc \in Holds => claim' = claim
    PROVE  RunInv(q)'
<1>1. RunInv(q) /\ runner[q].my.sup \in Runs \cup {0}
  BY DEF FolderInv, TypeOK, Runner, Sequence
<1>2. Announced(runner[q].my.sup)'
  BY <1>1 DEF RunInv, Announced
<1> QED BY <1>1, <1>2 DEF RunInv

LEMMA NamesTyped ==
    ASSUME TypeOK
    PROVE  /\ seq.sup \in Runs \cup {0}
           /\ canceller.sup \in Runs \cup {0}
           /\ canceller.copy.sup \in Runs \cup {0}
           /\ reconciler.copy.sup \in Runs \cup {0}
           /\ canceller.copy \in Sequence
           /\ reconciler.copy \in Sequence
BY DEF TypeOK, Operator, Sequence

\* A claim is only taken over from a run that has died.
LEMMA InvokeKeeps ==
    ASSUME FolderInv, NEW r \in Runs, Frame, Invoke(r) PROVE FolderInv'
<1>1. /\ runner[r].pc = "unborn" /\ (claim # 0 => ~Alive(claim)) /\ claim' = r
      /\ UNCHANGED <<seq, run, supervisor, live, passed>>
  BY DEF Invoke
<1>2. PICK mode \in Modes : Becomes(r, [Unborn EXCEPT !.pc = "load", !.mode = mode])
  BY DEF Invoke
<1> DEFINE new == [Unborn EXCEPT !.pc = "load", !.mode = mode]
<1>3. "load" \in Pc /\ mode \in Mode
  BY DEF Pc
<1>4. new \in Runner /\ new.pc = "load" /\ new.my.sup = 0
  BY <1>3, RecordsTyped DEF Runner
<1>5. Becomes(r, new)
  BY <1>2
<1> HIDE DEF new
<1>6. runner' \in [Runs -> Runner] /\ runner'[r] = new /\ \A q \in Runs \ {r} : runner'[q] = runner[q]
  BY <1>4, <1>5, BecomesTyped DEF FolderInv, TypeOK
<1>7. TypeOK'
  BY <1>1, <1>6 DEF FolderInv, TypeOK, Frame
<1>8. \A x : Announced(x)' <=> Announced(x)
  BY <1>1 DEF Announced
<1>9. ASSUME NEW q \in Runs PROVE runner[q].pc \notin Holds
  <2>1. RunInv(q) /\ q # 0
    BY DEF FolderInv, Runs
  <2> QED BY <1>1, <2>1 DEF RunInv, Alive, Holds
<1>10. RunInv(r)'
  <2>1. RunInv(r)
    BY DEF FolderInv
  <2>2. supervisor'[r] = "none" /\ (~detached'[r] => supervisor'[r] = "none")
    BY <1>1, <2>1 DEF RunInv
  <2>3. Announced(runner[r].my.sup)'
    BY <1>4, <1>6 DEF Announced
  <2> QED BY <1>1, <1>4, <1>6, <2>2, <2>3 DEF RunInv, Busy
<1>11. ASSUME NEW q \in Runs \ {r} PROVE RunInv(q)'
  BY <1>1, <1>6, <1>8, <1>9, OthersKeep DEF Frame
<1> QED BY <1>1, <1>7, <1>8, <1>10, <1>11 DEF FolderInv, Frame

LEMMA AnnounceKeeps ==
    ASSUME FolderInv, NEW r \in Runs, Frame, Announce(r) PROVE FolderInv'
<1> DEFINE my == [runner[r].my EXCEPT !.sup = r]
           new == [runner[r] EXCEPT !.my = my, !.pc = "prepare"]
<1>1. /\ runner[r].pc = "announce" /\ UNCHANGED <<run, claim, live>>
      /\ supervisor' = [supervisor EXCEPT ![r] = "running"]
      /\ passed' = {} \/ passed' = passed
  BY DEF Announce
<1>2. Saves(r, [runner[r] EXCEPT !.my.sup = r, !.pc = "prepare"])
  BY DEF Announce
<1>3. runner[r] \in Runner /\ my \in Sequence /\ my.sup = r
  BY RunnerTyped DEF Sequence
<1>4. [runner[r] EXCEPT !.my.sup = r, !.pc = "prepare"] = new
  BY <1>3 DEF Runner
<1>5. seq' = new.my /\ Becomes(r, new)
  BY <1>2, <1>4 DEF Saves
<1> HIDE DEF my
<1>6. new \in Runner /\ new.my = my /\ new.pc = "prepare"
  <2>1. "prepare" \in Pc
    BY DEF Pc
  <2> QED BY <2>1, <1>3 DEF Runner
<1> HIDE DEF new
<1>7. runner' \in [Runs -> Runner] /\ runner'[r] = new /\ \A q \in Runs \ {r} : runner'[q] = runner[q]
  BY <1>5, <1>6, BecomesTyped DEF FolderInv, TypeOK
<1>8. TypeOK'
  BY <1>1, <1>3, <1>5, <1>6, <1>7 DEF FolderInv, TypeOK, Frame
<1>9. supervisor'[r] = "running" /\ \A q \in Runs \ {r} : supervisor'[q] = supervisor[q]
  BY <1>1 DEF FolderInv, TypeOK
<1>10. \A x \in Runs \cup {0} : Announced(x) => Announced(x)'
  BY <1>9 DEF Announced
<1>11. Announced(r)'
  BY <1>9 DEF Announced
<1>12. RunInv(r)'
  <2>1. RunInv(r) /\ claim' = r /\ detached'[r]
    BY <1>1, RunnerTyped DEF RunInv, Holds, Frame
  <2> QED BY <1>3, <1>6, <1>7, <1>9, <1>11, <2>1 DEF RunInv, Busy
<1>13. ASSUME NEW q \in Runs \ {r} PROVE RunInv(q)'
  BY <1>1, <1>7, <1>9, <1>10, OthersKeep DEF Frame
<1>14. Announced(seq.sup)'
  BY <1>3, <1>5, <1>6, <1>11
<1>15. TypeOK
  BY DEF FolderInv
<1> QED BY <1>8, <1>10, <1>12, <1>13, <1>14, <1>15, NamesTyped DEF FolderInv, Frame, Announced

LEMMA SignKeeps ==
    ASSUME FolderInv, NEW r \in Runs, Frame, Sign(r) PROVE FolderInv'
<1> DEFINE pc == IF At(r, "sign") THEN "lastsave" ELSE "release"
           new == [runner[r] EXCEPT !.pc = pc]
<1>1. /\ runner[r].pc \in {"sign", "signoff"} /\ Becomes(r, new)
      /\ supervisor' = [supervisor EXCEPT ![r] = "closed"]
      /\ UNCHANGED <<seq, run, claim, live, passed>>
  BY DEF Sign, Goto
<1>2. pc \in Pc /\ pc \in {"lastsave", "release"}
  BY DEF Pc
<1> HIDE DEF pc
<1>3. new \in Runner /\ new.my = runner[r].my /\ new.pc = pc
  BY <1>2, RunnerTyped, PcTyped
<1> HIDE DEF new
<1>4. runner' \in [Runs -> Runner] /\ runner'[r] = new /\ \A q \in Runs \ {r} : runner'[q] = runner[q]
  BY <1>1, <1>3, BecomesTyped DEF FolderInv, TypeOK
<1>5. TypeOK'
  BY <1>1, <1>4 DEF FolderInv, TypeOK, Frame
<1>6. supervisor'[r] = "closed" /\ \A q \in Runs \ {r} : supervisor'[q] = supervisor[q]
  BY <1>1 DEF FolderInv, TypeOK
<1>7. \A x \in Runs \cup {0} : Announced(x) => Announced(x)'
  BY <1>6 DEF Announced
<1>8. RunInv(r)'
  <2>1. RunInv(r) /\ detached'[r]
    BY <1>1, RunnerTyped DEF RunInv, Frame
  <2>2. runner[r].my.sup \in Runs \cup {0}
    BY RunnerTyped DEF Sequence
  <2>3. Announced(runner[r].my.sup)'
    BY <1>3, <1>4, <1>7, <2>1, <2>2 DEF RunInv, Announced
  <2> QED BY <1>2, <1>3, <1>4, <1>6, <2>1, <2>3 DEF RunInv, Busy, Holds
<1>9. ASSUME NEW q \in Runs \ {r} PROVE RunInv(q)'
  BY <1>1, <1>4, <1>6, <1>7, OthersKeep DEF Frame
<1>10. TypeOK
  BY DEF FolderInv
<1> QED BY <1>1, <1>5, <1>7, <1>8, <1>9, <1>10, NamesTyped DEF FolderInv, Frame, Announced

LEMMA ReleaseKeeps ==
    ASSUME FolderInv, NEW r \in Runs, Frame, Release(r) PROVE FolderInv'
<1> DEFINE new == [runner[r] EXCEPT !.pc = "dead"]
<1>1. /\ runner[r].pc = "release" /\ Becomes(r, new)
      /\ claim' = IF claim = r THEN 0 ELSE claim
      /\ UNCHANGED <<seq, run, supervisor, live, passed>>
  BY DEF Release, Goto
<1>2. new \in Runner /\ new.my = runner[r].my /\ new.pc = "dead"
  BY RunnerTyped, PcTyped DEF Pc
<1> HIDE DEF new
<1>3. runner' \in [Runs -> Runner] /\ runner'[r] = new /\ \A q \in Runs \ {r} : runner'[q] = runner[q]
  BY <1>1, <1>2, BecomesTyped DEF FolderInv, TypeOK
<1>4. TypeOK'
  BY <1>1, <1>3 DEF FolderInv, TypeOK, Frame
<1>5. \A x : Announced(x)' <=> Announced(x)
  BY <1>1 DEF Announced
<1>6. RunInv(r)'
  BY <1>1, <1>2, <1>3, <1>5, RunnerTyped DEF RunInv, Busy, Holds, Frame
<1>7. ASSUME NEW q \in Runs \ {r} PROVE RunInv(q)'
  <2>1. runner[q].pc \in Holds => claim' = claim
    BY <1>1 DEF FolderInv, RunInv
  <2> QED BY <1>1, <1>3, <1>5, <2>1, OthersKeep DEF Frame
<1> QED BY <1>1, <1>4, <1>5, <1>6, <1>7 DEF FolderInv, Frame

-----------------------------------------------------------------------------
(* The steps of the commands.                                               *)

\* A step that leaves the runs, the claim and the supervisor records alone.
LEMMA RunsKeep ==
    ASSUME FolderInv, UNCHANGED <<detached, claim, supervisor, runner>>
    PROVE  (\A r \in Runs : RunInv(r)') /\ (\A x : Announced(x)' <=> Announced(x))
BY DEF FolderInv, RunInv, Announced

LEMMA CopiesTyped ==
    ASSUME NEW s \in Sequence
    PROVE  /\ Cancelled(s) \in Sequence /\ Cancelled(s).sup = s.sup
           /\ Interrupted(s) \in Sequence /\ Interrupted(s).sup = s.sup
<1>1. Cancelled(s) \in Sequence /\ Cancelled(s).sup = s.sup
  <2> DEFINE items == [k \in Slices |->
                         IF s.items[k] \in {"succeeded", "skipped", "failed", "gate-blocked"}
                         THEN s.items[k] ELSE "cancelled"]
  <2>1. items \in [Slices -> ItemStatus]
    BY DEF Sequence, ItemStatus
  <2>2. Cancelled(s) = [s EXCEPT !.status = "cancelled", !.items = items]
    BY DEF Cancelled, Sequence
  <2> HIDE DEF items
  <2> QED BY <2>1, <2>2 DEF Sequence, SequenceStatus
<1>2. Interrupted(s) \in Sequence /\ Interrupted(s).sup = s.sup
  <2> DEFINE with(status) == {k \in Slices : s.items[k] = status}
             hit == IF with("running") # {} THEN with("running")
                    ELSE IF with("pending") # {} THEN {Min(with("pending"))} ELSE {}
             items == [k \in Slices |-> IF k \in hit THEN "interrupted" ELSE s.items[k]]
  <2>1. Interrupted(s) = [s EXCEPT !.status = "interrupted", !.items = items]
    BY DEF Interrupted, Sequence
  <2> HIDE DEF hit
  <2>2. items \in [Slices -> ItemStatus]
    BY DEF Sequence, ItemStatus
  <2> HIDE DEF items
  <2> QED BY <2>1, <2>2 DEF Sequence, SequenceStatus
<1> QED BY <1>1, <1>2

LEMMA OperatorTyped ==
    ASSUME NEW x \in Operator,
           NEW pc \in {"idle", "reload", "write", "stop"}, NEW s \in Sequence
    PROVE  LET y == [x EXCEPT !.pc = pc, !.copy = s]
           IN  y \in Operator /\ y.copy = s /\ y.sup = x.sup
BY DEF Operator

LEMMA CancelKeeps ==
    ASSUME FolderInv, UNCHANGED <<folder, detached, crashes>>,
           BeginCancel \/ ReloadSequence \/ WriteCancelled
    PROVE  FolderInv'
<1>1. TypeOK /\ Announced(0)
  BY DEF FolderInv, Announced
<1>2. CASE BeginCancel
  <2>1. UNCHANGED <<runVars, reconciler>> /\ canceller' = [Idle EXCEPT !.pc = "reload", !.sup = seq.sup]
    BY <1>2 DEF BeginCancel
  <2>2. canceller' \in Operator /\ canceller'.sup = seq.sup /\ canceller'.copy.sup = 0
    BY <1>1, <2>1, NamesTyped, RecordsTyped DEF Operator
  <2>3. TypeOK'
    BY <1>1, <2>1, <2>2 DEF TypeOK, runVars
  <2> QED BY <1>1, <2>1, <2>2, <2>3, RunsKeep DEF FolderInv, runVars
<1>3. CASE ReloadSequence
  <2>1. UNCHANGED <<runVars, reconciler>>
    BY <1>3 DEF ReloadSequence
  <2>2. canceller' = Idle \/ canceller' = [canceller EXCEPT !.pc = "write", !.copy = Cancelled(seq)]
    BY <1>3 DEF ReloadSequence
  <2>3. Cancelled(seq) \in Sequence /\ Cancelled(seq).sup = seq.sup
    BY <1>1, CopiesTyped DEF TypeOK
  <2>4. /\ canceller' \in Operator
        /\ canceller'.sup \in {0, canceller.sup}
        /\ canceller'.copy.sup \in {0, seq.sup}
    <3>1. CASE canceller' = Idle
      BY <3>1, RecordsTyped
    <3>2. CASE canceller' = [canceller EXCEPT !.pc = "write", !.copy = Cancelled(seq)]
      BY <1>1, <2>3, <3>2 DEF TypeOK, Operator
    <3> QED BY <2>2, <3>1, <3>2
  <2>5. TypeOK'
    BY <1>1, <2>1, <2>4 DEF TypeOK, runVars
  <2> QED BY <1>1, <2>1, <2>4, <2>5, RunsKeep DEF FolderInv, runVars
<1>4. CASE WriteCancelled
  <2>1. /\ seq' = canceller.copy
        /\ canceller' = [canceller EXCEPT !.pc = "stop", !.copy = NoSequence]
        /\ UNCHANGED <<run, claim, supervisor, runner, live, passed, reconciler>>
    BY <1>4 DEF WriteCancelled
  <2>2. canceller' \in Operator /\ canceller'.sup = canceller.sup /\ canceller'.copy.sup = 0
    BY <1>1, <2>1, RecordsTyped DEF TypeOK, Operator
  <2>3. TypeOK'
    BY <1>1, <2>1, <2>2, NamesTyped DEF TypeOK
  <2> QED BY <1>1, <2>1, <2>2, <2>3, RunsKeep DEF FolderInv
<1> QED BY <1>2, <1>3, <1>4

LEMMA ReconcileKeeps ==
    ASSUME FolderInv, UNCHANGED <<folder, detached, crashes>>, BeginReconcile \/ WriteInterrupted
    PROVE  FolderInv'
<1>1. TypeOK /\ Announced(0)
  BY DEF FolderInv, Announced
<1>2. CASE BeginReconcile
  <2>1. /\ UNCHANGED <<runVars, canceller>>
        /\ reconciler' = [Idle EXCEPT !.pc = "write", !.copy = Interrupted(seq)]
    BY <1>2 DEF BeginReconcile
  <2>2. Interrupted(seq) \in Sequence /\ Interrupted(seq).sup = seq.sup
    BY <1>1, CopiesTyped DEF TypeOK
  <2>3. reconciler' \in Operator /\ reconciler'.copy.sup = seq.sup
    BY <2>1, <2>2, RecordsTyped DEF Operator
  <2>4. TypeOK'
    BY <1>1, <2>1, <2>3 DEF TypeOK, runVars
  <2> QED BY <1>1, <2>1, <2>3, <2>4, RunsKeep DEF FolderInv, runVars
<1>3. CASE WriteInterrupted
  <2>1. /\ seq' = reconciler.copy /\ reconciler' = Idle
        /\ UNCHANGED <<run, claim, supervisor, runner, live, passed, canceller>>
    BY <1>3 DEF WriteInterrupted
  <2>2. TypeOK'
    BY <1>1, <2>1, NamesTyped, RecordsTyped DEF TypeOK
  <2> QED BY <1>1, <2>1, <2>2, RunsKeep, RecordsTyped DEF FolderInv
<1> QED BY <1>2, <1>3

\* Cancel kills the supervisor it names if its record says that it runs. If it
\* does not, that run no longer needs the claim.
LEMMA StopKeeps ==
    ASSUME FolderInv, UNCHANGED <<folder, detached, crashes>>, StopSupervisor
    PROVE  FolderInv'
<1>0. PICK r \in Runs \cup {0} : r = canceller.sup
  BY NamesTyped DEF FolderInv
<1>1. /\ claim' = ClaimReleased(r) /\ canceller' = Idle
      /\ UNCHANGED <<seq, run, live, passed, reconciler>>
  BY <1>0 DEF StopSupervisor
<1>2. TypeOK /\ Announced(r) /\ Announced(0)
  BY <1>0 DEF FolderInv, Announced
<1>3. canceller' \in Operator /\ canceller'.sup = 0 /\ canceller'.copy.sup = 0
  BY <1>1, RecordsTyped
<1>4. CASE r # 0 /\ supervisor[r] = "running"
  <2> DEFINE new == [runner[r] EXCEPT !.pc = "dead"]
  <2>1. r \in Runs /\ Becomes(r, new) /\ supervisor' = [supervisor EXCEPT ![r] = "cancelled"]
    BY <1>0, <1>4 DEF StopSupervisor, Goto
  <2>2. new \in Runner /\ new.my = runner[r].my /\ new.pc = "dead"
    BY <2>1, RunnerTyped, PcTyped DEF Pc
  <2> HIDE DEF new
  <2>3. /\ runner' \in [Runs -> Runner] /\ runner'[r] = new
        /\ \A q \in Runs \ {r} : runner'[q] = runner[q]
    BY <1>2, <2>1, <2>2, BecomesTyped DEF TypeOK
  <2>4. supervisor'[r] = "cancelled" /\ \A q \in Runs \ {r} : supervisor'[q] = supervisor[q]
    BY <1>2, <2>1 DEF TypeOK
  <2>5. TypeOK'
    BY <1>1, <1>2, <1>3, <2>1, <2>3 DEF TypeOK, ClaimReleased
  <2>6. \A x \in Runs \cup {0} : Announced(x) => Announced(x)'
    BY <2>4 DEF Announced
  <2>7. RunInv(r)'
    <3>1. RunInv(r) /\ runner[r].my.sup \in Runs \cup {0}
      BY <2>1, RunnerTyped DEF Sequence
    <3>2. detached[r]
      BY <1>4, <3>1 DEF RunInv
    <3>3. Announced(runner[r].my.sup)'
      BY <2>2, <2>3, <2>6, <3>1 DEF RunInv, Announced
    <3> QED BY <2>2, <2>3, <2>4, <3>2, <3>3 DEF RunInv, Busy, Holds
  <2>8. ASSUME NEW q \in Runs \ {r} PROVE RunInv(q)'
    <3>1. runner[q].pc \in Holds => claim' = claim
      BY <1>1 DEF FolderInv, RunInv, ClaimReleased
    <3> QED BY <2>3, <2>4, <2>6, <3>1, OthersKeep
  <2> QED BY <1>1, <1>2, <1>3, <2>5, <2>6, <2>7, <2>8, NamesTyped DEF FolderInv, Announced
<1>5. CASE ~(r # 0 /\ supervisor[r] = "running")
  <2>1. UNCHANGED <<supervisor, runner>>
    BY <1>0, <1>5 DEF StopSupervisor
  <2>2. TypeOK'
    BY <1>1, <1>2, <1>3, <2>1 DEF TypeOK, ClaimReleased
  <2>3. \A x : Announced(x)' <=> Announced(x)
    BY <2>1 DEF Announced
  <2>4. ASSUME NEW q \in Runs PROVE RunInv(q)'
    <3>1. RunInv(q) /\ q # 0
      BY DEF FolderInv, Runs
    <3>2. ASSUME runner[q].pc \in Holds, claim = r PROVE FALSE
      <4>1. q = r
        BY <3>1, <3>2 DEF RunInv
      <4>2. supervisor[q] # "running" /\ supervisor[q] # "none"
        <5>1. r # 0 /\ supervisor[r] # "running" /\ supervisor[r] # "none"
          BY <1>2, <1>5, <3>1, <4>1 DEF Announced
        <5> QED BY <4>1, <5>1
      <4>3. runner[q].pc \notin {"load", "announce"} /\ detached[q]
        BY <3>1, <4>2 DEF RunInv
      <4> QED BY <3>1, <3>2, <4>2, <4>3 DEF RunInv
    <3>3. runner[q].pc \in Holds => claim' = claim
      BY <1>1, <3>2 DEF ClaimReleased
    <3> QED BY <2>1, <2>3, <3>3, OthersKeep
  <2> QED BY <1>1, <1>2, <1>3, <2>2, <2>3, <2>4 DEF FolderInv
<1> QED BY <1>4, <1>5

-----------------------------------------------------------------------------
(* The theorems.                                                            *)

LEMMA FolderInitInv == Init => FolderInv
<1> SUFFICES ASSUME Init PROVE FolderInv
  OBVIOUS
<1>1. TypeOK
  BY RecordsTyped DEF Init, TypeOK
<1>2. Announced(0) /\ seq.sup = 0 /\ canceller.sup = 0 /\ canceller.copy.sup = 0
      /\ reconciler.copy.sup = 0
  BY RecordsTyped DEF Init, Announced
<1>3. ASSUME NEW r \in Runs PROVE RunInv(r)
  BY <1>2, RecordsTyped DEF Init, RunInv, Busy, Holds
<1> QED BY <1>1, <1>2, <1>3 DEF FolderInv

LEMMA FolderStep == FolderInv /\ [Next]_vars => FolderInv'
<1> SUFFICES ASSUME FolderInv, [Next]_vars PROVE FolderInv'
  OBVIOUS
<1>1. CASE UNCHANGED vars
  <2>1. UNCHANGED <<detached, claim, supervisor, runner>>
    BY <1>1 DEF vars
  <2>2. TypeOK'
    BY <1>1 DEF FolderInv, TypeOK, vars
  <2> QED BY <1>1, <2>1, <2>2, RunsKeep DEF FolderInv, vars
<1>2. ASSUME NEW r \in Runs, Invoke(r), Frame PROVE FolderInv'
  BY <1>2, InvokeKeeps
<1>3. ASSUME NEW r \in Runs, RunStep(r), Frame PROVE FolderInv'
  BY <1>3, LoadKeeps, AnnounceKeeps, PrepareKeeps, SkipSpecificationKeeps, StartSliceKeeps,
     LaunchKeeps, SlicePassesKeeps, GateBlocksKeeps, SliceFailsKeeps, RecoverKeeps,
     RecordSliceKeeps, RecordBlockedKeeps, RecordFailedKeeps, FinishRunKeeps,
     FinishSequenceKeeps, LeaveKeeps, SignKeeps, LastSaveKeeps, ReleaseKeeps DEF RunStep
<1>4. ASSUME NEW worker \in live, WorkerEnds(worker), Frame PROVE FolderInv'
  <2>1. live' \subseteq live /\ UNCHANGED <<seq, run, claim, supervisor, runner, passed>>
    BY <1>4 DEF WorkerEnds
  <2>2. TypeOK'
    BY <1>4, <2>1 DEF FolderInv, TypeOK, Frame
  <2> QED BY <1>4, <2>1, <2>2, RunsKeep DEF FolderInv, Frame
<1>5. ASSUME Operate, UNCHANGED <<folder, detached, crashes>> PROVE FolderInv'
  BY <1>5, CancelKeeps, StopKeeps, ReconcileKeeps DEF Operate
<1>6. ASSUME NEW r \in Runs, Crash(r), UNCHANGED <<folder, detached>> PROVE FolderInv'
  BY <1>6, CrashKeeps
<1> QED BY <1>1, <1>2, <1>3, <1>4, <1>5, <1>6 DEF Next, Frame

\* The inductive invariant holds, whatever crashes, is cancelled or reconciled.
THEOREM FolderInvariant == Spec => []FolderInv
<1> QED BY FolderInitInv, FolderStep, PTL DEF Spec

\* The records of a folder keep their shape: every status, slice and run that a
\* runner, a supervisor or a command saves is one the folder has.
THEOREM FolderTypeCorrect == Spec => []TypeOK
<1>1. FolderInv => TypeOK
  BY DEF FolderInv
<1> QED BY <1>1, FolderInvariant, PTL

\* At most one run of a folder works on its slices (worktree.Acquire and
\* ReleaseForPID), for any number of runs, slices, crashes and recovery attempts.
THEOREM RunsExclude == Spec => []SoleRunner
<1>1. FolderInv => SoleRunner
  <2> SUFFICES ASSUME FolderInv, NEW q \in Runs, NEW r \in Runs, Working(q), Working(r)
               PROVE  q = r
    BY DEF SoleRunner
  <2>1. runner[q].pc \in Holds /\ runner[r].pc \in Holds
    BY DEF Working, Holds
  <2> QED BY <2>1 DEF FolderInv, RunInv
<1> QED BY <1>1, FolderInvariant, PTL

-----------------------------------------------------------------------------
(* What a step makes of its run.                                            *)

\* Run r goes to pc; the others stay as they are.
Moves(r, pc) ==
    /\ runner' \in [Runs -> Runner]
    /\ runner'[r].pc = pc
    /\ \A q \in Runs \ {r} : runner'[q] = runner[q]

\* It keeps what it knows, apart from its copy of the sequence, of run.json and
\* what it has still to do.
KeepsMy(r) == runner'[r].my = runner[r].my
KeepsOwn(r) == runner'[r].own = runner[r].own
KeepsTodo(r) == runner'[r].todo = runner[r].todo /\ runner'[r].resumed = runner[r].resumed

\* A step that only moves on.
Steps(r, pc) ==
    /\ Moves(r, pc)
    /\ KeepsMy(r) /\ KeepsOwn(r) /\ KeepsTodo(r)

\* The slice at hand gets another status, and the sequence is saved.
Marks(r, status, pc) ==
    /\ Moves(r, pc)
    /\ KeepsOwn(r) /\ KeepsTodo(r)
    /\ runner'[r].my \in Sequence
    /\ seq' = runner'[r].my
    /\ seq'.items = [runner[r].my.items EXCEPT ![Slice(r)] = status]
    /\ seq'.status = SequenceStatusOf(seq'.items)
    /\ UNCHANGED run

\* run.json becomes the copy that the run has of it.
Records(r, status, done, pc) ==
    /\ Moves(r, pc)
    /\ KeepsMy(r)
    /\ runner'[r].resumed = runner[r].resumed
    /\ runner'[r].own \in RunState
    /\ run' = runner'[r].own
    /\ run'.status = status
    /\ run'.completed = runner[r].own.completed \cup done
    /\ UNCHANGED <<seq, passed>>

\* A run has loaded what it goes on from.
Loaded(r) ==
    /\ Moves(r, IF detached[r] THEN "announce" ELSE "prepare")
    /\ runner'[r].resumed = (runner[r].mode # "fresh" /\ seq.status # "absent")
    /\ runner'[r].my = IF runner'[r].resumed THEN seq ELSE NewSequence
    /\ \/ /\ runner'[r].own = NewRun
          /\ runner[r].mode = "fresh" \/ run.status \in {"absent", "completed"}
       \/ /\ runner'[r].own = run
          /\ ~(runner[r].mode = "fresh" \/ run.status \in {"absent", "completed"})
    /\ runner'[r].todo = IF runner'[r].resumed
                         THEN Slices \ Done(runner'[r].my, runner'[r].own) ELSE Slices
    /\ runner'[r].my.status # "product-blocked"

LEMMA MovesTo ==
    ASSUME FolderInv, NEW r \in Runs, NEW new \in Runner, Becomes(r, new)
    PROVE  Moves(r, new.pc) /\ runner'[r] = new
BY BecomesTyped DEF FolderInv, TypeOK, Moves

LEMMA StepsTo ==
    ASSUME FolderInv, NEW r \in Runs, NEW pc \in Pc, Goto(r, pc)
    PROVE  Steps(r, pc)
<1>1. PICK new : new = [runner[r] EXCEPT !.pc = pc]
  OBVIOUS
<1>2. /\ new \in Runner /\ new.pc = pc /\ new.my = runner[r].my /\ new.own = runner[r].own
      /\ new.todo = runner[r].todo /\ new.resumed = runner[r].resumed
  BY <1>1, RunnerTyped DEF Runner
<1>3. Becomes(r, new)
  BY <1>1 DEF Goto
<1> QED BY <1>2, <1>3, MovesTo DEF Steps, KeepsMy, KeepsOwn, KeepsTodo

\* The forms that saving a mark takes in the code.
LEMMA MarksTo ==
    ASSUME FolderInv, NEW r \in Runs, runner[r].todo # {}, UNCHANGED run,
           NEW status \in {"running", "skipped", "succeeded", "failed", "gate-blocked"},
           NEW ids \in SUBSET Slices, NEW pc \in Pc,
           NEW attempt \in 0 .. RecoveryAttempts, NEW repaired \in BOOLEAN,
           NEW new, Saves(r, new),
           new = [runner[r] EXCEPT !.my = Marked(runner[r].my, Slice(r), status, ids),
                     !.pc = pc, !.attempt = attempt, !.repaired = repaired]
    PROVE  Marks(r, status, pc)
<1>1. PICK my : my = Marked(runner[r].my, Slice(r), status, ids)
  OBVIOUS
<1>2. my \in Sequence
  BY <1>1, ItemMarked
<1>3. my.items = [runner[r].my.items EXCEPT ![Slice(r)] = status]
      /\ my.status = SequenceStatusOf(my.items)
  <2>1. runner[r].my \in Sequence
    BY RunnerTyped
  <2>2. PICK items : items = [runner[r].my.items EXCEPT ![Slice(r)] = status]
    OBVIOUS
  <2>3. PICK st : st = SequenceStatusOf(items)
    OBVIOUS
  <2>4. my = [runner[r].my EXCEPT !.items = items, !.status = st, !.known = @ \cup ids]
    BY <1>1, <2>2, <2>3 DEF Marked
  <2>5. my.items = items /\ my.status = st
    BY <2>1, <2>4 DEF Sequence
  <2> QED BY <2>2, <2>3, <2>5
<1>4. new = [runner[r] EXCEPT !.my = my, !.pc = pc, !.attempt = attempt, !.repaired = repaired]
  BY <1>1
<1>5. /\ new \in Runner /\ new.pc = pc /\ new.my = my /\ new.own = runner[r].own
      /\ new.todo = runner[r].todo /\ new.resumed = runner[r].resumed
  BY <1>2, <1>4, RunnerTyped DEF Runner
<1>6. seq' = my /\ Becomes(r, new)
  BY <1>1, <1>4, <1>5 DEF Saves
<1>7. Moves(r, pc) /\ runner'[r] = new
  BY ONLY FolderInv, r \in Runs, <1>5, <1>6, MovesTo
<1> QED BY <1>2, <1>3, <1>5, <1>6, <1>7 DEF Marks, KeepsOwn, KeepsTodo

\* A step that moves on, and may save the copy of the sequence.
Moved(r, pc) == Steps(r, pc) /\ UNCHANGED <<seq, run, passed>>

Saved(r, pc) == Steps(r, pc) /\ seq' = runner[r].my /\ UNCHANGED <<run, passed>>

\* The first save of a run that starts over gives up what passed before.
GivesUp(r) == passed' = IF StartsOver(r) THEN {} ELSE passed

\* The sequence is saved with another supervisor or another status.
Resaves(r, status, pc) ==
    /\ Moves(r, pc)
    /\ KeepsOwn(r) /\ KeepsTodo(r)
    /\ runner'[r].my \in Sequence
    /\ seq' = runner'[r].my
    /\ seq'.items = runner[r].my.items
    /\ seq'.status = status
    /\ UNCHANGED run

LEMMA LoadForm ==
    ASSUME FolderInv, NEW r \in Runs, Load(r)
    PROVE  UNCHANGED <<seq, run, passed>> /\ (Moved(r, "release") \/ Loaded(r))
<1> DEFINE mode == runner[r].mode
           resumes == mode # "fresh" /\ seq.status # "absent"
           continues == mode # "fresh" /\ run.status \notin {"absent", "completed"}
           my == IF resumes THEN seq ELSE NewSequence
           own == IF continues THEN run ELSE NewRun
           todo == IF resumes THEN Slices \ Done(my, own) ELSE Slices
           pc == IF detached[r] THEN "announce" ELSE "prepare"
<1>1. UNCHANGED <<seq, run, passed>>
  BY DEF Load
<1>2. CASE Refused(mode, my, continues)
  <2>1. Goto(r, "release")
    BY <1>2 DEF Load
  <2>2. "release" \in Pc
    BY DEF Pc
  <2> QED BY <1>1, <2>1, <2>2, StepsTo DEF Moved
<1>3. CASE ~Refused(mode, my, continues)
  <2>1. PICK new : new = [runner[r] EXCEPT !.resumed = resumes, !.my = my, !.own = own,
                                           !.todo = todo, !.pc = pc]
    OBVIOUS
  <2>2. Becomes(r, new)
    BY <1>3, <2>1 DEF Load
  <2>3. my \in Sequence /\ own \in RunState /\ todo \subseteq Slices /\ pc \in Pc
    BY RecordsTyped DEF FolderInv, TypeOK, Pc
  <2>4. resumes \in BOOLEAN
    OBVIOUS
  <2>5. my.status # "product-blocked"
    BY <1>3 DEF Refused
  <2>6. \/ own = NewRun /\ (mode = "fresh" \/ run.status \in {"absent", "completed"})
        \/ own = run /\ ~(mode = "fresh" \/ run.status \in {"absent", "completed"})
    OBVIOUS
  <2>7. todo = IF resumes THEN Slices \ Done(my, own) ELSE Slices
    OBVIOUS
  <2>8. my = IF resumes THEN seq ELSE NewSequence
    OBVIOUS
  <2>9. resumes = (runner[r].mode # "fresh" /\ seq.status # "absent")
    OBVIOUS
  <2> HIDE DEF my, own, todo, resumes, continues
  <2>10. /\ new \in Runner /\ new.pc = pc /\ new.my = my /\ new.own = own
         /\ new.todo = todo /\ new.resumed = resumes
    BY <2>1, <2>3, <2>4, RunnerTyped DEF Runner
  <2>11. Moves(r, pc) /\ runner'[r] = new
    BY <2>2, <2>10, MovesTo
  <2>12. Loaded(r)
    BY <2>5, <2>6, <2>7, <2>8, <2>9, <2>10, <2>11 DEF Loaded
  <2> QED BY <1>1, <2>12
<1> QED BY <1>2, <1>3

LEMMA AnnounceForm ==
    ASSUME FolderInv, NEW r \in Runs, Announce(r)
    PROVE  Resaves(r, runner[r].my.status, "prepare") /\ GivesUp(r)
<1>1. PICK my : my = [runner[r].my EXCEPT !.sup = r]
  OBVIOUS
<1>2. runner[r] \in Runner /\ my \in Sequence /\ my.items = runner[r].my.items
      /\ my.status = runner[r].my.status
  BY <1>1, RunnerTyped DEF Sequence
<1>3. PICK new : new = [runner[r] EXCEPT !.my = my, !.pc = "prepare"]
  OBVIOUS
<1>4. /\ new \in Runner /\ new.pc = "prepare" /\ new.my = my /\ new.own = runner[r].own
      /\ new.todo = runner[r].todo /\ new.resumed = runner[r].resumed
  BY <1>2, <1>3 DEF Runner, Pc
<1>5. [runner[r] EXCEPT !.my.sup = r, !.pc = "prepare"] = new
  BY <1>1, <1>2, <1>3 DEF Runner
<1>6. seq' = my /\ Becomes(r, new)
  BY <1>4, <1>5 DEF Announce, Saves
<1>7. Moves(r, "prepare") /\ runner'[r] = new
  BY <1>4, <1>6, MovesTo
<1>8. Resaves(r, runner[r].my.status, "prepare")
  BY <1>2, <1>4, <1>6, <1>7 DEF Resaves, KeepsOwn, KeepsTodo, Announce
<1> QED BY <1>8 DEF Announce, GivesUp

LEMMA FinishForm ==
    ASSUME FolderInv, NEW r \in Runs, FinishSequence(r)
    PROVE  Resaves(r, "completed", Exit(r)) /\ UNCHANGED passed
<1>1. PICK my : my = [runner[r].my EXCEPT !.status = "completed"]
  OBVIOUS
<1>2. runner[r] \in Runner /\ my \in Sequence /\ my.items = runner[r].my.items
      /\ my.status = "completed"
  BY <1>1, RunnerTyped DEF Sequence, SequenceStatus
<1>3. PICK new : new = [runner[r] EXCEPT !.my = my, !.pc = Exit(r)]
  OBVIOUS
<1>4. /\ new \in Runner /\ new.pc = Exit(r) /\ new.my = my /\ new.own = runner[r].own
      /\ new.todo = runner[r].todo /\ new.resumed = runner[r].resumed
  BY <1>2, <1>3, RunnerTyped DEF Runner
<1>5. [runner[r] EXCEPT !.my.status = "completed", !.pc = Exit(r)] = new
  BY <1>1, <1>2, <1>3 DEF Runner
<1>6. seq' = my /\ Becomes(r, new)
  BY <1>4, <1>5 DEF FinishSequence, Saves
<1>7. Moves(r, Exit(r)) /\ runner'[r] = new
  BY <1>4, <1>6, MovesTo
<1> QED BY <1>2, <1>4, <1>6, <1>7 DEF Resaves, KeepsOwn, KeepsTodo, FinishSequence

LEMMA PrepareForm ==
    ASSUME FolderInv, NEW r \in Runs, Prepare(r)
    PROVE  \/ Moved(r, "next")
           \/ runner[r].resumed /\ Saved(r, "next")
           \/ runner[r].resumed /\ Moved(r, Exit(r))
<1>1. "next" \in Pc /\ Exit(r) \in Pc /\ UNCHANGED <<run, passed>>
  BY RunnerTyped DEF Pc, Prepare
<1>2. CASE Goto(r, "next") /\ UNCHANGED seq
  BY <1>1, <1>2, StepsTo DEF Moved
<1>3. CASE runner[r].resumed /\ Saves(r, [runner[r] EXCEPT !.pc = "next"])
  <2>1. [runner[r] EXCEPT !.pc = "next"].my = runner[r].my
    BY <1>1, RunnerTyped, PcTyped
  <2>2. Goto(r, "next") /\ seq' = runner[r].my
    BY <1>3, <2>1 DEF Saves, Goto
  <2> QED BY <1>1, <1>3, <2>2, StepsTo DEF Saved
<1>4. CASE runner[r].resumed /\ Goto(r, Exit(r)) /\ UNCHANGED seq
  BY <1>1, <1>4, StepsTo DEF Moved
<1> QED BY <1>2, <1>3, <1>4 DEF Prepare

LEMMA LastSaveForm ==
    ASSUME FolderInv, NEW r \in Runs, LastSave(r) PROVE Saved(r, "release")
<1>1. "release" \in Pc
  BY DEF Pc
<1>2. [runner[r] EXCEPT !.pc = "release"].my = runner[r].my
  BY <1>1, RunnerTyped, PcTyped
<1>3. Goto(r, "release") /\ seq' = runner[r].my
  BY <1>2 DEF LastSave, Saves, Goto
<1> QED BY <1>1, <1>3, StepsTo DEF Saved, LastSave

LEMMA InvokeForm ==
    ASSUME FolderInv, NEW r \in Runs, Invoke(r)
    PROVE  /\ Moves(r, "load") /\ UNCHANGED <<seq, run, passed>>
           /\ runner'[r].my = NoSequence /\ runner'[r].own = NoRun
           /\ runner'[r].mode \in Modes
<1>1. PICK mode \in Modes : Becomes(r, [Unborn EXCEPT !.pc = "load", !.mode = mode])
  BY DEF Invoke
<1>2. PICK new : new = [Unborn EXCEPT !.pc = "load", !.mode = mode]
  OBVIOUS
<1>3. "load" \in Pc /\ mode \in Mode
  BY DEF Pc
<1>4. /\ new \in Runner /\ new.pc = "load" /\ Becomes(r, new)
      /\ new.my = NoSequence /\ new.own = NoRun /\ new.mode = mode
  <2>1. PICK unborn \in Runner : unborn = Unborn
    BY RecordsTyped
  <2>2. unborn.my = NoSequence /\ unborn.own = NoRun
    BY <2>1 DEF Unborn
  <2> QED BY <1>1, <1>2, <1>3, <2>1, <2>2 DEF Runner
<1> QED BY <1>4, MovesTo DEF Invoke

LEMMA SkipForm ==
    ASSUME FolderInv, NEW r \in Runs, SkipSpecification(r)
    PROVE  Marks(r, "skipped", "record") /\ GivesUp(r)
<1>1. PICK x \in Runner : x = runner[r]
  BY RunnerTyped
<1>2. PICK new : new = [runner[r] EXCEPT !.my = Marked(@, Slice(r), "skipped", {}), !.pc = "record"]
  OBVIOUS
<1>4. new = [runner[r] EXCEPT !.my = Marked(runner[r].my, Slice(r), "skipped", {}),
                !.pc = "record", !.attempt = x.attempt, !.repaired = x.repaired]
  BY <1>1, <1>2 DEF Runner
<1>5. Saves(r, new) /\ UNCHANGED run /\ runner[r].todo # {}
  BY <1>2 DEF SkipSpecification
<1>3. x.attempt \in 0 .. RecoveryAttempts /\ x.repaired \in BOOLEAN /\ "record" \in Pc
  BY DEF Runner, Pc
<1>6. Marks(r, "skipped", "record")
  BY <1>3, <1>4, <1>5, MarksTo
<1> QED BY <1>6 DEF SkipSpecification, GivesUp

LEMMA StartForm ==
    ASSUME FolderInv, NEW r \in Runs, StartSlice(r)
    PROVE  Marks(r, "running", "launch") /\ GivesUp(r)
<1>1. runner[r] \in Runner /\ runner[r].todo # {} /\ UNCHANGED run
  BY RunnerTyped DEF StartSlice
<1>2. PICK repair \in BOOLEAN :
        Saves(r, [runner[r] EXCEPT !.my = Marked(@, Slice(r), "running", {}),
                           !.attempt = 0, !.repaired = repair, !.pc = "launch"])
  BY DEF StartSlice
<1>3. PICK new : new = [runner[r] EXCEPT !.my = Marked(@, Slice(r), "running", {}),
                           !.attempt = 0, !.repaired = repair, !.pc = "launch"]
  OBVIOUS
<1>4. new = [runner[r] EXCEPT !.my = Marked(runner[r].my, Slice(r), "running", {}),
                !.pc = "launch", !.attempt = 0, !.repaired = repair]
  BY <1>1, <1>3 DEF Runner
<1>5. Saves(r, new)
  BY <1>2, <1>3
<1>6. 0 \in 0 .. RecoveryAttempts /\ "launch" \in Pc
  BY DEF Pc
<1>7. Marks(r, "running", "launch")
  BY <1>1, <1>4, <1>5, <1>6, MarksTo
<1> QED BY <1>7 DEF StartSlice, GivesUp

\* The end of a worker.
LEMMA EndForm ==
    ASSUME FolderInv, NEW r \in Runs, Ended(r), UNCHANGED run,
           NEW status \in {"running", "skipped", "succeeded", "failed", "gate-blocked"},
           NEW ids \in SUBSET {Slice(r)}, NEW pc \in Pc,
           Saves(r, [runner[r] EXCEPT !.my = Marked(@, Slice(r), status, ids), !.pc = pc])
    PROVE  Marks(r, status, pc)
<1>1. PICK x \in Runner : x = runner[r]
  BY RunnerTyped
<1>2. runner[r].todo # {}
  BY RunnerTyped DEF RunInv, Busy, Ended
<1>3. ids \in SUBSET Slices
  BY <1>2, SliceTyped DEF FolderInv
<1>4. PICK new : new = [runner[r] EXCEPT !.my = Marked(@, Slice(r), status, ids), !.pc = pc]
  OBVIOUS
<1>5. new = [runner[r] EXCEPT !.my = Marked(runner[r].my, Slice(r), status, ids), !.pc = pc,
                !.attempt = x.attempt, !.repaired = x.repaired]
  BY <1>1, <1>4 DEF Runner
<1>6. x.attempt \in 0 .. RecoveryAttempts /\ x.repaired \in BOOLEAN
  BY DEF Runner
<1>7. Saves(r, new)
  BY <1>4
<1> QED BY <1>2, <1>3, <1>5, <1>6, <1>7, MarksTo

LEMMA OutcomeForms ==
    ASSUME FolderInv, NEW r \in Runs
    PROVE  /\ SlicePasses(r) => Marks(r, "succeeded", "record")
           /\ GateBlocks(r) => Marks(r, "gate-blocked", "blocked")
           /\ SliceFails(r) => Marks(r, "failed", "failed")
           /\ Recover(r) => Marks(r, "running", "launch")
<1>1. "record" \in Pc /\ "blocked" \in Pc /\ "failed" \in Pc /\ "launch" \in Pc
  BY DEF Pc
<1>2. {Slice(r)} \in SUBSET {Slice(r)}
  OBVIOUS
<1>3. ASSUME SlicePasses(r) PROVE Marks(r, "succeeded", "record")
  BY <1>1, <1>2, <1>3, EndForm DEF SlicePasses
<1>4. ASSUME GateBlocks(r) PROVE Marks(r, "gate-blocked", "blocked")
  BY <1>1, <1>2, <1>4, EndForm DEF GateBlocks
<1>5. ASSUME SliceFails(r) PROVE Marks(r, "failed", "failed")
  BY <1>1, <1>5, EndForm DEF SliceFails
<1>6. ASSUME Recover(r) PROVE Marks(r, "running", "launch")
  <2>1. runner[r] \in Runner
    BY RunnerTyped
  <2>2. PICK ids \in SUBSET {Slice(r)}, repair \in BOOLEAN :
          Saves(r, [runner[r] EXCEPT !.my = Marked(@, Slice(r), "running", ids), !.pc = "launch",
                                     !.attempt = @ + 1, !.repaired = repair])
    BY <1>6 DEF Recover
  <2>3. PICK new : new = [runner[r] EXCEPT !.my = Marked(@, Slice(r), "running", ids),
                             !.pc = "launch", !.attempt = @ + 1, !.repaired = repair]
    OBVIOUS
  <2>4. PICK attempt : attempt = runner[r].attempt + 1
    OBVIOUS
  <2>5. new = [runner[r] EXCEPT !.my = Marked(runner[r].my, Slice(r), "running", ids),
                  !.pc = "launch", !.attempt = attempt, !.repaired = repair]
    BY <2>1, <2>3, <2>4 DEF Runner
  <2>6. attempt \in 0 .. RecoveryAttempts
    BY <1>6, <2>1, <2>4 DEF Recover, MayRetry, Runner
  <2>7. runner[r].todo # {} /\ UNCHANGED run
    BY <1>6, RunnerTyped DEF RunInv, Busy, Ended, Recover
  <2>8. ids \in SUBSET Slices
    BY <2>7, SliceTyped DEF FolderInv
  <2>9. Saves(r, new)
    BY <2>2, <2>3
  <2> QED BY <1>1, <2>5, <2>6, <2>7, <2>8, <2>9, MarksTo
<1> QED BY <1>3, <1>4, <1>5, <1>6

LEMMA RecordSliceForm ==
    ASSUME FolderInv, NEW r \in Runs, RecordSlice(r)
    PROVE  /\ Records(r, "running", {Slice(r)}, "next")
           /\ runner'[r].todo = runner[r].todo \ {Slice(r)}
<1>1. PICK own : own = [status |-> "running", completed |-> runner[r].own.completed \cup {Slice(r)}]
  OBVIOUS
<1>2. Slice(r) \in Slices
  BY RunnerTyped, SliceTyped DEF RunInv, Busy, FolderInv, RecordSlice
<1>3. own \in RunState /\ own.status = "running"
      /\ own.completed = runner[r].own.completed \cup {Slice(r)}
  BY <1>1, <1>2, RunnerTyped DEF RunState, RunStatus
<1>4. PICK new : new = [runner[r] EXCEPT !.own = own, !.todo = @ \ {Slice(r)}, !.pc = "next"]
  OBVIOUS
<1>5. PICK todo : todo = runner[r].todo \ {Slice(r)}
  OBVIOUS
<1>6. todo \in SUBSET Slices /\ "next" \in Pc
  BY <1>5, RunnerTyped DEF Pc
<1>7. /\ new \in Runner /\ new.pc = "next" /\ new.my = runner[r].my /\ new.own = own
      /\ new.todo = todo /\ new.resumed = runner[r].resumed
  <2>1. new = [runner[r] EXCEPT !.own = own, !.todo = todo, !.pc = "next"]
    BY <1>4, <1>5, RunnerTyped DEF Runner
  <2> QED BY <1>3, <1>6, <2>1, RunnerTyped DEF Runner
<1>8. run' = own /\ Becomes(r, new) /\ UNCHANGED <<seq, passed>>
  BY <1>1, <1>4 DEF RecordSlice
<1>9. Moves(r, "next") /\ runner'[r] = new
  BY <1>7, <1>8, MovesTo
<1> QED BY <1>3, <1>5, <1>7, <1>8, <1>9 DEF Records, KeepsMy

\* The records that leave what is still to do alone.
LEMMA RecordRest ==
    ASSUME FolderInv, NEW r \in Runs, NEW own \in RunState, NEW pc \in Pc, run' = own,
           NEW new, Becomes(r, new), new = [runner[r] EXCEPT !.own = own, !.pc = pc],
           UNCHANGED <<seq, passed>>, NEW status, own.status = status,
           NEW done, own.completed = runner[r].own.completed \cup done
    PROVE  Records(r, status, done, pc) /\ KeepsTodo(r)
<1>1. /\ new \in Runner /\ new.pc = pc /\ new.my = runner[r].my /\ new.own = own
      /\ new.todo = runner[r].todo /\ new.resumed = runner[r].resumed
  BY RunnerTyped DEF Runner
<1>2. Moves(r, pc) /\ runner'[r] = new
  BY ONLY FolderInv, r \in Runs, Becomes(r, new), <1>1, MovesTo
<1> QED BY <1>1, <1>2 DEF Records, KeepsMy, KeepsTodo

LEMMA RecordForms ==
    ASSUME FolderInv, NEW r \in Runs
    PROVE  /\ RecordBlocked(r) =>
                Records(r, "product-blocked", {Slice(r)}, Exit(r)) /\ KeepsTodo(r)
           /\ RecordFailed(r) => Records(r, "failed", {}, Exit(r)) /\ KeepsTodo(r)
           /\ FinishRun(r) => Records(r, "completed", {}, "finish") /\ KeepsTodo(r)
<1>1. Exit(r) \in Pc /\ "finish" \in Pc
  BY RunnerTyped DEF Pc
<1>2. ASSUME RecordBlocked(r)
      PROVE  Records(r, "product-blocked", {Slice(r)}, Exit(r)) /\ KeepsTodo(r)
  <2>1. PICK own : own = [status |-> "product-blocked",
                          completed |-> runner[r].own.completed \cup {Slice(r)}]
    OBVIOUS
  <2>2. Slice(r) \in Slices
    BY <1>2, RunnerTyped, SliceTyped DEF RunInv, Busy, FolderInv, RecordBlocked
  <2>3. own \in RunState /\ own.status = "product-blocked"
        /\ own.completed = runner[r].own.completed \cup {Slice(r)}
    BY <2>1, <2>2, RunnerTyped DEF RunState, RunStatus
  <2>4. PICK new : new = [runner[r] EXCEPT !.own = own, !.pc = Exit(r)]
    OBVIOUS
  <2>5. run' = own /\ Becomes(r, new) /\ UNCHANGED <<seq, passed>>
    BY <1>2, <2>1, <2>4 DEF RecordBlocked
  <2> QED BY <1>1, <2>3, <2>4, <2>5, RecordRest
<1>3. ASSUME RecordFailed(r) PROVE Records(r, "failed", {}, Exit(r)) /\ KeepsTodo(r)
  <2>1. PICK own : own = [runner[r].own EXCEPT !.status = "failed"]
    OBVIOUS
  <2>2. own \in RunState /\ own.status = "failed"
        /\ own.completed = runner[r].own.completed \cup {}
    BY <2>1, RunnerTyped DEF RunState, RunStatus
  <2>3. PICK new : new = [runner[r] EXCEPT !.own = own, !.pc = Exit(r)]
    OBVIOUS
  <2>4. run' = own /\ Becomes(r, new) /\ UNCHANGED <<seq, passed>>
    BY <1>3, <2>1, <2>3 DEF RecordFailed
  <2> QED BY <1>1, <2>2, <2>3, <2>4, RecordRest
<1>4. ASSUME FinishRun(r) PROVE Records(r, "completed", {}, "finish") /\ KeepsTodo(r)
  <2>1. PICK own : own = [runner[r].own EXCEPT !.status = "completed"]
    OBVIOUS
  <2>2. own \in RunState /\ own.status = "completed"
        /\ own.completed = runner[r].own.completed \cup {}
    BY <2>1, RunnerTyped DEF RunState, RunStatus
  <2>3. PICK new : new = [runner[r] EXCEPT !.own = own, !.pc = "finish"]
    OBVIOUS
  <2>4. run' = own /\ Becomes(r, new) /\ UNCHANGED <<seq, passed>>
    BY <1>4, <2>1, <2>3 DEF FinishRun
  <2> QED BY <1>1, <2>2, <2>3, <2>4, RecordRest
<1> QED BY <1>2, <1>3, <1>4

\* The steps that only move on.
LEMMA MoveForms ==
    ASSUME FolderInv, NEW r \in Runs
    PROVE  /\ Launch(r) => Moved(r, "wait")
           /\ Leave(r) => Moved(r, "sign") \/ Moved(r, "signoff")
           /\ Sign(r) => \/ runner[r].pc = "sign" /\ Moved(r, "lastsave")
                         \/ runner[r].pc = "signoff" /\ Moved(r, "release")
           /\ Release(r) => Moved(r, "dead")
           /\ Crash(r) => Moved(r, "dead")
<1>1. /\ "wait" \in Pc /\ "sign" \in Pc /\ "signoff" \in Pc /\ "lastsave" \in Pc
      /\ "release" \in Pc /\ "dead" \in Pc
  BY DEF Pc
<1>2. Launch(r) => Moved(r, "wait")
  BY <1>1, StepsTo DEF Launch, Moved
<1>3. Leave(r) => Moved(r, "sign") \/ Moved(r, "signoff")
  BY <1>1, StepsTo DEF Leave, Moved
<1>4. Sign(r) => \/ runner[r].pc = "sign" /\ Moved(r, "lastsave")
                 \/ runner[r].pc = "signoff" /\ Moved(r, "release")
  BY <1>1, StepsTo DEF Sign, Moved
<1>5. Release(r) => Moved(r, "dead")
  BY <1>1, StepsTo DEF Release, Moved
<1>6. Crash(r) => Moved(r, "dead")
  BY <1>1, StepsTo DEF Crash, Moved
<1> QED BY <1>2, <1>3, <1>4, <1>5, <1>6

-----------------------------------------------------------------------------
(* What is recorded as completed is not done again.                         *)

\* The steps at which a run has its slices before it.
Underway == {"announce", "prepare", "next", "launch", "wait", "record", "blocked", "failed",
             "finish"}

\* A resumed run has nothing to do that run.json lists, in the file or in its
\* own copy; a file that says completed is not believed.
RepeatOf(r) ==
    runner[r].pc \in Underway /\ runner[r].resumed =>
       /\ runner[r].todo \cap runner[r].own.completed = {}
       /\ run.status # "completed" => runner[r].todo \cap run.completed = {}

RepeatInv ==
    /\ run.status = "absent" => run.completed = {}
    /\ \A r \in Runs : RepeatOf(r)

\* The claim keeps a run that is under way from seeing what others write.
LEMMA Alone ==
    ASSUME FolderInv, NEW q \in Runs, NEW r \in Runs,
           runner[q].pc \in Holds, runner[r].pc \in Holds
    PROVE  q = r
BY DEF FolderInv, RunInv

LEMMA RepeatKept ==
    ASSUME FolderInv, RepeatInv, NEW r \in Runs, NEW pc, Moves(r, pc),
           run' = run \/ runner[r].pc \in Underway,
           run'.status = "absent" => run'.completed = {},
           RepeatOf(r)'
    PROVE  RepeatInv'
<1>1. ASSUME NEW q \in Runs \ {r} PROVE RepeatOf(q)'
  <2>1. runner'[q] = runner[q] /\ RepeatOf(q)
    BY DEF Moves, RepeatInv
  <2>2. runner[q].pc \in Underway => run' = run
    BY Alone DEF Underway, Holds
  <2> QED BY <2>1, <2>2 DEF RepeatOf
<1> QED BY <1>1 DEF RepeatInv

\* A run that only moves on, and not into work.
LEMMA RepeatMoved ==
    ASSUME FolderInv, RepeatInv, NEW r \in Runs, NEW pc, Steps(r, pc), UNCHANGED run,
           pc \in Underway => runner[r].pc \in Underway
    PROVE  RepeatInv'
<1>1. RepeatOf(r)
  BY DEF RepeatInv
<1>2. RepeatOf(r)'
  BY <1>1 DEF RepeatOf, Steps, Moves, KeepsMy, KeepsOwn, KeepsTodo
<1> QED BY <1>2, RepeatKept DEF Steps, RepeatInv

LEMMA RepeatSaved ==
    ASSUME FolderInv, RepeatInv, NEW r \in Runs, NEW pc, Moves(r, pc), KeepsOwn(r), KeepsTodo(r),
           UNCHANGED run, pc \in Underway => runner[r].pc \in Underway
    PROVE  RepeatInv'
<1>1. RepeatOf(r)
  BY DEF RepeatInv
<1>2. RepeatOf(r)'
  BY <1>1 DEF RepeatOf, Moves, KeepsOwn, KeepsTodo
<1> QED BY <1>2, RepeatKept DEF RepeatInv

LEMMA RepeatLoaded ==
    ASSUME FolderInv, RepeatInv, NEW r \in Runs, Load(r) PROVE RepeatInv'
<1>1. runner[r].pc = "load" /\ UNCHANGED <<seq, run, passed>>
      /\ (Moved(r, "release") \/ Loaded(r))
  BY LoadForm DEF Load
<1>2. CASE Moved(r, "release")
  BY <1>2, RepeatMoved DEF Moved, Underway
<1>3. CASE Loaded(r)
  <2>1. ASSUME runner'[r].resumed
        PROVE  /\ runner'[r].todo \cap runner'[r].own.completed = {}
               /\ run.status # "completed" => runner'[r].todo \cap run.completed = {}
    <3>1. runner'[r].todo \cap runner'[r].own.completed = {}
      BY <1>3, <2>1 DEF Loaded, Done
    <3>2. CASE runner'[r].own = run
      BY <3>1, <3>2
    <3>3. CASE runner[r].mode = "fresh" \/ run.status \in {"absent", "completed"}
      <4>1. runner[r].mode # "fresh"
        BY <1>3, <2>1, Zenon DEF Loaded
      <4>2. run.status = "absent" => run.completed = {}
        BY DEF RepeatInv
      <4> QED BY <3>1, <3>3, <4>1, <4>2
    <3> QED BY <1>3, <3>1, <3>2, <3>3 DEF Loaded
  <2>2. RepeatOf(r)'
    BY <1>1, <2>1 DEF RepeatOf
  <2>3. PICK pc : Moves(r, pc)
    BY <1>3 DEF Loaded
  <2> QED BY <1>1, <2>2, <2>3, RepeatKept DEF RepeatInv
<1> QED BY <1>1, <1>2, <1>3

LEMMA RepeatRecorded ==
    ASSUME FolderInv, RepeatInv, NEW r \in Runs,
           RecordSlice(r) \/ RecordBlocked(r) \/ RecordFailed(r) \/ FinishRun(r)
    PROVE  RepeatInv'
<1>1. runner[r].pc \in Underway
  BY DEF RecordSlice, RecordBlocked, RecordFailed, FinishRun, Underway
<1>2. Exit(r) \notin Underway
  BY DEF Exit, Underway
<1>3. CASE RecordSlice(r)
  <2>1. Records(r, "running", {Slice(r)}, "next")
        /\ runner'[r].todo = runner[r].todo \ {Slice(r)}
    BY <1>3, RecordSliceForm
  <2>2. RepeatOf(r)
    BY DEF RepeatInv
  <2>3. RepeatOf(r)'
    BY <1>1, <2>1, <2>2 DEF RepeatOf, Records
  <2> QED BY <1>1, <2>1, <2>3, RepeatKept DEF Records
<1>4. CASE RecordBlocked(r)
  <2>1. Records(r, "product-blocked", {Slice(r)}, Exit(r))
    BY <1>4, RecordForms
  <2>2. RepeatOf(r)'
    BY <1>2, <2>1 DEF RepeatOf, Records, Moves
  <2> QED BY <1>1, <2>1, <2>2, RepeatKept DEF Records
<1>5. CASE RecordFailed(r)
  <2>1. Records(r, "failed", {}, Exit(r))
    BY <1>5, RecordForms
  <2>2. RepeatOf(r)'
    BY <1>2, <2>1 DEF RepeatOf, Records, Moves
  <2> QED BY <1>1, <2>1, <2>2, RepeatKept DEF Records
<1>6. CASE FinishRun(r)
  <2>1. Records(r, "completed", {}, "finish") /\ KeepsTodo(r)
    BY <1>6, RecordForms
  <2>2. runner'[r].todo = {}
    BY <1>6, <2>1 DEF FinishRun, KeepsTodo
  <2>3. RepeatOf(r)'
    BY <2>2 DEF RepeatOf
  <2> QED BY <1>1, <2>1, <2>3, RepeatKept DEF Records
<1> QED BY <1>3, <1>4, <1>5, <1>6

LEMMA RepeatRun ==
    ASSUME FolderInv, RepeatInv, NEW r \in Runs, RunStep(r) PROVE RepeatInv'
<1>1. CASE Load(r)
  BY <1>1, RepeatLoaded
<1>2. CASE Announce(r) \/ FinishSequence(r)
  <2>1. Exit(r) \notin Underway
    BY DEF Exit, Underway
  <2>2. runner[r].pc \in Underway
    BY <1>2 DEF Announce, FinishSequence, Underway
  <2>3. PICK pc : Moves(r, pc) /\ KeepsOwn(r) /\ KeepsTodo(r) /\ UNCHANGED run
    BY <1>2, AnnounceForm, FinishForm DEF Resaves
  <2> QED BY <2>2, <2>3, RepeatSaved
<1>3. CASE Prepare(r)
  <2>1. runner[r].pc \in Underway
    BY <1>3 DEF Prepare, Underway
  <2> QED BY <1>3, <2>1, PrepareForm, RepeatMoved DEF Moved, Saved
<1>4. CASE SkipSpecification(r) \/ StartSlice(r) \/ SlicePasses(r) \/ GateBlocks(r)
           \/ SliceFails(r) \/ Recover(r)
  <2>1. runner[r].pc \in Underway
    BY <1>4 DEF SkipSpecification, StartSlice, SlicePasses, GateBlocks, SliceFails, Recover,
                Ended, Underway
  <2>2. PICK pc : Moves(r, pc) /\ KeepsOwn(r) /\ KeepsTodo(r) /\ UNCHANGED run
    BY <1>4, SkipForm, StartForm, OutcomeForms DEF Marks
  <2> QED BY <2>1, <2>2, RepeatSaved
<1>5. CASE Launch(r)
  BY <1>5, MoveForms, RepeatMoved DEF Launch, Moved, Underway
<1>6. CASE RecordSlice(r) \/ RecordBlocked(r) \/ RecordFailed(r) \/ FinishRun(r)
  BY <1>6, RepeatRecorded
<1>7. CASE Leave(r) \/ Sign(r) \/ Release(r)
  <2>1. PICK pc \in {"sign", "signoff", "lastsave", "release", "dead"} : Moved(r, pc)
    BY <1>7, MoveForms
  <2> QED BY <2>1, RepeatMoved DEF Moved, Underway
<1>8. CASE LastSave(r)
  BY <1>8, LastSaveForm, RepeatMoved DEF Saved, Underway
<1> QED BY <1>1, <1>2, <1>3, <1>4, <1>5, <1>6, <1>7, <1>8 DEF RunStep

\* The steps of commands on runs: cancel kills a supervisor.
LEMMA StopForm ==
    ASSUME FolderInv, StopSupervisor
    PROVE  /\ UNCHANGED <<seq, run, passed, live>>
           /\ UNCHANGED runner \/ \E r \in Runs : Moved(r, "dead")
<1>1. PICK r \in Runs \cup {0} : r = canceller.sup
  BY NamesTyped DEF FolderInv
<1>2. UNCHANGED <<seq, run, passed, live>>
  BY DEF StopSupervisor
<1>3. CASE r # 0 /\ supervisor[r] = "running"
  <2>1. r \in Runs /\ Goto(r, "dead") /\ "dead" \in Pc
    BY <1>1, <1>3 DEF StopSupervisor, Pc
  <2> QED BY <1>2, <2>1, StepsTo DEF Moved
<1>4. CASE ~(r # 0 /\ supervisor[r] = "running")
  BY <1>1, <1>2, <1>4 DEF StopSupervisor
<1> QED BY <1>2, <1>3, <1>4

LEMMA OperateForm ==
    ASSUME FolderInv, Operate
    PROVE  /\ UNCHANGED <<run, passed, live>>
           /\ UNCHANGED runner \/ \E r \in Runs : Moved(r, "dead")
BY StopForm DEF Operate, BeginCancel, ReloadSequence, WriteCancelled, BeginReconcile,
                WriteInterrupted, runVars

LEMMA RepeatStep == FolderInv /\ RepeatInv /\ [Next]_vars => RepeatInv'
<1> SUFFICES ASSUME FolderInv, RepeatInv, [Next]_vars PROVE RepeatInv'
  OBVIOUS
<1>1. ASSUME UNCHANGED <<run, runner>> PROVE RepeatInv'
  BY <1>1 DEF RepeatInv, RepeatOf
<1>2. ASSUME NEW r \in Runs, Invoke(r) PROVE RepeatInv'
  <2>1. Moves(r, "load") /\ UNCHANGED run
    BY <1>2, InvokeForm
  <2>2. RepeatOf(r)'
    BY <2>1 DEF RepeatOf, Moves, Underway
  <2> QED BY <2>1, <2>2, RepeatKept DEF RepeatInv
<1>3. ASSUME NEW r \in Runs, RunStep(r) PROVE RepeatInv'
  BY <1>3, RepeatRun
<1>4. ASSUME NEW worker \in live, WorkerEnds(worker) PROVE RepeatInv'
  BY <1>1, <1>4 DEF WorkerEnds
<1>5. ASSUME NEW r \in Runs, Moved(r, "dead") PROVE RepeatInv'
  BY <1>5, RepeatMoved DEF Moved, Underway
<1>6. ASSUME Operate PROVE RepeatInv'
  BY <1>1, <1>5, <1>6, OperateForm
<1>7. ASSUME NEW r \in Runs, Crash(r) PROVE RepeatInv'
  BY <1>5, <1>7, MoveForms
<1> QED BY <1>1, <1>2, <1>3, <1>4, <1>6, <1>7 DEF Next, vars

LEMMA RepeatInvariant == Spec => [](FolderInv /\ RepeatInv)
<1>1. Init => RepeatInv
  BY RecordsTyped DEF Init, RepeatInv, RepeatOf, Underway, NoRun
<1> QED BY <1>1, FolderInitInv, FolderStep, RepeatStep, PTL DEF Spec

\* A launch is one of the slice at hand of a run that is under way.
LEMMA OnlyLaunches ==
    ASSUME FolderInv, [Next]_vars, NEW w \in Launched
    PROVE  \E r \in Runs : Launch(r) /\ w = <<r, Slice(r)>>
<1>1. live' # live /\ w \in live' /\ w \notin live
  BY DEF Launched
<1>2. ASSUME NEW r \in Runs, RunStep(r) PROVE Launch(r)
  BY <1>1, <1>2 DEF RunStep, Load, Announce, Prepare, SkipSpecification, StartSlice, SlicePasses,
     GateBlocks, SliceFails, Recover, RecordSlice, RecordBlocked, RecordFailed, FinishRun,
     FinishSequence, Leave, Sign, LastSave, Release
<1>3. ASSUME NEW r \in Runs, Invoke(r) PROVE FALSE
  BY <1>1, <1>3 DEF Invoke
<1>4. ASSUME NEW worker \in live, WorkerEnds(worker) PROVE FALSE
  BY <1>1, <1>4 DEF WorkerEnds
<1>5. ASSUME Operate PROVE FALSE
  BY <1>1, <1>5, OperateForm
<1>6. ASSUME NEW r \in Runs, Crash(r) PROVE FALSE
  BY <1>1, <1>6 DEF Crash
<1>7. PICK r \in Runs : Launch(r)
  BY <1>1, <1>2, <1>3, <1>4, <1>5, <1>6 DEF Next, vars
<1>8. live' = live \cup {<<r, Slice(r)>>}
  BY <1>7 DEF Launch
<1> QED BY <1>1, <1>7, <1>8

\* A slice that the run.json of an unfinished run lists is not launched again by
\* a run that resumes (runfolder.go:721), for any number of slices, runs,
\* crashes and cancels, however the folder is run.
THEOREM NothingTwice == Spec => NoRepeat
<1>1. ASSUME FolderInv, RepeatInv, [Next]_vars, NEW w \in Launched,
             runner[w[1]].resumed, run.status # "completed"
      PROVE  w[2] \notin run.completed
  <2>1. PICK r \in Runs : Launch(r) /\ w = <<r, Slice(r)>>
    BY <1>1, OnlyLaunches
  <2>2. runner[r].pc = "launch" /\ runner[r].todo # {}
    BY <2>1, RunnerTyped, <1>1 DEF Launch, RunInv, Busy
  <2>3. Slice(r) \in runner[r].todo
    BY <1>1, <2>2, SliceTyped DEF FolderInv
  <2>4. runner[r].todo \cap run.completed = {}
    BY <1>1, <2>1, <2>2 DEF RepeatInv, RepeatOf, Underway
  <2> QED BY <2>1, <2>3, <2>4
<1>2. FolderInv /\ RepeatInv /\ [Next]_vars =>
        [\A w \in Launched :
           runner[w[1]].resumed /\ run.status # "completed" => w[2] \notin run.completed]_vars
  BY <1>1
<1> QED BY <1>2, RepeatInvariant, PTL DEF NoRepeat, Spec

-----------------------------------------------------------------------------
(* What is reported as done has passed.                                     *)

\* The slices that have passed or need not.
Behind == {k \in Slices : folder[k] = "specification" \/ k \in passed}

\* A copy of the sequence says only of those that they are done.
Honest(s) ==
    /\ \A k \in Slices : s.items[k] \in {"succeeded", "skipped"} => k \in Behind
    /\ s.status = "completed" => Slices \subseteq Behind

\* The steps at which a run may still save its copy.
Saving == Underway \cup {"leave", "sign", "signoff", "lastsave"}

\* What a run believes and has left out is behind it.
Sound(r) ==
    /\ Honest(runner[r].my)
    /\ runner[r].own.completed \subseteq Behind
    /\ runner[r].pc \in Underway => Slices \ runner[r].todo \subseteq Behind
    /\ runner[r].pc = "record" => Slice(r) \in Behind
    /\ runner[r].pc = "finish" => runner[r].todo = {}
    /\ runner[r].pc # "blocked"
    /\ runner[r].pc \in Saving => runner[r].my.status # "absent"
    /\ runner[r].pc = "load" => runner[r].mode # "fresh"
    /\ runner[r].pc \in Underway /\ StartsOver(r) => passed = {}

\* So are the records, and the copies that the commands may still save. Nothing
\* has passed before the first save.
PassedInv ==
    /\ run.completed \subseteq Behind
    /\ Honest(seq)
    /\ Honest(canceller.copy)
    /\ Honest(reconciler.copy)
    /\ seq.status = "absent" => passed = {}
    /\ canceller.pc = "write" => canceller.copy.status # "absent"
    /\ reconciler.pc = "write" => reconciler.copy.status # "absent"
    /\ \A r \in Runs : Sound(r)

\* Without --fresh and without gates. With either the invariant does not hold:
\* a run that starts over leaves run.json to its successor, and run.json lists a
\* gate that blocked with the completed slices.
Plain ==
    /\ "fresh" \notin Modes
    /\ \A f \in Folders : \A k \in Slices : f[k] # "gate"

LEMMA PassedKept ==
    ASSUME FolderInv, PassedInv, NEW r \in Runs, NEW pc, Moves(r, pc),
           Behind \subseteq Behind', UNCHANGED <<canceller, reconciler>>,
           Sound(r)', Honest(seq)', run'.completed \subseteq Behind',
           passed' = passed \/ runner[r].pc \in Underway,
           seq'.status = "absent" => passed' = {}
    PROVE  PassedInv'
<1>1. ASSUME NEW q \in Runs \ {r} PROVE Sound(q)'
  <2>1. runner'[q] = runner[q] /\ Sound(q)
    BY DEF Moves, PassedInv
  <2>2. runner[q].pc \in Underway => passed' = passed
    BY Alone DEF Underway, Holds
  <2>3. Honest(runner[q].my)'
    BY <2>1 DEF Sound, Honest
  <2>4. StartsOver(q)' <=> StartsOver(q)
    BY <2>1 DEF StartsOver
  <2>5. Slice(q)' = Slice(q)
    BY <2>1 DEF Slice
  <2> QED BY <2>1, <2>2, <2>3, <2>4, <2>5 DEF Sound
<1>2. Honest(canceller.copy)' /\ Honest(reconciler.copy)'
  BY DEF PassedInv, Honest
<1> QED BY <1>1, <1>2 DEF PassedInv

\* A run moves on, and may save its copy.
LEMMA PassedMoved ==
    ASSUME FolderInv, PassedInv, NEW r \in Runs, NEW pc, Steps(r, pc),
           UNCHANGED <<folder, run, passed, canceller, reconciler>>,
           seq' = seq \/ (seq' = runner[r].my /\ runner[r].pc \in Saving),
           pc \in Underway => runner[r].pc \in Underway,
           pc \in Saving => runner[r].pc \in Saving,
           pc \notin {"record", "finish", "blocked", "load"}
    PROVE  PassedInv'
<1>1. Sound(r) /\ Behind' = Behind
  BY DEF PassedInv, Behind
<1>2. runner'[r].pc = pc /\ runner'[r].my = runner[r].my /\ runner'[r].own = runner[r].own
      /\ runner'[r].todo = runner[r].todo /\ runner'[r].resumed = runner[r].resumed
  BY DEF Steps, Moves, KeepsMy, KeepsOwn, KeepsTodo
<1>3. StartsOver(r)' <=> StartsOver(r)
  BY <1>2 DEF StartsOver
<1>4. Honest(runner[r].my)'
  BY <1>1, <1>2 DEF Sound, Honest
<1>5. Sound(r)'
  BY <1>1, <1>2, <1>3, <1>4 DEF Sound
<1>6. Honest(seq)' /\ (seq'.status = "absent" => passed' = {})
  BY <1>1 DEF PassedInv, Sound, Honest
<1> QED BY <1>1, <1>5, <1>6, PassedKept DEF PassedInv, Steps

LEMMA PassedLoaded ==
    ASSUME FolderInv, PassedInv, NEW r \in Runs, Load(r), Frame PROVE PassedInv'
<1>1. runner[r].pc = "load" /\ UNCHANGED <<seq, run, passed>>
      /\ (Moved(r, "release") \/ Loaded(r))
  BY LoadForm DEF Load
<1>2. CASE Moved(r, "release")
  BY <1>2, PassedMoved DEF Moved, Underway, Saving, Frame
<1>3. CASE Loaded(r)
  <2>1. Behind' = Behind /\ runner[r].mode # "fresh" /\ Honest(seq) /\ run.completed \subseteq Behind
    BY <1>1 DEF PassedInv, Sound, Behind, Frame
  <2>2. PICK my, own, todo, resumed : my = runner'[r].my /\ own = runner'[r].own
           /\ todo = runner'[r].todo /\ resumed = runner'[r].resumed
    OBVIOUS
  <2>3. my = (IF resumed THEN seq ELSE NewSequence)
        /\ todo = (IF resumed THEN Slices \ Done(my, own) ELSE Slices)
        /\ (own = NewRun \/ own = run)
    BY <1>3, <2>2 DEF Loaded
  <2>4. resumed <=> seq.status # "absent"
    BY <1>3, <2>1, <2>2, Zenon DEF Loaded
  <2>5. NewSequence.items = Untouched /\ NewSequence.status = "running" /\ NewRun.completed = {}
    BY DEF NewSequence, NoSequence, NewRun, NoRun
  <2>6. /\ \A k \in Slices : my.items[k] \in {"succeeded", "skipped"} => k \in Behind
        /\ my.status = "completed" => Slices \subseteq Behind
    BY <2>1, <2>3, <2>5 DEF Honest, Untouched
  <2>7. own.completed \subseteq Behind
    BY <2>1, <2>3, <2>5
  <2>8. Slices \ todo \subseteq Behind
    BY <2>3, <2>6, <2>7 DEF Done
  <2>9. my.status # "absent"
    BY <2>3, <2>4, <2>5
  <2>10. ~resumed => passed = {}
    BY <2>4 DEF PassedInv
  <2>11. PICK pc \in {"announce", "prepare"} : Moves(r, pc) /\ runner'[r].pc = pc
    BY <1>3 DEF Loaded, Moves
  <2>12. Honest(runner[r].my)'
    BY <2>1, <2>2, <2>6 DEF Honest
  <2>13. Sound(r)'
    BY <1>1, <2>1, <2>2, <2>7, <2>8, <2>9, <2>10, <2>11, <2>12 DEF Sound, StartsOver
  <2>14. Honest(seq)' /\ (seq'.status = "absent" => passed' = {})
    BY <1>1, <2>1 DEF PassedInv, Honest
  <2> QED BY <1>1, <2>1, <2>11, <2>13, <2>14, PassedKept DEF PassedInv, Frame
<1> QED BY <1>1, <1>2, <1>3

\* The sequence is only completed when every item is.
LEMMA StatusComplete ==
    ASSUME NEW items \in [Slices -> ItemStatus], SequenceStatusOf(items) = "completed"
    PROVE  \A k \in Slices : items[k] \in {"succeeded", "skipped"}
BY DEF SequenceStatusOf, ItemStatus

\* The item of the slice at hand changes; it is behind if it says so.
LEMMA PassedMarked ==
    ASSUME FolderInv, PassedInv, NEW r \in Runs, Frame, runner[r].pc \in Underway,
           runner[r].todo # {},
           NEW status \in {"running", "skipped", "succeeded", "failed"},
           NEW pc \in {"record", "launch", "failed"}, Marks(r, status, pc),
           Behind \subseteq Behind',
           status \in {"skipped", "succeeded"} => Slice(r) \in Behind',
           pc = "record" => Slice(r) \in Behind'
    PROVE  PassedInv'
<1>1. Sound(r) /\ runner[r].my \in Sequence /\ Slice(r) \in Slices
  BY RunnerTyped, SliceTyped DEF PassedInv, FolderInv
<1>2. /\ runner'[r].pc = pc /\ runner'[r].own = runner[r].own
      /\ runner'[r].todo = runner[r].todo /\ runner'[r].resumed = runner[r].resumed
      /\ runner'[r].my = seq' /\ UNCHANGED run
  BY DEF Marks, Moves, KeepsOwn, KeepsTodo
<1>3. PICK items : items = seq'.items
  OBVIOUS
<1>4. PICK k \in Slices : k = Slice(r)
  BY <1>1
<1>5. items = [runner[r].my.items EXCEPT ![k] = status] /\ items \in [Slices -> ItemStatus]
      /\ seq'.status = SequenceStatusOf(items)
  BY <1>1, <1>2, <1>3, <1>4 DEF Marks, Sequence, ItemStatus
<1>6. \A j \in Slices : items[j] \in {"succeeded", "skipped"} => j \in Behind'
  BY <1>1, <1>4, <1>5 DEF Sound, Honest, Sequence
<1>7. seq'.status = "completed" => Slices \subseteq Behind'
  BY <1>5, <1>6, StatusComplete
<1>8. Honest(seq)' /\ Honest(runner[r].my)'
  BY <1>2, <1>3, <1>6, <1>7 DEF Honest
<1>9. seq'.status # "absent"
  BY <1>5, StatusTyped DEF SequenceStatus
<1>10. items # Untouched
  BY <1>4, <1>5 DEF Untouched
<1>11. Slice(r)' = Slice(r)
  BY <1>2 DEF Slice
<1>12. Slices \ runner[r].todo \subseteq Behind' /\ runner[r].own.completed \subseteq Behind'
  BY <1>1 DEF Sound
<1>13. Sound(r)'
  BY <1>2, <1>3, <1>8, <1>9, <1>10, <1>11, <1>12 DEF Sound, StartsOver
<1>14. run'.completed \subseteq Behind'
  BY <1>2 DEF PassedInv
<1> QED BY <1>8, <1>9, <1>13, <1>14, PassedKept DEF Marks, Frame

\* A run that starts over has nothing to give up.
LEMMA NothingGivenUp ==
    ASSUME PassedInv, NEW r \in Runs, runner[r].pc \in Underway, GivesUp(r), UNCHANGED folder
    PROVE  passed' = passed /\ Behind' = Behind
<1>1. passed' = passed
  BY DEF PassedInv, Sound, GivesUp
<1> QED BY <1>1 DEF Behind

LEMMA PassedWork ==
    ASSUME FolderInv, PassedInv, Plain, NEW r \in Runs, Frame,
           SkipSpecification(r) \/ StartSlice(r) \/ SlicePasses(r) \/ GateBlocks(r)
             \/ SliceFails(r) \/ Recover(r)
    PROVE  PassedInv'
<1>1. runner[r].pc \in {"next", "wait"} /\ runner[r].pc \in Underway
  BY DEF SkipSpecification, StartSlice, SlicePasses, GateBlocks, SliceFails, Recover, Ended,
         Underway
<1>2. runner[r].todo # {}
  <2>1. runner[r].pc = "wait" => runner[r].todo # {}
    BY RunnerTyped DEF RunInv, Busy
  <2> QED BY <2>1 DEF SkipSpecification, StartSlice, SlicePasses, GateBlocks, SliceFails,
                      Recover, Ended
<1>3. Slice(r) \in Slices
  BY <1>2, SliceTyped DEF FolderInv
<1>4. CASE SkipSpecification(r)
  <2>1. Marks(r, "skipped", "record") /\ Behind' = Behind
    BY <1>1, <1>4, SkipForm, NothingGivenUp DEF Frame
  <2>2. Slice(r) \in Behind
    BY <1>3, <1>4 DEF SkipSpecification, Behind
  <2> QED BY <1>1, <1>2, <2>1, <2>2, PassedMarked
<1>5. CASE StartSlice(r)
  <2>1. Marks(r, "running", "launch") /\ Behind' = Behind
    BY <1>1, <1>5, StartForm, NothingGivenUp DEF Frame
  <2> QED BY <1>1, <1>2, <2>1, PassedMarked
<1>6. CASE SlicePasses(r)
  <2>1. Marks(r, "succeeded", "record") /\ passed' = passed \cup {Slice(r)}
    BY <1>6, OutcomeForms DEF SlicePasses
  <2>2. Behind \subseteq Behind' /\ Slice(r) \in Behind'
    BY <1>3, <2>1 DEF Behind, Frame
  <2> QED BY <1>1, <1>2, <2>1, <2>2, PassedMarked
<1>7. CASE GateBlocks(r)
  BY <1>3, <1>7 DEF GateBlocks, Plain, FolderInv, TypeOK
<1>8. CASE SliceFails(r)
  <2>1. Marks(r, "failed", "failed") /\ Behind' = Behind
    BY <1>8, OutcomeForms DEF SliceFails, Behind, Frame
  <2> QED BY <1>1, <1>2, <2>1, PassedMarked
<1>9. CASE Recover(r)
  <2>1. Marks(r, "running", "launch") /\ Behind' = Behind
    BY <1>9, OutcomeForms DEF Recover, Behind, Frame
  <2> QED BY <1>1, <1>2, <2>1, PassedMarked
<1> QED BY <1>4, <1>5, <1>6, <1>7, <1>8, <1>9

\* run.json is written.
LEMMA PassedRecords ==
    ASSUME FolderInv, PassedInv, NEW r \in Runs, Frame, runner[r].pc \in Underway,
           NEW status, NEW done \in SUBSET Behind, NEW pc, Records(r, status, done, pc),
           pc \in {"next", "finish", "leave", "release"},
           pc \in Underway => Slices \ runner'[r].todo \subseteq Behind,
           pc = "finish" => runner'[r].todo = {}
    PROVE  PassedInv'
<1>1. /\ runner'[r].pc = pc /\ runner'[r].my = runner[r].my /\ run' = runner'[r].own
      /\ run'.completed = runner[r].own.completed \cup done /\ UNCHANGED <<seq, passed>>
      /\ runner'[r].resumed = runner[r].resumed
  BY DEF Records, Moves, KeepsMy
<1>2. Sound(r) /\ Behind' = Behind
  BY <1>1 DEF PassedInv, Behind, Frame
<1>3. run'.completed \subseteq Behind
  BY <1>1, <1>2 DEF Sound
<1>4. Honest(runner[r].my)' /\ Honest(seq)'
  BY <1>1, <1>2 DEF Sound, PassedInv, Honest
<1>5. StartsOver(r)' <=> StartsOver(r)
  BY <1>1 DEF StartsOver
<1>6. Sound(r)'
  BY <1>1, <1>2, <1>3, <1>4, <1>5 DEF Sound, Saving
<1> QED BY <1>1, <1>2, <1>3, <1>4, <1>6, PassedKept DEF Records, PassedInv, Frame

LEMMA PassedRecorded ==
    ASSUME FolderInv, PassedInv, NEW r \in Runs, Frame,
           RecordSlice(r) \/ RecordBlocked(r) \/ RecordFailed(r) \/ FinishRun(r)
    PROVE  PassedInv'
<1>1. Sound(r) /\ Exit(r) \in {"leave", "release"} /\ Exit(r) \notin Underway
  BY DEF PassedInv, Exit, Underway
<1>2. CASE RecordSlice(r)
  <2>1. Records(r, "running", {Slice(r)}, "next") /\ runner[r].pc = "record"
        /\ runner'[r].todo = runner[r].todo \ {Slice(r)}
    BY <1>2, RecordSliceForm DEF RecordSlice
  <2>2. {Slice(r)} \in SUBSET Behind /\ Slices \ runner'[r].todo \subseteq Behind
    BY <1>1, <2>1 DEF Sound, Underway
  <2> QED BY <2>1, <2>2, PassedRecords DEF Underway
<1>3. CASE RecordBlocked(r)
  BY <1>1, <1>3 DEF RecordBlocked, Sound
<1>4. CASE RecordFailed(r)
  <2>1. Records(r, "failed", {}, Exit(r)) /\ runner[r].pc = "failed" /\ {} \in SUBSET Behind
    BY <1>4, RecordForms DEF RecordFailed
  <2> QED BY <1>1, <2>1, PassedRecords DEF Underway
<1>5. CASE FinishRun(r)
  <2>1. Records(r, "completed", {}, "finish") /\ runner[r].pc = "next" /\ {} \in SUBSET Behind
        /\ runner'[r].todo = {} /\ runner[r].todo = {}
    BY <1>5, RecordForms DEF FinishRun, KeepsTodo
  <2>2. Slices \ runner'[r].todo \subseteq Behind
    BY <1>1, <2>1 DEF Sound, Underway
  <2> QED BY <2>1, <2>2, PassedRecords DEF Underway
<1> QED BY <1>2, <1>3, <1>4, <1>5

\* The sequence is saved with another status or supervisor.
LEMMA PassedResaved ==
    ASSUME FolderInv, PassedInv, NEW r \in Runs, Frame, UNCHANGED passed,
           runner[r].pc \in Underway, NEW status, status # "absent",
           NEW pc, Resaves(r, status, pc), pc \in {"prepare", "leave", "release"},
           status = "completed" => Slices \subseteq Behind
    PROVE  PassedInv'
<1>1. Sound(r) /\ Behind' = Behind
  BY DEF PassedInv, Behind, Frame
<1>2. /\ runner'[r].pc = pc /\ runner'[r].own = runner[r].own
      /\ runner'[r].todo = runner[r].todo /\ runner'[r].resumed = runner[r].resumed
      /\ runner'[r].my = seq' /\ seq'.items = runner[r].my.items /\ seq'.status = status
      /\ UNCHANGED run
  BY DEF Resaves, Moves, KeepsOwn, KeepsTodo
<1>3. Honest(runner[r].my)' /\ Honest(seq)'
  BY <1>1, <1>2 DEF Sound, Honest
<1>4. StartsOver(r)' <=> StartsOver(r)
  BY <1>2 DEF StartsOver
<1>5. Sound(r)'
  BY <1>1, <1>2, <1>3, <1>4 DEF Sound
<1> QED BY <1>1, <1>2, <1>3, <1>5, PassedKept DEF Resaves, PassedInv, Frame

LEMMA PassedRun ==
    ASSUME FolderInv, PassedInv, Plain, NEW r \in Runs, RunStep(r), Frame PROVE PassedInv'
<1>0. Sound(r)
  BY DEF PassedInv
<1>1. CASE Load(r)
  BY <1>1, PassedLoaded
<1>2. CASE Announce(r)
  <2>1. runner[r].pc = "announce" /\ runner[r].pc \in Underway
    BY <1>2 DEF Announce, Underway
  <2>2. Resaves(r, runner[r].my.status, "prepare") /\ passed' = passed
    BY <1>2, <2>1, AnnounceForm, NothingGivenUp DEF Frame
  <2>3. runner[r].my.status # "absent"
        /\ (runner[r].my.status = "completed" => Slices \subseteq Behind)
    BY <1>0, <2>1 DEF Sound, Honest, Saving
  <2> QED BY <2>1, <2>2, <2>3, PassedResaved
<1>3. CASE Prepare(r)
  <2>1. runner[r].pc = "prepare" /\ Exit(r) \in {"leave", "release"}
    BY <1>3 DEF Prepare, Exit
  <2>2. PICK pc \in {"next", "leave", "release"} : Moved(r, pc) \/ Saved(r, pc)
    BY <1>3, <2>1, PrepareForm
  <2> QED BY <2>1, <2>2, PassedMoved DEF Moved, Saved, Underway, Saving, Frame
<1>4. CASE SkipSpecification(r) \/ StartSlice(r) \/ SlicePasses(r) \/ GateBlocks(r)
           \/ SliceFails(r) \/ Recover(r)
  BY <1>4, PassedWork
<1>5. CASE Launch(r)
  BY <1>5, MoveForms, PassedMoved DEF Launch, Moved, Underway, Saving, Frame
<1>6. CASE RecordSlice(r) \/ RecordBlocked(r) \/ RecordFailed(r) \/ FinishRun(r)
  BY <1>6, PassedRecorded
<1>7. CASE FinishSequence(r)
  <2>1. runner[r].pc = "finish" /\ runner[r].pc \in Underway /\ Exit(r) \in {"leave", "release"}
    BY <1>7 DEF FinishSequence, Underway, Exit
  <2>2. Slices \subseteq Behind
    BY <1>0, <2>1 DEF Sound
  <2>3. Resaves(r, "completed", Exit(r)) /\ UNCHANGED passed
    BY <1>7, FinishForm
  <2> QED BY <2>1, <2>2, <2>3, PassedResaved
<1>8. CASE Leave(r) \/ Sign(r) \/ Release(r)
  <2>1. PICK pc \in {"sign", "signoff", "lastsave", "release", "dead"} :
           Moved(r, pc) /\ (pc \in {"sign", "signoff", "lastsave"} => runner[r].pc \in Saving)
    BY <1>8, MoveForms DEF Leave, Sign, Release, Saving
  <2> QED BY <2>1, PassedMoved DEF Moved, Underway, Saving, Frame
<1>9. CASE LastSave(r)
  BY <1>9, LastSaveForm, PassedMoved DEF LastSave, Saved, Underway, Saving, Frame
<1> QED BY <1>1, <1>2, <1>3, <1>4, <1>5, <1>6, <1>7, <1>8, <1>9 DEF RunStep

-----------------------------------------------------------------------------
(* The commands only save what somebody saved before.                       *)

\* A command changes nothing that run-folder may not have passed.
LEMMA CopiesHonest ==
    ASSUME TypeOK, Honest(seq)
    PROVE  /\ \A k \in Slices : Cancelled(seq).items[k] \in {"succeeded", "skipped"} => k \in Behind
           /\ \A k \in Slices : Interrupted(seq).items[k] \in {"succeeded", "skipped"} => k \in Behind
           /\ Cancelled(seq).status = "cancelled"
           /\ Interrupted(seq).status = "interrupted"
<1>1. seq \in Sequence
  BY DEF TypeOK
<1>2. /\ \A k \in Slices : Cancelled(seq).items[k] \in {"succeeded", "skipped"} => k \in Behind
      /\ Cancelled(seq).status = "cancelled"
  <2> DEFINE items == [k \in Slices |->
                         IF seq.items[k] \in {"succeeded", "skipped", "failed", "gate-blocked"}
                         THEN seq.items[k] ELSE "cancelled"]
  <2>1. Cancelled(seq) = [seq EXCEPT !.status = "cancelled", !.items = items]
    BY <1>1 DEF Cancelled, Sequence
  <2>2. \A k \in Slices : items[k] \in {"succeeded", "skipped"} => k \in Behind
    BY DEF Honest
  <2> HIDE DEF items
  <2>3. Cancelled(seq).items = items /\ Cancelled(seq).status = "cancelled"
    BY <1>1, <2>1 DEF Sequence
  <2> QED BY <2>2, <2>3
<1>3. /\ \A k \in Slices : Interrupted(seq).items[k] \in {"succeeded", "skipped"} => k \in Behind
      /\ Interrupted(seq).status = "interrupted"
  <2> DEFINE with(status) == {k \in Slices : seq.items[k] = status}
             hit == IF with("running") # {} THEN with("running")
                    ELSE IF with("pending") # {} THEN {Min(with("pending"))} ELSE {}
             items == [k \in Slices |-> IF k \in hit THEN "interrupted" ELSE seq.items[k]]
  <2>1. Interrupted(seq) = [seq EXCEPT !.status = "interrupted", !.items = items]
    BY <1>1 DEF Interrupted, Sequence
  <2> HIDE DEF hit
  <2>2. \A k \in Slices : items[k] \in {"succeeded", "skipped"} => k \in Behind
    BY DEF Honest
  <2> HIDE DEF items
  <2>3. Interrupted(seq).items = items /\ Interrupted(seq).status = "interrupted"
    BY <1>1, <2>1 DEF Sequence
  <2> QED BY <2>2, <2>3
<1> QED BY <1>2, <1>3

LEMMA PassedSame ==
    ASSUME PassedInv, UNCHANGED <<folder, run, runner, passed>>
    PROVE  /\ Behind' = Behind /\ run'.completed \subseteq Behind
           /\ \A r \in Runs : Sound(r)'
<1>1. Behind' = Behind
  BY DEF Behind
<1>2. ASSUME NEW r \in Runs PROVE Sound(r)'
  BY <1>1 DEF PassedInv, Sound, Honest, StartsOver, Slice
<1> QED BY <1>1, <1>2 DEF PassedInv

LEMMA PassedOperate ==
    ASSUME FolderInv, PassedInv, Operate, UNCHANGED <<folder, detached, crashes>>
    PROVE  PassedInv'
<1>1. TypeOK /\ Honest(seq) /\ Honest(canceller.copy) /\ Honest(reconciler.copy)
      /\ (seq.status = "absent" => passed = {})
  BY DEF FolderInv, PassedInv
<1>2. NoSequence.items = Untouched /\ NoSequence.status = "absent" /\ Idle.copy = NoSequence
      /\ Idle.pc = "idle"
  BY DEF NoSequence, Idle
<1>3. \A k \in Slices : NoSequence.items[k] = "pending"
  BY <1>2 DEF Untouched
<1>4. CASE BeginCancel
  <2>1. UNCHANGED <<runVars, reconciler>> /\ canceller' = [Idle EXCEPT !.pc = "reload", !.sup = seq.sup]
    BY <1>4 DEF BeginCancel
  <2>2. canceller'.copy = NoSequence /\ canceller'.pc = "reload"
    BY <1>2, <2>1, RecordsTyped DEF Operator
  <2>3. Honest(canceller.copy)' /\ Honest(reconciler.copy)' /\ Honest(seq)'
    BY <1>1, <1>2, <1>3, <2>1, <2>2, PassedSame DEF Honest, runVars
  <2> QED BY <1>1, <2>1, <2>2, <2>3, PassedSame DEF PassedInv, runVars
<1>5. CASE ReloadSequence
  <2>1. UNCHANGED <<runVars, reconciler>>
    BY <1>5 DEF ReloadSequence
  <2>2. canceller' = Idle \/ canceller' = [canceller EXCEPT !.pc = "write", !.copy = Cancelled(seq)]
    BY <1>5 DEF ReloadSequence
  <2>3. PICK s : s = Cancelled(seq)
    OBVIOUS
  <2>4. s.status = "cancelled" /\ \A k \in Slices : s.items[k] \in {"succeeded", "skipped"} => k \in Behind
    BY <1>1, <2>3, CopiesHonest
  <2>5. (canceller'.copy = NoSequence /\ canceller'.pc = "idle") \/ canceller'.copy = s
    BY <1>1, <1>2, <2>2, <2>3 DEF TypeOK, Operator
  <2>6. Honest(canceller.copy)' /\ Honest(reconciler.copy)' /\ Honest(seq)'
    BY <1>1, <1>2, <1>3, <2>1, <2>4, <2>5, PassedSame DEF Honest, runVars
  <2> QED BY <1>1, <2>1, <2>4, <2>5, <2>6, PassedSame DEF PassedInv, runVars
<1>6. CASE WriteCancelled
  <2>1. /\ canceller.pc = "write" /\ seq' = canceller.copy
        /\ canceller' = [canceller EXCEPT !.pc = "stop", !.copy = NoSequence]
        /\ UNCHANGED <<run, claim, supervisor, runner, live, passed, reconciler>>
    BY <1>6 DEF WriteCancelled
  <2>2. canceller'.copy = NoSequence /\ canceller'.pc = "stop" /\ seq'.status # "absent"
    BY <1>1, <2>1 DEF TypeOK, Operator, PassedInv
  <2>3. Honest(canceller.copy)' /\ Honest(reconciler.copy)' /\ Honest(seq)'
    BY <1>1, <1>2, <1>3, <2>1, <2>2, PassedSame DEF Honest
  <2> QED BY <2>1, <2>2, <2>3, PassedSame DEF PassedInv
<1>7. CASE StopSupervisor
  <2>1. UNCHANGED <<seq, run, passed, reconciler>> /\ canceller' = Idle
    BY <1>7 DEF StopSupervisor
  <2>2. Behind' = Behind
    BY <2>1 DEF Behind
  <2>3. Honest(canceller.copy)' /\ Honest(reconciler.copy)' /\ Honest(seq)'
    BY <1>1, <1>2, <1>3, <2>1, <2>2 DEF Honest
  <2>4. ASSUME NEW r \in Runs PROVE Sound(r)'
    <3>1. UNCHANGED runner \/ \E q \in Runs : Moved(q, "dead")
      BY <1>7, StopForm
    <3>2. CASE UNCHANGED runner
      BY <2>1, <3>2, PassedSame
    <3>3. ASSUME NEW q \in Runs, Moved(q, "dead") PROVE Sound(r)'
      <4>1. (Sound(r) /\ runner'[r].my = runner[r].my /\ runner'[r].own = runner[r].own
            /\ runner'[r].todo = runner[r].todo /\ runner'[r].resumed = runner[r].resumed
            /\ runner'[r].mode = runner[r].mode) \/ runner'[r].pc = "dead"
        BY <3>3 DEF PassedInv, Moved, Steps, Moves, KeepsMy, KeepsOwn, KeepsTodo
      <4>2. runner'[r].pc \in {runner[r].pc, "dead"}
        BY <3>3 DEF Moved, Steps, Moves
      <4>3. Honest(runner[r].my)'
        BY <3>3, <2>2, <4>1 DEF Sound, Honest, PassedInv, Moved, Steps, Moves, KeepsMy
      <4> QED BY <2>1, <2>2, <3>3, <4>1, <4>2, <4>3
            DEF Sound, StartsOver, Slice, Saving, Underway, PassedInv, Moved, Steps, Moves,
                KeepsMy, KeepsOwn, KeepsTodo
    <3> QED BY <3>1, <3>2, <3>3
  <2>5. canceller'.pc = "idle"
    BY <1>2, <2>1
  <2> QED BY <1>1, <2>1, <2>2, <2>3, <2>4, <2>5 DEF PassedInv
<1>8. CASE BeginReconcile
  <2>1. /\ UNCHANGED <<runVars, canceller>>
        /\ reconciler' = [Idle EXCEPT !.pc = "write", !.copy = Interrupted(seq)]
    BY <1>8 DEF BeginReconcile
  <2>2. PICK s : s = Interrupted(seq)
    OBVIOUS
  <2>3. s.status = "interrupted" /\ \A k \in Slices : s.items[k] \in {"succeeded", "skipped"} => k \in Behind
    BY <1>1, <2>2, CopiesHonest
  <2>4. reconciler'.copy = s
    BY <2>1, <2>2, RecordsTyped DEF Operator
  <2>5. Honest(canceller.copy)' /\ Honest(reconciler.copy)' /\ Honest(seq)'
    BY <1>1, <2>1, <2>3, <2>4, PassedSame DEF Honest, runVars
  <2> QED BY <1>1, <2>1, <2>3, <2>4, <2>5, PassedSame DEF PassedInv, runVars
<1>9. CASE WriteInterrupted
  <2>1. /\ reconciler.pc = "write" /\ seq' = reconciler.copy /\ reconciler' = Idle
        /\ UNCHANGED <<run, claim, supervisor, runner, live, passed, canceller>>
    BY <1>9 DEF WriteInterrupted
  <2>2. seq'.status # "absent" /\ reconciler'.pc = "idle" /\ reconciler'.copy = NoSequence
    BY <1>2, <2>1 DEF PassedInv
  <2>3. Honest(canceller.copy)' /\ Honest(reconciler.copy)' /\ Honest(seq)'
    BY <1>1, <1>2, <1>3, <2>1, <2>2, PassedSame DEF Honest
  <2> QED BY <2>1, <2>2, <2>3, PassedSame DEF PassedInv
<1> QED BY <1>4, <1>5, <1>6, <1>7, <1>8, <1>9 DEF Operate

LEMMA PassedInit == ASSUME Plain, Init PROVE PassedInv
<1>1. NoSequence.items = Untouched /\ NoSequence.status = "absent" /\ Idle.copy = NoSequence
      /\ Idle.pc = "idle" /\ NoRun.completed = {}
  BY DEF NoSequence, Idle, NoRun
<1>2. /\ Unborn.pc = "unborn" /\ Unborn.my = NoSequence /\ Unborn.own = NoRun
  BY DEF Unborn
<1>3. Honest(NoSequence)
  BY <1>1 DEF Honest, Untouched
<1>4. ASSUME NEW r \in Runs PROVE Sound(r)
  BY <1>1, <1>2, <1>3 DEF Init, Sound, Underway, Saving
<1> QED BY <1>1, <1>3, <1>4 DEF Init, PassedInv

LEMMA PassedStep == ASSUME Plain PROVE FolderInv /\ PassedInv /\ [Next]_vars => PassedInv'
<1> SUFFICES ASSUME FolderInv, PassedInv, [Next]_vars PROVE PassedInv'
  OBVIOUS
<1>1. ASSUME UNCHANGED <<folder, seq, run, runner, canceller, reconciler, passed>>
      PROVE  PassedInv'
  <2>1. Honest(canceller.copy)' /\ Honest(reconciler.copy)' /\ Honest(seq)'
    BY <1>1, PassedSame DEF Honest, PassedInv
  <2> QED BY <1>1, <2>1, PassedSame DEF PassedInv
<1>2. ASSUME NEW r \in Runs, Invoke(r), Frame PROVE PassedInv'
  <2>1. /\ Moves(r, "load") /\ UNCHANGED <<seq, run, passed>>
        /\ runner'[r].my = NoSequence /\ runner'[r].own = NoRun
        /\ runner'[r].mode \in Modes
    BY <1>2, InvokeForm
  <2>2. Behind' = Behind
    BY <1>2, <2>1 DEF Behind, Frame
  <2>3. NoSequence.items = Untouched /\ NoSequence.status = "absent" /\ NoRun.completed = {}
    BY DEF NoSequence, NoRun
  <2>4. Honest(runner[r].my)' /\ Honest(seq)'
    BY <2>1, <2>2, <2>3 DEF Honest, Untouched, PassedInv
  <2>5. Sound(r)'
    BY <2>1, <2>3, <2>4 DEF Sound, Moves, Underway, Saving, Plain
  <2> QED BY <1>2, <2>1, <2>2, <2>4, <2>5, PassedKept DEF PassedInv, Frame
<1>3. ASSUME NEW r \in Runs, RunStep(r), Frame PROVE PassedInv'
  BY <1>3, PassedRun
<1>4. ASSUME NEW worker \in live, WorkerEnds(worker), Frame PROVE PassedInv'
  BY <1>1, <1>4 DEF WorkerEnds, Frame
<1>5. ASSUME Operate, UNCHANGED <<folder, detached, crashes>> PROVE PassedInv'
  BY <1>5, PassedOperate
<1>6. ASSUME NEW r \in Runs, Crash(r), UNCHANGED <<folder, detached>> PROVE PassedInv'
  <2>1. Moved(r, "dead") /\ UNCHANGED <<canceller, reconciler>>
    BY <1>6, MoveForms DEF Crash
  <2> QED BY <1>6, <2>1, PassedMoved DEF Moved, Underway, Saving
<1> QED BY <1>1, <1>2, <1>3, <1>4, <1>5, <1>6 DEF Next, vars, Frame

LEMMA PassedInvariant == ASSUME Plain PROVE Spec => [](FolderInv /\ PassedInv)
<1>1. Init => PassedInv
  BY PassedInit
<1>2. FolderInv /\ PassedInv /\ [Next]_vars => PassedInv'
  BY PassedStep
<1> QED BY <1>1, <1>2, FolderInitInv, FolderStep, PTL DEF Spec

\* A sequence that is reported completed has passed every slice, whatever
\* crashed, was cancelled or reconciled, and whichever of the records a resumed
\* run believed (runfolder.go:611, 724, 960), for any number of slices and runs.
THEOREM CompletedIsPassed == ASSUME Plain PROVE Spec => []CompletedHasPassed
<1>1. FolderInv /\ PassedInv => CompletedHasPassed
  BY DEF PassedInv, Honest, Behind, CompletedHasPassed
<1> QED BY <1>1, PassedInvariant, PTL

\* The least element of a set is not greater than any.
LEMMA MinLeast ==
    ASSUME NEW S \in SUBSET Nat, NEW x \in S PROVE Min(S) =< x
<1>1. PICK m \in S : \A y \in S : ~(<<y, m>> \in OpToRel(<, Nat))
  BY NatLessThanWellFounded, WFMin
<1>2. ASSUME NEW y \in S PROVE m =< y
  <2>1. ~(<<y, m>> \in {ss \in Nat \X Nat : ss[1] < ss[2]})
    BY <1>1, Zenon DEF OpToRel
  <2> QED BY <2>1
<1>3. \A y \in S : Min(S) =< y
  BY <1>1, <1>2 DEF Min
<1> QED BY <1>3

\* A slice is launched only when every slice before it has passed
\* (runfolder.go:721), under the same conditions.
THEOREM LaunchedInOrder == ASSUME Plain PROVE Spec => SliceOrder
<1>1. ASSUME FolderInv, PassedInv, [Next]_vars, NEW w \in Launched, NEW j \in 1 .. w[2] - 1,
             folder[j] # "specification"
      PROVE  j \in passed
  <2>1. PICK r \in Runs : Launch(r) /\ w = <<r, Slice(r)>>
    BY <1>1, OnlyLaunches
  <2>2. runner[r].pc = "launch" /\ runner[r].todo # {} /\ runner[r].todo \subseteq Slices
    BY <2>1, RunnerTyped, <1>1 DEF Launch, RunInv, Busy
  <2>3. Slice(r) \in Slices /\ j \in 1 .. Slice(r) - 1
    BY <1>1, <2>1, <2>2, SliceTyped DEF FolderInv
  <2>4. j \in Slices /\ ~(Slice(r) =< j)
    BY <2>3 DEF Slices
  <2>5. runner[r].todo \in SUBSET Nat
    BY <2>2 DEF Slices
  <2>6. j \notin runner[r].todo
    BY <2>4, <2>5, MinLeast DEF Slice
  <2>7. j \in Behind
    BY <1>1, <2>2, <2>4, <2>6 DEF PassedInv, Sound, Underway
  <2> QED BY <1>1, <2>7 DEF Behind
<1>2. FolderInv /\ PassedInv /\ [Next]_vars =>
        [\A w \in Launched : \A j \in 1 .. w[2] - 1 :
           folder[j] # "specification" => j \in passed]_vars
  BY <1>1
<1> QED BY <1>2, PassedInvariant, PTL DEF SliceOrder, Spec

-----------------------------------------------------------------------------
(* The promise of FolderOrder.                                              *)

\* Where no run dies and no other command is given.
Undisturbed == Commands = {} /\ MaxCrashes = 0

\* The items that are done.
Finished(s) == {k \in Slices : s.items[k] \in {"succeeded", "skipped"}}

\* The items are dealt with in order, and the status of a sequence tells what
\* they say.
Tidy(s) ==
    /\ \A j \in Slices : s.items[j] # "pending" => \A i \in 1 .. j - 1 : i \in Finished(s)
    /\ \A j \in Slices : s.items[j] \notin {"interrupted", "cancelled"}
    /\ \A j \in Slices : s.items[j] = "gate-blocked" => folder[j] = "gate"
    /\ s.status = "product-blocked" => \E j \in Slices : s.items[j] = "gate-blocked"
    /\ s.status = "completed" => Finished(s) = Slices
    /\ s.status = "absent" => s.items = Untouched

\* A copy that says what the file says.
Same(s) == s.items = seq.items /\ s.status = seq.status

\* A run has saved its copy, if there was something to save.
HasSaved(r) ==
    \/ runner[r].resumed
    \/ runner[r].my.items # Untouched
    \/ detached[r] /\ runner[r].pc # "announce"

\* What a run believes of the items.
Believes(r) ==
    /\ runner[r].pc # "blocked" => runner[r].my.status # "product-blocked"
    /\ runner[r].pc = "blocked" => runner[r].my.status = "product-blocked"
    /\ runner[r].own.completed \subseteq Finished(runner[r].my)
    /\ runner[r].pc # "record" => runner[r].todo = Slices \ Finished(runner[r].my)
    /\ runner[r].pc = "record" =>
         /\ Slice(r) \in Finished(runner[r].my)
         /\ runner[r].todo \ {Slice(r)} = Slices \ Finished(runner[r].my)
    /\ runner[r].pc = "finish" => runner[r].todo = {}
    /\ runner[r].pc \in {"launch", "wait"} => runner[r].my.items[Slice(r)] = "running"
    /\ runner[r].pc \in {"announce", "prepare"} /\ ~runner[r].resumed =>
         runner[r].my.items = Untouched
    /\ runner[r].pc \in Busy => runner[r].my.items # Untouched

Orderly(r) ==
    /\ runner[r].pc \notin {"unborn", "dead"} => claim = r
    /\ runner[r].pc \in Saving =>
         /\ Tidy(runner[r].my)
         /\ runner[r].my.status # "absent"
         /\ HasSaved(r) => Same(runner[r].my)
    /\ runner[r].pc \in Underway => Believes(r)
    /\ runner[r].pc = "lastsave" => detached[r]

\* run.json lists no more than the sequence, unless the latter says blocked.
Agree == seq.status = "product-blocked" \/ run.completed \subseteq Finished(seq)

\* A run that starts over leaves the old run.json behind until it writes its own.
OrderInv ==
    /\ canceller.pc = "idle" /\ reconciler.pc = "idle"
    /\ \A k \in passed : folder[k] = "implementation"
    /\ Tidy(seq)
    /\ Finished(seq) \subseteq Behind
    /\ (\A r \in Runs : runner[r].pc \in Underway => runner[r].resumed) => Agree
    /\ \A r \in Runs : Orderly(r)

\* The phase of the promise, and a step that keeps it.
Phase == CASE seq.status = "completed" -> "completed"
           [] seq.status = "product-blocked" -> "blocked"
           [] OTHER -> "open"

PromiseStep == [Promise!OrderNext]_(Promise!promise)

LEMMA PromiseStays ==
    ASSUME UNCHANGED <<folder, passed>>, Phase' = Phase PROVE PromiseStep
BY DEF PromiseStep, Promise!promise, Phase

LEMMA PromiseStartsOver ==
    ASSUME UNCHANGED folder, passed' = {}, Phase' = "open" PROVE PromiseStep
BY DEF PromiseStep, Promise!OrderNext, Promise!StartOver, Phase

LEMMA PromiseCompletes ==
    ASSUME UNCHANGED <<folder, passed>>, Slices \subseteq Behind,
           Phase = "open", Phase' = "completed"
    PROVE  PromiseStep
<1>1. Promise!AllIn(passed)
  BY DEF Promise!AllIn, Behind, Promise!Slices, Slices
<1> QED BY <1>1 DEF PromiseStep, Promise!OrderNext, Promise!Complete, Phase

LEMMA PromisePasses ==
    ASSUME UNCHANGED folder, NEW k \in Slices, folder[k] = "implementation",
           \A j \in 1 .. k - 1 : j \in Behind,
           passed' = passed \cup {k}, Phase = "open",
           Phase' = "open" \/ (Phase' = "completed" /\ Slices \subseteq Behind')
    PROVE  PromiseStep
<1>1. Promise!Before(k) \subseteq passed
  BY DEF Promise!Before, Behind
<1>2. Slices \subseteq Behind' => Promise!AllIn(passed')
  BY DEF Promise!AllIn, Behind, Promise!Slices, Slices
<1>3. Promise!Pass(k)
  BY <1>1, <1>2 DEF Promise!Pass, Phase
<1> QED BY <1>3 DEF PromiseStep, Promise!OrderNext, Promise!Slices, Slices

LEMMA PromiseBlocks ==
    ASSUME UNCHANGED <<folder, passed>>, NEW k \in Slices, folder[k] = "gate",
           \A j \in 1 .. k - 1 : j \in Behind, Phase = "open", Phase' = "blocked"
    PROVE  PromiseStep
<1>1. Promise!Before(k) \subseteq passed
  BY DEF Promise!Before, Behind
<1>2. Promise!Block(k)
  BY <1>1 DEF Promise!Block, Phase
<1> QED BY <1>2 DEF PromiseStep, Promise!OrderNext, Promise!Slices, Slices

\* The first slice that is not done gets another status.
LEMMA MarkedTidy ==
    ASSUME NEW s \in Sequence, NEW t \in Sequence, Tidy(s), NEW k \in Slices,
           k \notin Finished(s), \A i \in 1 .. k - 1 : i \in Finished(s),
           NEW status \in {"running", "skipped", "succeeded", "failed", "gate-blocked"},
           t.items[k] = status, \A j \in Slices \ {k} : t.items[j] = s.items[j],
           t.status = SequenceStatusOf(t.items),
           status = "gate-blocked" => folder[k] = "gate"
    PROVE  /\ Tidy(t)
           /\ Finished(t) = Finished(s) \cup
                 (IF status \in {"skipped", "succeeded"} THEN {k} ELSE {})
           /\ t.status = "product-blocked" <=> status = "gate-blocked"
           /\ t.status = "completed" => status \in {"skipped", "succeeded"}
           /\ t.status # "absent"
           /\ t.items # Untouched
<1>1. s.items \in [Slices -> ItemStatus] /\ t.items \in [Slices -> ItemStatus]
  BY DEF Sequence
<1>2. t.items[k] = status /\ \A j \in Slices \ {k} : t.items[j] = s.items[j]
  OBVIOUS
<1>3. ASSUME NEW j \in Slices, j < k PROVE t.items[j] \in {"succeeded", "skipped"}
  <2>1. j \in 1 .. k - 1
    BY <1>3 DEF Slices
  <2> QED BY <1>2, <1>3, <2>1 DEF Finished
<1>4. ASSUME NEW j \in Slices, j > k PROVE t.items[j] = "pending"
  <2>1. k \in 1 .. j - 1
    BY <1>4 DEF Slices
  <2> QED BY <1>2, <1>4, <2>1 DEF Tidy
<1>5. \A j \in Slices : j < k \/ j = k \/ j > k
  BY DEF Slices
<1>6. Finished(t) = Finished(s) \cup (IF status \in {"skipped", "succeeded"} THEN {k} ELSE {})
  BY <1>2 DEF Finished
<1>7. PICK items : items = t.items
  OBVIOUS
<1>8. \A j \in Slices : items[j] \in {"succeeded", "skipped"} \/ items[j] = "pending" \/ j = k
  BY <1>3, <1>4, <1>5, <1>7
<1>9. items[k] = status /\ t.status = SequenceStatusOf(items)
  BY <1>2, <1>7
<1>10. t.status = "product-blocked" <=> status = "gate-blocked"
  BY <1>8, <1>9 DEF SequenceStatusOf
<1>11. t.status = "completed" => \A j \in Slices : items[j] \in {"succeeded", "skipped"}
  BY <1>1, <1>7, <1>9, StatusComplete
<1>12. t.status # "absent"
  BY <1>9, StatusTyped DEF SequenceStatus
<1>13. t.status = "completed" => status \in {"skipped", "succeeded"} /\ Finished(t) = Slices
  BY <1>7, <1>9, <1>11 DEF Finished
<1>14. t.items # Untouched
  BY <1>2 DEF Untouched
<1>15. ASSUME NEW j \in Slices, t.items[j] # "pending", NEW i \in 1 .. j - 1
       PROVE  i \in Finished(t)
  <2>1. ~(j > k)
    BY <1>4, <1>15
  <2>2. i \in Slices /\ i < k
    BY <2>1 DEF Slices
  <2> QED BY <1>3, <2>2 DEF Finished
<1>16. Tidy(t)
  <2>1. \A j \in Slices : t.items[j] \notin {"interrupted", "cancelled"}
    BY <1>2 DEF Tidy
  <2>2. \A j \in Slices : t.items[j] = "gate-blocked" => folder[j] = "gate"
    BY <1>2 DEF Tidy
  <2>3. t.status = "product-blocked" => \E j \in Slices : t.items[j] = "gate-blocked"
    BY <1>2, <1>10
  <2> QED BY <1>12, <1>13, <1>15, <2>1, <2>2, <2>3 DEF Tidy
<1> QED BY <1>6, <1>10, <1>12, <1>13, <1>14, <1>16

\* While a run is alive, no other one is.
Only(r) == \A q \in Runs \ {r} : runner[q].pc \in {"unborn", "dead"}

LEMMA OnlyOne ==
    ASSUME OrderInv, NEW r \in Runs, runner[r].pc \notin {"unborn", "dead"}
    PROVE  Only(r) /\ Orderly(r) /\ claim = r
BY DEF OrderInv, Orderly, Only

LEMMA OrderKept ==
    ASSUME OrderInv, NEW r \in Runs, Only(r), NEW pc, Moves(r, pc),
           UNCHANGED <<folder, canceller, reconciler>>,
           \A k \in passed' : folder[k] = "implementation",
           NEW s, s = seq', Tidy(s), Finished(s) \subseteq Behind',
           s.status = "product-blocked" \/ run'.completed \subseteq Finished(s)
             \/ (runner'[r].pc \in Underway /\ ~runner'[r].resumed),
           Orderly(r)'
    PROVE  OrderInv'
<1>1. ASSUME NEW q \in Runs \ {r} PROVE Orderly(q)'
  <2>1. runner'[q] = runner[q] /\ runner[q].pc \in {"unborn", "dead"}
    BY DEF Moves, Only
  <2> QED BY <2>1 DEF Orderly, Saving, Underway
<1>2. Tidy(seq)'
  BY DEF Tidy, Finished
<1>3. (Finished(seq) \subseteq Behind)'
  BY DEF Finished
<1>4. ((\A q \in Runs : runner[q].pc \in Underway => runner[q].resumed) => Agree)'
  BY DEF Agree, Finished
<1> QED BY <1>1, <1>2, <1>3, <1>4 DEF OrderInv

\* The records agree unless the run that is alive has started over.
LEMMA Agreement ==
    ASSUME OrderInv, NEW r \in Runs, Only(r), runner[r].pc \in Underway => runner[r].resumed
    PROVE  Agree
BY DEF OrderInv, Only, Underway

\* A run that moves on, saving at most what is saved.
LEMMA OrderMoved ==
    ASSUME FolderInv, OrderInv, NEW r \in Runs, NEW pc, Steps(r, pc), Frame,
           runner[r].pc \notin {"unborn", "dead"},
           UNCHANGED <<run, passed>>,
           seq' = seq \/ (seq' = runner[r].my /\ HasSaved(r) /\ runner[r].pc \in Saving),
           pc \in Saving => runner[r].pc \in Saving /\ runner[r].pc # "announce",
           pc \in Underway => \/ runner[r].pc = "prepare" /\ pc = "next"
                              \/ runner[r].pc = "launch" /\ pc = "wait",
           pc \notin Underway => runner[r].pc \notin Underway \/ runner[r].resumed,
           pc # "dead" => claim' = claim,
           pc = "lastsave" => detached[r]
    PROVE  OrderInv' /\ PromiseStep
<1>1. Only(r) /\ Orderly(r)
  BY OnlyOne
<1>2. PICK s : s = seq'
  OBVIOUS
<1>3. s.items = seq.items /\ s.status = seq.status
  BY <1>1, <1>2 DEF Orderly, Same
<1>4. Tidy(s) /\ Finished(s) = Finished(seq) /\ Behind' = Behind
  BY <1>3 DEF OrderInv, Tidy, Finished, Behind, Frame
<1>5. s.status = "product-blocked" \/ run'.completed \subseteq Finished(s)
        \/ (runner'[r].pc \in Underway /\ ~runner'[r].resumed)
  <2>1. CASE runner[r].pc \in Underway => runner[r].resumed
    BY <1>1, <1>3, <1>4, <2>1, Agreement DEF Agree
  <2>2. CASE ~(runner[r].pc \in Underway => runner[r].resumed)
    BY <2>2 DEF Steps, Moves, KeepsTodo
  <2> QED BY <2>1, <2>2
<1>6. /\ runner'[r].pc = pc /\ runner'[r].my = runner[r].my /\ runner'[r].own = runner[r].own
      /\ runner'[r].todo = runner[r].todo /\ runner'[r].resumed = runner[r].resumed
  BY DEF Steps, Moves, KeepsMy, KeepsOwn, KeepsTodo
<1>7. Orderly(r)'
  <2>1. pc \in Saving => (Tidy(runner[r].my))' /\ runner'[r].my.status # "absent"
    BY <1>1, <1>6 DEF Orderly, Tidy, Finished, Frame
  <2>2. pc \in Saving /\ HasSaved(r)' => HasSaved(r)
    BY <1>6 DEF HasSaved, Frame
  <2>3. pc \in Saving /\ HasSaved(r)' => (Same(runner[r].my))'
    BY <1>1, <1>2, <1>3, <1>6, <2>2 DEF Orderly, Same
  <2>4. pc \in Underway => Believes(r)'
    <3>1. ASSUME pc \in Underway PROVE Believes(r)'
      <4>1. Believes(r) /\ Slice(r)' = Slice(r)
        BY <1>1, <1>6, <3>1 DEF Orderly, Underway, Slice
      <4> QED BY <1>6, <3>1, <4>1 DEF Believes, Busy, Finished
    <3> QED BY <3>1
  <2>5. runner'[r].pc \notin {"unborn", "dead"} => claim' = r
    BY <1>6, OnlyOne
  <2> QED BY <1>6, <2>1, <2>3, <2>4, <2>5 DEF Orderly, Frame
<1>8. OrderInv'
  BY <1>1, <1>2, <1>4, <1>5, <1>7, OrderKept DEF OrderInv, Steps, Frame
<1>9. Phase' = Phase
  BY <1>2, <1>3 DEF Phase
<1> QED BY <1>8, <1>9, PromiseStays DEF Frame

LEMMA NewIsTidy ==
    /\ Tidy(NewSequence) /\ Tidy(NoSequence)
    /\ Finished(NewSequence) = {} /\ Finished(NoSequence) = {}
    /\ NewSequence.items = Untouched /\ NewSequence.status = "running"
    /\ NoSequence.items = Untouched /\ NoSequence.status = "absent"
<1>1. /\ NewSequence.items = Untouched /\ NewSequence.status = "running"
      /\ NoSequence.items = Untouched /\ NoSequence.status = "absent"
  BY DEF NewSequence, NoSequence
<1>2. \A k \in Slices : Untouched[k] = "pending"
  BY DEF Untouched
<1> QED BY <1>1, <1>2 DEF Tidy, Finished

LEMMA OrderLoaded ==
    ASSUME FolderInv, OrderInv, NEW r \in Runs, Load(r), Frame PROVE OrderInv' /\ PromiseStep
<1>1. runner[r].pc = "load" /\ UNCHANGED <<seq, run, passed, claim>>
      /\ (Moved(r, "release") \/ Loaded(r))
  BY LoadForm DEF Load
<1>2. CASE Moved(r, "release")
  BY <1>1, <1>2, OrderMoved DEF Moved, Underway, Saving
<1>3. CASE Loaded(r)
  <2>1. Only(r) /\ Orderly(r) /\ claim = r /\ Behind' = Behind /\ Agree
    BY <1>1, OnlyOne, Agreement DEF Behind, Frame, Underway
  <2>2. PICK my, own, todo, resumed : my = runner'[r].my /\ own = runner'[r].own
           /\ todo = runner'[r].todo /\ resumed = runner'[r].resumed
    OBVIOUS
  <2>3. my = (IF resumed THEN seq ELSE NewSequence)
        /\ todo = (IF resumed THEN Slices \ Done(my, own) ELSE Slices)
        /\ my.status # "product-blocked"
    BY <1>3, <2>2 DEF Loaded
  <2>4. resumed \in BOOLEAN /\ (resumed => seq.status # "absent")
        /\ (~resumed => runner[r].mode = "fresh" \/ seq.status = "absent")
    <3>1. resumed = (runner[r].mode # "fresh" /\ seq.status # "absent")
      BY <1>3, <2>2 DEF Loaded
    <3> QED BY <3>1, Zenon
  <2>5. Tidy(my) /\ my.status # "absent" /\ (resumed => my = seq)
        /\ (~resumed => my.items = Untouched /\ Finished(my) = {})
    BY <2>3, <2>4, NewIsTidy DEF OrderInv
  <2>6. own.completed \subseteq Finished(my)
    <3>1. CASE own = NewRun
      BY <3>1 DEF NewRun, NoRun
    <3>2. CASE own = run /\ runner[r].mode # "fresh"
      <4>1. CASE resumed
        BY <2>1, <2>3, <2>5, <3>2, <4>1 DEF Agree
      <4>2. CASE ~resumed
        <5>1. seq.status = "absent"
          BY <2>4, <3>2, <4>2
        <5>2. Finished(seq) = {}
          BY <5>1 DEF OrderInv, Tidy, Finished, Untouched
        <5> QED BY <2>1, <3>2, <5>1, <5>2 DEF Agree
      <4> QED BY <2>4, <4>1, <4>2
    <3> QED BY <1>3, <2>2, <3>1, <3>2 DEF Loaded
  <2>7. todo = Slices \ Finished(my)
    BY <2>3, <2>4, <2>5, <2>6 DEF Done, Finished
  <2>8. PICK pc \in {"announce", "prepare"} : Moves(r, pc) /\ runner'[r].pc = pc
    BY <1>3 DEF Loaded, Moves
  <2>9. pc = "prepare" => ~detached[r]
    BY <1>3, <2>8 DEF Loaded, Moves
  <2>10. Believes(r)'
    BY <2>2, <2>3, <2>5, <2>6, <2>7, <2>8 DEF Believes, Busy, Finished
  <2>11. HasSaved(r)' => Same(runner[r].my)'
    BY <1>1, <2>2, <2>5, <2>8, <2>9 DEF HasSaved, Same, Frame
  <2>12. (Tidy(runner[r].my))' /\ runner'[r].my.status # "absent"
    BY <2>2, <2>5 DEF Tidy, Finished, Frame
  <2>13. Orderly(r)'
    BY <1>1, <2>1, <2>8, <2>10, <2>11, <2>12 DEF Orderly
  <2>14. PICK s : s = seq'
    OBVIOUS
  <2>15. s = seq /\ run'.completed = run.completed
    BY <1>1, <2>14
  <2>16. Tidy(s) /\ Finished(s) \subseteq Behind'
         /\ (s.status = "product-blocked" \/ run'.completed \subseteq Finished(s))
    BY <2>1, <2>15 DEF OrderInv, Agree
  <2>17. OrderInv'
    BY <1>1, <2>1, <2>8, <2>13, <2>14, <2>16, OrderKept DEF OrderInv, Frame
  <2>18. Phase' = Phase
    BY <1>1 DEF Phase
  <2> QED BY <1>1, <2>17, <2>18, PromiseStays DEF Frame
<1> QED BY <1>1, <1>2, <1>3

\* The slice at hand is the first that is not done.
LEMMA AtHand ==
    ASSUME FolderInv, OrderInv, NEW r \in Runs, runner[r].pc \in {"next", "wait"},
           runner[r].todo # {}
    PROVE  /\ Slice(r) \in Slices /\ Slice(r) \in runner[r].todo
           /\ Slice(r) \notin Finished(runner[r].my)
           /\ \A i \in 1 .. Slice(r) - 1 : i \in Finished(runner[r].my)
<1>1. Orderly(r) /\ Slice(r) \in Slices /\ Slice(r) \in runner[r].todo
  BY SliceTyped, OnlyOne DEF FolderInv
<1>2. runner[r].todo = Slices \ Finished(runner[r].my)
  BY <1>1 DEF Orderly, Underway, Believes
<1>3. ASSUME NEW i \in 1 .. Slice(r) - 1 PROVE i \in Finished(runner[r].my)
  <2>1. i \in Slices /\ ~(Slice(r) =< i)
    BY <1>1 DEF Slices
  <2>2. runner[r].todo \in SUBSET Nat
    BY <1>2 DEF Slices
  <2>3. i \notin runner[r].todo
    BY <2>1, <2>2, MinLeast DEF Slice
  <2> QED BY <1>2, <2>1, <2>3
<1> QED BY <1>1, <1>2, <1>3

\* A mark that a run makes, and what it does to what has passed.
Notes(r, status, pc) ==
    /\ Marks(r, status, pc)
    /\ UNCHANGED claim
    /\ runner[r].pc \in {"next", "wait"}
    /\ runner[r].todo # {}
    /\ pc = "launch" => status = "running"
    /\ pc = "record" <=> status \in {"skipped", "succeeded"}
    /\ pc = "blocked" <=> status = "gate-blocked"
    /\ status \in {"succeeded", "gate-blocked"} => runner[r].pc = "wait"
    /\ status = "skipped" => folder[Slice(r)] = "specification"
    /\ status = "succeeded" => folder[Slice(r)] = "implementation"
    /\ status = "gate-blocked" => folder[Slice(r)] = "gate"
    /\ IF status = "succeeded" THEN passed' = passed \cup {Slice(r)}
       ELSE passed' = IF StartsOver(r) THEN {} ELSE passed

\* What it comes to.
LEMMA NotedForm ==
    ASSUME FolderInv, OrderInv, NEW r \in Runs, Frame,
           NEW status \in {"running", "skipped", "succeeded", "failed", "gate-blocked"},
           NEW pc \in {"record", "launch", "failed", "blocked"}, Notes(r, status, pc),
           NEW s, s = runner[r].my, NEW t, t = seq', NEW k, k = Slice(r)
    PROVE  /\ s \in Sequence /\ t \in Sequence /\ k \in Slices /\ runner'[r].my = t
           /\ t.items[k] = status
           /\ Tidy(t) /\ t.status # "absent" /\ t.items # Untouched
           /\ Finished(t) = Finished(s) \cup
                 (IF status \in {"skipped", "succeeded"} THEN {k} ELSE {})
           /\ t.status = "product-blocked" <=> status = "gate-blocked"
           /\ t.status = "completed" => status \in {"skipped", "succeeded"}
           /\ k \notin Finished(s) /\ \A i \in 1 .. k - 1 : i \in Finished(s)
<1>1. s \in Sequence /\ t \in Sequence /\ runner'[r].my = t
  BY RunnerTyped DEF Notes, Marks
<1>2. k \in Slices /\ k \notin Finished(s) /\ \A i \in 1 .. k - 1 : i \in Finished(s)
  BY AtHand DEF Notes
<1>3. /\ t.items[k] = status /\ \A j \in Slices \ {k} : t.items[j] = s.items[j]
      /\ t.status = SequenceStatusOf(t.items)
  BY <1>1, <1>2 DEF Notes, Marks, Sequence
<1>4. Tidy(s)
  BY OnlyOne DEF Orderly, Notes, Saving, Underway
<1>5. status = "gate-blocked" => folder[k] = "gate"
  BY DEF Notes
<1>6. /\ Tidy(t)
      /\ Finished(t) = Finished(s) \cup
            (IF status \in {"skipped", "succeeded"} THEN {k} ELSE {})
      /\ t.status = "product-blocked" <=> status = "gate-blocked"
      /\ t.status = "completed" => status \in {"skipped", "succeeded"}
      /\ t.status # "absent"
      /\ t.items # Untouched
  BY ONLY FolderAssumption, <1>1, <1>2, <1>3, <1>4, <1>5, MarkedTidy,
     status \in {"running", "skipped", "succeeded", "failed", "gate-blocked"}
<1> QED BY <1>1, <1>2, <1>3, <1>6

\* A run that has started over has saved; one that has not, has not.
LEMMA NotedBehind ==
    ASSUME FolderInv, OrderInv, NEW r \in Runs, Frame,
           NEW status \in {"running", "skipped", "succeeded", "failed", "gate-blocked"},
           NEW pc \in {"record", "launch", "failed", "blocked"}, Notes(r, status, pc)
    PROVE  /\ StartsOver(r) =>
                /\ Finished(runner[r].my) = {} /\ passed' = {} /\ runner[r].pc = "next"
                /\ status \notin {"succeeded", "gate-blocked"}
           /\ ~StartsOver(r) =>
                /\ Same(runner[r].my) /\ Finished(runner[r].my) \subseteq Behind
                /\ Behind \subseteq Behind'
                /\ status # "succeeded" => passed' = passed
           /\ status = "succeeded" => passed' = passed \cup {Slice(r)}
           /\ status \in {"skipped", "succeeded"} => Slice(r) \in Behind'
           /\ \A k \in passed' : folder[k] = "implementation"
<1>1. Orderly(r) /\ runner[r].pc \in Saving /\ runner[r].pc \in Underway /\ Slice(r) \in Slices
  BY AtHand, OnlyOne DEF Notes, Saving, Underway
<1>2. runner[r].pc = "wait" => runner[r].my.items # Untouched
  BY <1>1 DEF Orderly, Believes, Busy
<1>3. StartsOver(r) => Finished(runner[r].my) = {}
  BY DEF StartsOver, Finished, Untouched
<1>4. ~StartsOver(r) => Same(runner[r].my)
  BY <1>1 DEF StartsOver, Orderly, HasSaved
<1>5. ~StartsOver(r) => Finished(runner[r].my) \subseteq Behind
  BY <1>4 DEF Same, Finished, OrderInv
<1>6. status = "succeeded" => passed' = passed \cup {Slice(r)}
  BY DEF Notes
<1>7. status # "succeeded" => passed' = IF StartsOver(r) THEN {} ELSE passed
  BY DEF Notes
<1>8. status \in {"succeeded", "gate-blocked"} => ~StartsOver(r)
  BY <1>2 DEF Notes, StartsOver
<1>9. StartsOver(r) => runner[r].pc = "next"
  BY <1>2 DEF Notes, StartsOver
<1>10. ~StartsOver(r) => Behind \subseteq Behind'
  BY <1>6, <1>7 DEF Behind, Frame
<1>11. status \in {"skipped", "succeeded"} => Slice(r) \in Behind'
  BY <1>1, <1>6 DEF Notes, Behind, Frame
<1>12. \A k \in passed' : folder[k] = "implementation"
  BY <1>6, <1>7 DEF OrderInv, Notes
<1> QED BY <1>3, <1>4, <1>5, <1>6, <1>7, <1>8, <1>9, <1>10, <1>11, <1>12

LEMMA OrderNoted ==
    ASSUME FolderInv, OrderInv, NEW r \in Runs, Frame,
           NEW status \in {"running", "skipped", "succeeded", "failed", "gate-blocked"},
           NEW pc \in {"record", "launch", "failed", "blocked"}, Notes(r, status, pc)
    PROVE  OrderInv'
<1>1. Only(r) /\ Orderly(r) /\ claim = r /\ claim' = r
  BY OnlyOne DEF Notes
<1>2. PICK s, t, k : s = runner[r].my /\ t = seq' /\ k = Slice(r)
  OBVIOUS
<1>3. /\ s \in Sequence /\ k \in Slices /\ runner'[r].my = t
      /\ t.items[k] = status
      /\ Tidy(t) /\ t.status # "absent" /\ t.items # Untouched
      /\ Finished(t) = Finished(s) \cup
            (IF status \in {"skipped", "succeeded"} THEN {k} ELSE {})
      /\ t.status = "product-blocked" <=> status = "gate-blocked"
  BY <1>2, NotedForm
<1>4. Finished(t) \subseteq Behind'
  <2>1. Finished(s) \subseteq Behind'
    BY <1>2, NotedBehind
  <2>2. status \in {"skipped", "succeeded"} => k \in Behind'
    BY <1>2, NotedBehind
  <2> QED BY <1>3, <2>1, <2>2
<1>5. /\ Moves(r, pc) /\ runner'[r].pc = pc /\ runner'[r].own = runner[r].own
      /\ runner'[r].todo = runner[r].todo /\ runner'[r].resumed = runner[r].resumed
      /\ UNCHANGED run /\ pc \in Underway
  BY DEF Notes, Marks, Moves, KeepsOwn, KeepsTodo, Underway
<1>6. runner[r].pc \in {"next", "wait"}
  BY DEF Notes
<1>7. Believes(r)
  BY <1>1, <1>6 DEF Orderly, Underway
<1>8. t.status = "product-blocked" \/ run'.completed \subseteq Finished(t)
        \/ (runner'[r].pc \in Underway /\ ~runner'[r].resumed)
  <2>1. CASE runner[r].resumed
    <3>1. Agree /\ Same(s) /\ s.status # "product-blocked"
      BY <1>1, <1>2, <1>6, <1>7, <2>1, Agreement, NotedBehind DEF StartsOver, Believes
    <3>2. run.completed \subseteq Finished(s)
      BY <3>1 DEF Agree, Same, Finished
    <3> QED BY <1>3, <1>5, <3>2
  <2> QED BY <1>5, <2>1
<1>9. Believes(r)'
  <2>1. Slice(r)' = k
    BY <1>2, <1>5 DEF Slice
  <2>2. Finished(runner[r].my)' = Finished(t)
    BY <1>3 DEF Finished
  <2>3. pc # "blocked" => t.status # "product-blocked"
    BY <1>3 DEF Notes
  <2>4. pc = "blocked" => t.status = "product-blocked"
    BY <1>3 DEF Notes
  <2>5. runner[r].own.completed \subseteq Finished(t)
    BY <1>2, <1>3, <1>7 DEF Believes
  <2>6. runner[r].todo = Slices \ Finished(s)
    BY <1>2, <1>6, <1>7 DEF Believes
  <2>7. pc # "record" => runner[r].todo = Slices \ Finished(t)
    BY <1>3, <2>6 DEF Notes
  <2>8. pc = "record" => k \in Finished(t) /\ runner[r].todo \ {k} = Slices \ Finished(t)
    BY <1>3, <2>6 DEF Notes
  <2>9. pc = "launch" => t.items[k] = "running"
    BY <1>3 DEF Notes
  <2> QED BY <1>3, <1>5, <2>1, <2>2, <2>3, <2>4, <2>5, <2>7, <2>8, <2>9 DEF Believes
<1>10. (Tidy(runner[r].my))' /\ runner'[r].my.status # "absent" /\ (Same(runner[r].my))'
  BY <1>2, <1>3 DEF Tidy, Finished, Same, Frame
<1>11. Orderly(r)'
  BY <1>1, <1>5, <1>9, <1>10 DEF Orderly
<1>12. \A j \in passed' : folder[j] = "implementation"
  BY NotedBehind
<1> QED BY <1>1, <1>2, <1>3, <1>4, <1>5, <1>8, <1>11, <1>12, OrderKept DEF Frame

LEMMA PromiseNoted ==
    ASSUME FolderInv, OrderInv, NEW r \in Runs, Frame,
           NEW status \in {"running", "skipped", "succeeded", "failed", "gate-blocked"},
           NEW pc \in {"record", "launch", "failed", "blocked"}, Notes(r, status, pc)
    PROVE  PromiseStep
<1>1. PICK s, t, k : s = runner[r].my /\ t = seq' /\ k = Slice(r)
  OBVIOUS
<1>2. /\ k \in Slices /\ Tidy(t)
      /\ Finished(t) = Finished(s) \cup
            (IF status \in {"skipped", "succeeded"} THEN {k} ELSE {})
      /\ t.status = "product-blocked" <=> status = "gate-blocked"
      /\ t.status = "completed" => status \in {"skipped", "succeeded"}
      /\ k \notin Finished(s) /\ \A i \in 1 .. k - 1 : i \in Finished(s)
  BY <1>1, NotedForm
<1>3. t.status = "completed" => Finished(t) = Slices
  BY <1>2 DEF Tidy
<1>4. /\ t.status = "completed" => Phase' = "completed"
      /\ t.status = "product-blocked" => Phase' = "blocked"
      /\ t.status \notin {"completed", "product-blocked"} => Phase' = "open"
  BY <1>1 DEF Phase
<1>5. UNCHANGED folder
  BY DEF Frame
<1>6. CASE StartsOver(r)
  <2>1. /\ Finished(s) = {} /\ passed' = {} /\ status \notin {"succeeded", "gate-blocked"}
    BY <1>1, <1>6, NotedBehind
  <2>2. CASE t.status = "completed"
    <3>1. Slices = {k} /\ folder[k] = "specification"
      BY <1>1, <1>2, <1>3, <2>1, <2>2 DEF Notes
    <3>2. Slices \subseteq Behind
      BY <3>1 DEF Behind
    <3>3. passed = {}
      BY <3>1 DEF OrderInv, FolderInv, TypeOK
    <3>4. seq.status # "product-blocked"
      BY <3>1 DEF OrderInv, Tidy
    <3>5. Phase \in {"open", "completed"} /\ Phase' = "completed"
      BY <1>4, <2>2, <3>4 DEF Phase
    <3> QED BY <1>5, <2>1, <3>2, <3>3, <3>5, PromiseStays, PromiseCompletes
  <2>3. CASE t.status # "completed"
    BY <1>2, <1>4, <1>5, <2>1, <2>3, PromiseStartsOver
  <2> QED BY <2>2, <2>3
<1>7. CASE ~StartsOver(r)
  <2>1. /\ Same(s) /\ Finished(s) \subseteq Behind /\ Behind \subseteq Behind'
        /\ status # "succeeded" => passed' = passed
        /\ status = "succeeded" => passed' = passed \cup {k}
        /\ status \in {"skipped", "succeeded"} => k \in Behind'
    BY <1>1, <1>7, NotedBehind
  <2>2. Finished(t) \subseteq Behind'
    BY <1>2, <2>1
  <2>3. s.status \notin {"product-blocked", "completed"}
    <3>1. Orderly(r) /\ runner[r].pc \in {"next", "wait"}
      BY OnlyOne DEF Notes
    <3> QED BY <1>1, <1>2, <3>1 DEF Orderly, Believes, Tidy, Saving, Underway
  <2>4. Phase = "open"
    BY <2>1, <2>3 DEF Same, Phase
  <2>5. \A j \in 1 .. k - 1 : j \in Behind
    BY <1>2, <2>1
  <2>6. CASE status = "succeeded"
    <3>1. folder[k] = "implementation"
      BY <1>1, <2>6 DEF Notes
    <3>2. Phase' = "open" \/ (Phase' = "completed" /\ Slices \subseteq Behind')
      BY <1>2, <1>3, <1>4, <2>2, <2>6
    <3> QED BY <1>2, <1>5, <2>1, <2>4, <2>5, <2>6, <3>1, <3>2, PromisePasses
  <2>7. CASE status = "gate-blocked"
    <3>1. folder[k] = "gate" /\ Phase' = "blocked"
      BY <1>1, <1>2, <1>4, <2>7 DEF Notes
    <3> QED BY <1>2, <1>5, <2>1, <2>4, <2>5, <2>7, <3>1, PromiseBlocks
  <2>8. CASE status \notin {"succeeded", "gate-blocked"}
    <3>1. UNCHANGED <<folder, passed>> /\ Behind' = Behind
      BY <1>5, <2>1, <2>8 DEF Behind
    <3>2. CASE t.status = "completed"
      BY <1>3, <1>4, <2>2, <2>4, <3>1, <3>2, PromiseCompletes
    <3>3. CASE t.status # "completed"
      BY <1>2, <1>4, <2>4, <2>8, <3>1, <3>3, PromiseStays
    <3> QED BY <3>2, <3>3
  <2> QED BY <2>6, <2>7, <2>8
<1> QED BY <1>6, <1>7

LEMMA OrderWork ==
    ASSUME FolderInv, OrderInv, NEW r \in Runs, Frame,
           SkipSpecification(r) \/ StartSlice(r) \/ SlicePasses(r) \/ GateBlocks(r)
             \/ SliceFails(r) \/ Recover(r)
    PROVE  OrderInv' /\ PromiseStep
<1>1. runner[r].pc \in {"next", "wait"} /\ runner[r].todo # {} /\ UNCHANGED claim
  <2>1. runner[r].pc = "wait" => runner[r].todo # {}
    BY RunnerTyped DEF RunInv, Busy
  <2> QED BY <2>1 DEF SkipSpecification, StartSlice, SlicePasses, GateBlocks, SliceFails,
                      Recover, Ended
<1>2. runner[r].pc = "wait" => ~StartsOver(r)
  BY OnlyOne DEF Orderly, Believes, Underway, Busy, StartsOver
<1>3. PICK status \in {"running", "skipped", "succeeded", "failed", "gate-blocked"},
           pc \in {"record", "launch", "failed", "blocked"} : Notes(r, status, pc)
  <2>1. CASE SkipSpecification(r)
    <3>1. Notes(r, "skipped", "record")
      BY <1>1, <2>1, SkipForm DEF Notes, GivesUp, SkipSpecification
    <3> QED BY <3>1
  <2>2. CASE StartSlice(r)
    <3>1. Notes(r, "running", "launch")
      BY <1>1, <2>2, StartForm DEF Notes, GivesUp
    <3> QED BY <3>1
  <2>3. CASE SlicePasses(r)
    <3>1. Notes(r, "succeeded", "record")
      BY <1>1, <2>3, OutcomeForms DEF Notes, SlicePasses, Ended
    <3> QED BY <3>1
  <2>4. CASE GateBlocks(r)
    <3>1. Notes(r, "gate-blocked", "blocked")
      BY <1>1, <1>2, <2>4, OutcomeForms DEF Notes, GateBlocks, Ended
    <3> QED BY <3>1
  <2>5. CASE SliceFails(r)
    <3>1. Notes(r, "failed", "failed")
      BY <1>1, <1>2, <2>5, OutcomeForms DEF Notes, SliceFails, Ended
    <3> QED BY <3>1
  <2>6. CASE Recover(r)
    <3>1. Notes(r, "running", "launch")
      BY <1>1, <1>2, <2>6, OutcomeForms DEF Notes, Recover, Ended
    <3> QED BY <3>1
  <2> QED BY <2>1, <2>2, <2>3, <2>4, <2>5, <2>6
<1> QED BY <1>3, OrderNoted, PromiseNoted

\* run.json lists what the sequence that is saved says is done.
LEMMA OrderRecords ==
    ASSUME FolderInv, OrderInv, NEW r \in Runs, Frame, UNCHANGED claim,
           NEW status, NEW done, NEW pc, Records(r, status, done, pc),
           runner[r].pc \in Underway, runner[r].my.items # Untouched,
           runner[r].pc = "blocked" \/ done \subseteq Finished(runner[r].my),
           pc \in {"next", "finish", "leave", "release"},
           pc \in Underway => runner[r].pc # "blocked",
           pc = "next" => runner[r].pc = "record" /\ runner'[r].todo = runner[r].todo \ {Slice(r)},
           pc = "finish" => /\ runner[r].pc = "next"
                            /\ runner[r].todo = {} /\ runner'[r].todo = {}
    PROVE  OrderInv' /\ PromiseStep
<1>1. Only(r) /\ Orderly(r) /\ claim = r
  BY OnlyOne DEF Underway
<1>2. Believes(r) /\ Same(runner[r].my) /\ Tidy(runner[r].my) /\ runner[r].my.status # "absent"
  BY <1>1 DEF Orderly, Saving, HasSaved
<1>3. /\ Moves(r, pc) /\ runner'[r].pc = pc /\ runner'[r].my = runner[r].my
      /\ run' = runner'[r].own /\ run'.completed = runner[r].own.completed \cup done
      /\ UNCHANGED <<seq, passed>> /\ runner'[r].resumed = runner[r].resumed
  BY DEF Records, Moves, KeepsMy
<1>4. PICK s, t : s = runner[r].my /\ t = seq'
  OBVIOUS
<1>5. t = seq /\ Finished(t) = Finished(s) /\ s.status = t.status /\ Behind' = Behind
  BY <1>2, <1>3, <1>4 DEF Same, Finished, Behind, Frame
<1>6. Tidy(t) /\ Finished(t) \subseteq Behind'
  BY <1>5 DEF OrderInv
<1>7. runner[r].pc # "blocked" => run'.completed \subseteq Finished(s)
  BY <1>2, <1>3, <1>4 DEF Believes
<1>8. t.status = "product-blocked" \/ run'.completed \subseteq Finished(t)
  BY <1>2, <1>4, <1>5, <1>7 DEF Believes
<1>9. pc \in Underway => Believes(r)'
  <2>1. ASSUME pc \in Underway PROVE Believes(r)'
    <3>1. pc \in {"next", "finish"} /\ runner[r].pc # "blocked"
      BY <2>1 DEF Underway
    <3>2. Finished(runner[r].my)' = Finished(s)
      BY <1>3, <1>4 DEF Finished
    <3>3. runner'[r].todo = Slices \ Finished(s)
      BY <1>2, <1>4, <3>1 DEF Believes
    <3>4. s.status # "product-blocked"
      BY <1>2, <1>4, <3>1 DEF Believes
    <3> QED BY <1>3, <1>4, <1>7, <3>1, <3>2, <3>3, <3>4 DEF Believes, Busy
  <2> QED BY <2>1
<1>10. (Tidy(runner[r].my))' /\ (Same(runner[r].my))'
  BY <1>2, <1>3 DEF Tidy, Finished, Same, Frame
<1>11. Orderly(r)'
  BY <1>1, <1>2, <1>3, <1>9, <1>10 DEF Orderly
<1>12. OrderInv'
  BY <1>1, <1>3, <1>4, <1>6, <1>8, <1>11, OrderKept DEF OrderInv, Frame
<1>13. Phase' = Phase
  BY <1>3 DEF Phase
<1> QED BY <1>3, <1>12, <1>13, PromiseStays DEF Frame

\* Where nothing is left to do, every item is done.
LEMMA AllDone ==
    ASSUME FolderInv, OrderInv, NEW r \in Runs, runner[r].pc \in {"next", "finish"},
           runner[r].todo = {}
    PROVE  Finished(runner[r].my) = Slices /\ runner[r].my.items # Untouched
<1>1. Finished(runner[r].my) = Slices
  BY OnlyOne DEF Orderly, Believes, Underway, Finished
<1>2. 1 \in Slices
  BY DEF Slices
<1>3. 1 \in Finished(runner[r].my)
  BY <1>1, <1>2
<1> QED BY <1>1, <1>2, <1>3 DEF Finished, Untouched

LEMMA OrderRecorded ==
    ASSUME FolderInv, OrderInv, NEW r \in Runs, Frame,
           RecordSlice(r) \/ RecordBlocked(r) \/ RecordFailed(r) \/ FinishRun(r)
    PROVE  OrderInv' /\ PromiseStep
<1>1. Exit(r) \in {"leave", "release"} /\ Exit(r) \notin Underway
  BY DEF Exit, Underway
<1>2. runner[r].pc \in Underway /\ UNCHANGED claim
  BY DEF RecordSlice, RecordBlocked, RecordFailed, FinishRun, Underway
<1>3. Orderly(r)
  BY <1>2, OnlyOne DEF Underway
<1>4. runner[r].pc \in Busy => runner[r].my.items # Untouched
  BY <1>2, <1>3 DEF Orderly, Believes
<1>5. CASE RecordSlice(r)
  <2>1. Records(r, "running", {Slice(r)}, "next") /\ runner[r].pc = "record"
        /\ runner'[r].todo = runner[r].todo \ {Slice(r)}
    BY <1>5, RecordSliceForm DEF RecordSlice
  <2>2. {Slice(r)} \subseteq Finished(runner[r].my)
    BY <1>2, <1>3, <2>1 DEF Orderly, Believes
  <2> QED BY <1>2, <1>4, <2>1, <2>2, OrderRecords DEF Busy
<1>6. CASE RecordBlocked(r)
  <2>1. Records(r, "product-blocked", {Slice(r)}, Exit(r)) /\ runner[r].pc = "blocked"
    BY <1>6, RecordForms DEF RecordBlocked
  <2> QED BY <1>1, <1>2, <1>4, <2>1, OrderRecords DEF Busy
<1>7. CASE RecordFailed(r)
  <2>1. Records(r, "failed", {}, Exit(r)) /\ runner[r].pc = "failed"
    BY <1>7, RecordForms DEF RecordFailed
  <2>2. {} \subseteq Finished(runner[r].my)
    OBVIOUS
  <2> QED BY <1>1, <1>2, <1>4, <2>1, <2>2, OrderRecords DEF Busy
<1>8. CASE FinishRun(r)
  <2>1. Records(r, "completed", {}, "finish") /\ runner[r].pc = "next"
        /\ runner'[r].todo = {} /\ runner[r].todo = {}
    BY <1>8, RecordForms DEF FinishRun, KeepsTodo
  <2>2. {} \subseteq Finished(runner[r].my)
    OBVIOUS
  <2> QED BY <1>2, <2>1, <2>2, AllDone, OrderRecords DEF Busy
<1> QED BY <1>5, <1>6, <1>7, <1>8

LEMMA OrderFinished ==
    ASSUME FolderInv, OrderInv, NEW r \in Runs, Frame, FinishSequence(r)
    PROVE  OrderInv' /\ PromiseStep
<1>1. runner[r].pc = "finish" /\ UNCHANGED claim /\ Exit(r) \in {"leave", "release"}
  BY DEF FinishSequence, Exit
<1>2. Only(r) /\ Orderly(r) /\ claim = r
  BY <1>1, OnlyOne
<1>3. PICK s, t : s = runner[r].my /\ t = seq'
  OBVIOUS
<1>4. s.status # "product-blocked" /\ runner[r].todo = {} /\ Tidy(s)
  BY <1>1, <1>2, <1>3 DEF Orderly, Believes, Underway, Saving
<1>5. Finished(s) = Slices /\ Same(s)
  BY <1>1, <1>2, <1>3, <1>4, AllDone DEF Orderly, HasSaved, Saving, Underway
<1>6. /\ Moves(r, Exit(r)) /\ runner'[r].pc = Exit(r) /\ runner'[r].my = t
      /\ t.items = s.items /\ t.status = "completed" /\ UNCHANGED <<run, passed>>
  BY <1>3, FinishForm DEF Resaves, Moves
<1>7. Finished(t) = Slices /\ Tidy(t) /\ Behind' = Behind
  BY <1>4, <1>5, <1>6 DEF Finished, Tidy, Behind, Frame
<1>8. Slices \subseteq Behind
  BY <1>5 DEF OrderInv, Same, Finished
<1>9. (Tidy(runner[r].my))' /\ (Same(runner[r].my))'
  BY <1>3, <1>6, <1>7 DEF Tidy, Finished, Same, Frame
<1>10. Orderly(r)'
  BY <1>1, <1>2, <1>6, <1>9 DEF Orderly, Underway
<1>11. run'.completed \subseteq Finished(t)
  BY <1>6, <1>7 DEF FolderInv, TypeOK, RunState
<1>12. OrderInv'
  BY <1>1, <1>2, <1>3, <1>6, <1>7, <1>8, <1>10, <1>11, OrderKept DEF OrderInv, Frame
<1>13. Phase \in {"open", "completed"} /\ Phase' = "completed"
  BY <1>3, <1>4, <1>5, <1>6 DEF Same, Phase
<1> QED BY <1>6, <1>8, <1>12, <1>13, PromiseStays, PromiseCompletes DEF Frame

LEMMA OrderAnnounced ==
    ASSUME FolderInv, OrderInv, NEW r \in Runs, Frame, Announce(r)
    PROVE  OrderInv' /\ PromiseStep
<1>1. runner[r].pc = "announce" /\ UNCHANGED claim
  BY DEF Announce
<1>2. Only(r) /\ Orderly(r) /\ claim = r
  BY <1>1, OnlyOne
<1>3. PICK s, t : s = runner[r].my /\ t = seq'
  OBVIOUS
<1>4. /\ Believes(r) /\ Tidy(s) /\ s.status \notin {"product-blocked", "absent"}
      /\ ~runner[r].resumed => s.items = Untouched
      /\ runner[r].resumed => Same(s)
  BY <1>1, <1>2, <1>3 DEF Orderly, Believes, Underway, Saving, HasSaved
<1>5. /\ Moves(r, "prepare") /\ runner'[r].pc = "prepare" /\ runner'[r].my = t
      /\ t.items = s.items /\ t.status = s.status /\ UNCHANGED run
      /\ runner'[r].own = runner[r].own /\ runner'[r].todo = runner[r].todo
      /\ runner'[r].resumed = runner[r].resumed
      /\ passed' = IF StartsOver(r) THEN {} ELSE passed
  BY <1>3, AnnounceForm DEF Resaves, Moves, KeepsOwn, KeepsTodo, GivesUp
<1>6. Finished(t) = Finished(s) /\ Tidy(t)
  BY <1>4, <1>5 DEF Finished, Tidy
<1>7. /\ Finished(t) \subseteq Behind'
      /\ \/ t.status = "product-blocked"
         \/ run'.completed \subseteq Finished(t)
         \/ ~runner[r].resumed
      /\ \A k \in passed' : folder[k] = "implementation"
      /\ PromiseStep
  <2>1. CASE runner[r].resumed
    <3>1. passed' = passed /\ Behind' = Behind
      BY <1>5, <2>1 DEF StartsOver, Behind, Frame
    <3>2. Same(s) /\ Finished(t) = Finished(seq) /\ t.status = seq.status
      BY <1>4, <1>5, <1>6, <2>1 DEF Same, Finished
    <3>3. Agree
      BY <1>2, <2>1, Agreement
    <3>4. Phase' = Phase
      BY <1>3, <3>2 DEF Phase
    <3>5. PromiseStep
      BY <3>1, <3>4, PromiseStays DEF Frame
    <3> QED BY <1>5, <3>1, <3>2, <3>3, <3>5 DEF OrderInv, Agree
  <2>2. CASE ~runner[r].resumed
    <3>1. passed' = {} /\ Finished(t) = {}
      BY <1>3, <1>4, <1>5, <1>6, <2>2 DEF StartsOver, Finished, Untouched
    <3>2. 1 \in Slices
      BY DEF Slices
    <3>3. t.status \notin {"completed", "product-blocked"}
      BY <1>4, <1>5, <1>6, <3>1, <3>2 DEF Tidy
    <3>4. Phase' = "open"
      BY <1>3, <3>3 DEF Phase
    <3>5. PromiseStep
      BY <3>1, <3>4, PromiseStartsOver DEF Frame
    <3> QED BY <2>2, <3>1, <3>5
  <2> QED BY <2>1, <2>2
<1>8. (Tidy(runner[r].my))' /\ (Same(runner[r].my))'
  BY <1>3, <1>5, <1>6 DEF Tidy, Finished, Same, Frame
<1>9. Believes(r)'
  <2>1. Slice(r)' = Slice(r) /\ Finished(runner[r].my)' = Finished(s)
    BY <1>5, <1>6 DEF Slice, Finished
  <2> QED BY <1>1, <1>3, <1>4, <1>5, <2>1 DEF Believes, Busy
<1>10. Orderly(r)'
  BY <1>1, <1>2, <1>4, <1>5, <1>8, <1>9 DEF Orderly
<1>11. "prepare" \in Underway
  BY DEF Underway
<1>12. OrderInv'
  BY <1>1, <1>2, <1>3, <1>5, <1>6, <1>7, <1>10, <1>11, OrderKept DEF Frame
<1> QED BY <1>7, <1>12

LEMMA OrderRun ==
    ASSUME FolderInv, OrderInv, NEW r \in Runs, RunStep(r), Frame PROVE OrderInv' /\ PromiseStep
<1>1. CASE Load(r) \/ Announce(r) \/ FinishSequence(r)
  BY <1>1, OrderLoaded, OrderAnnounced, OrderFinished
<1>2. CASE Prepare(r)
  <2>1. runner[r].pc = "prepare" /\ UNCHANGED claim /\ Exit(r) \in {"leave", "release"}
        /\ (Exit(r) = "leave" => detached[r])
    BY <1>2 DEF Prepare, Exit
  <2>2. \/ Moved(r, "next")
        \/ runner[r].resumed /\ Saved(r, "next")
        \/ runner[r].resumed /\ Moved(r, Exit(r))
    BY <1>2, PrepareForm
  <2>3. CASE Moved(r, "next")
    BY <2>1, <2>3, OrderMoved DEF Moved, Underway, Saving
  <2>4. CASE runner[r].resumed /\ Saved(r, "next")
    BY <2>1, <2>4, OrderMoved DEF Saved, Underway, Saving, HasSaved
  <2>5. CASE runner[r].resumed /\ Moved(r, Exit(r))
    BY <2>1, <2>5, OrderMoved DEF Moved, Underway, Saving
  <2> QED BY <2>2, <2>3, <2>4, <2>5
<1>3. CASE SkipSpecification(r) \/ StartSlice(r) \/ SlicePasses(r) \/ GateBlocks(r)
           \/ SliceFails(r) \/ Recover(r)
  BY <1>3, OrderWork
<1>4. CASE Launch(r)
  <2>1. runner[r].pc = "launch" /\ UNCHANGED claim /\ Moved(r, "wait")
    BY <1>4, MoveForms DEF Launch
  <2> QED BY <2>1, OrderMoved DEF Moved, Underway, Saving
<1>5. CASE RecordSlice(r) \/ RecordBlocked(r) \/ RecordFailed(r) \/ FinishRun(r)
  BY <1>5, OrderRecorded
<1>6. CASE Leave(r)
  <2>1. runner[r].pc = "leave" /\ UNCHANGED claim
    BY <1>6 DEF Leave
  <2>2. PICK pc \in {"sign", "signoff"} : Moved(r, pc)
    BY <1>6, MoveForms
  <2> QED BY <2>1, <2>2, OrderMoved DEF Moved, Underway, Saving
<1>7. CASE Sign(r)
  <2>1. runner[r].pc \in {"sign", "signoff"} /\ UNCHANGED claim
    BY <1>7 DEF Sign
  <2>2. detached[r]
    BY <2>1, RunnerTyped DEF RunInv
  <2>3. CASE runner[r].pc = "sign" /\ Moved(r, "lastsave")
    BY <2>1, <2>2, <2>3, OrderMoved DEF Moved, Underway, Saving
  <2>4. CASE runner[r].pc = "signoff" /\ Moved(r, "release")
    BY <2>1, <2>4, OrderMoved DEF Moved, Underway, Saving
  <2> QED BY <1>7, <2>3, <2>4, MoveForms
<1>8. CASE LastSave(r)
  <2>1. runner[r].pc = "lastsave" /\ UNCHANGED claim /\ Saved(r, "release")
    BY <1>8, LastSaveForm DEF LastSave
  <2>2. detached[r]
    BY <2>1, OnlyOne DEF Orderly
  <2> QED BY <2>1, <2>2, OrderMoved DEF Saved, Underway, Saving, HasSaved
<1>9. CASE Release(r)
  <2>1. runner[r].pc = "release" /\ Moved(r, "dead")
    BY <1>9, MoveForms DEF Release
  <2> QED BY <2>1, OrderMoved DEF Moved, Underway, Saving
<1> QED BY <1>1, <1>2, <1>3, <1>4, <1>5, <1>6, <1>7, <1>8, <1>9 DEF RunStep

LEMMA OrderInvoked ==
    ASSUME FolderInv, OrderInv, NEW r \in Runs, Invoke(r), Frame PROVE OrderInv' /\ PromiseStep
<1>1. Only(r) /\ runner[r].pc = "unborn" /\ claim' = r
  <2>1. ASSUME NEW q \in Runs, runner[q].pc \notin {"unborn", "dead"} PROVE FALSE
    <3>1. claim = q /\ q # 0
      BY <2>1, OnlyOne DEF Runs
    <3> QED BY <2>1, <3>1 DEF Invoke, Alive
  <2> QED BY <2>1 DEF Invoke, Only
<1>2. Moves(r, "load") /\ runner'[r].pc = "load" /\ UNCHANGED <<seq, run, passed>>
  BY InvokeForm DEF Moves
<1>3. Orderly(r)'
  BY <1>1, <1>2 DEF Orderly, Saving, Underway
<1>4. PICK t : t = seq'
  OBVIOUS
<1>5. t = seq /\ Behind' = Behind /\ run'.completed = run.completed
  BY <1>2, <1>4 DEF Behind, Frame
<1>6. Tidy(t) /\ Finished(t) \subseteq Behind'
  BY <1>5 DEF OrderInv
<1>7. t.status = "product-blocked" \/ run'.completed \subseteq Finished(t)
  BY <1>1, <1>5, Agreement DEF Underway, Agree
<1>8. OrderInv'
  BY <1>1, <1>2, <1>3, <1>4, <1>6, <1>7, OrderKept DEF OrderInv, Frame
<1>9. Phase' = Phase
  BY <1>2 DEF Phase
<1> QED BY <1>2, <1>8, <1>9, PromiseStays DEF Frame

LEMMA OrderStays ==
    ASSUME OrderInv,
           UNCHANGED <<folder, detached, seq, run, claim, runner, canceller, reconciler, passed>>
    PROVE  OrderInv' /\ PromiseStep
<1>1. Tidy(seq)' /\ Finished(seq)' = Finished(seq) /\ Behind' = Behind
  BY DEF OrderInv, Tidy, Finished, Behind
<1>2. Agree' <=> Agree
  BY <1>1 DEF Agree
<1>3. ASSUME NEW r \in Runs PROVE Orderly(r)'
  <2>1. Orderly(r)
    BY DEF OrderInv
  <2>2. /\ Tidy(runner[r].my) => (Tidy(runner[r].my))'
        /\ (Finished(runner[r].my))' = Finished(runner[r].my)
        /\ Same(runner[r].my) => (Same(runner[r].my))'
        /\ HasSaved(r)' <=> HasSaved(r)
        /\ Slice(r)' = Slice(r)
    BY DEF Tidy, Finished, Same, HasSaved, Slice
  <2>3. Believes(r) => Believes(r)'
    BY <2>2 DEF Believes
  <2> QED BY <2>1, <2>2, <2>3 DEF Orderly
<1>4. Phase' = Phase
  BY DEF Phase
<1> QED BY <1>1, <1>2, <1>3, <1>4, PromiseStays DEF OrderInv

LEMMA OrderStep ==
    ASSUME Undisturbed PROVE FolderInv /\ OrderInv /\ [Next]_vars => OrderInv' /\ PromiseStep
<1> SUFFICES ASSUME FolderInv, OrderInv, [Next]_vars PROVE OrderInv' /\ PromiseStep
  OBVIOUS
<1>1. CASE UNCHANGED vars
  BY <1>1, OrderStays DEF vars
<1>2. ASSUME NEW r \in Runs, Invoke(r) \/ RunStep(r), Frame PROVE OrderInv' /\ PromiseStep
  BY <1>2, OrderInvoked, OrderRun
<1>3. ASSUME NEW worker \in live, WorkerEnds(worker), Frame PROVE OrderInv' /\ PromiseStep
  BY <1>3, OrderStays DEF WorkerEnds, Frame
<1>4. ~Operate
  BY DEF OrderInv, Undisturbed, Operate, BeginCancel, ReloadSequence, WriteCancelled,
         StopSupervisor, BeginReconcile, WriteInterrupted
<1>5. ASSUME NEW r \in Runs PROVE ~Crash(r)
  BY DEF FolderInv, TypeOK, Undisturbed, Crash
<1> QED BY <1>1, <1>2, <1>3, <1>4, <1>5 DEF Next, Frame

LEMMA OrderInit == Init => OrderInv /\ Promise!OrderInit
<1> SUFFICES ASSUME Init PROVE OrderInv /\ Promise!OrderInit
  OBVIOUS
<1>1. Tidy(seq) /\ Finished(seq) = {} /\ seq.status = "absent"
  BY NewIsTidy DEF Init
<1>2. \A r \in Runs : Orderly(r)
  BY RecordsTyped DEF Init, Orderly, Saving, Underway
<1>3. run.completed = {} /\ canceller.pc = "idle" /\ reconciler.pc = "idle"
  BY DEF Init, NoRun, Idle
<1>4. OrderInv
  BY <1>1, <1>2, <1>3 DEF Init, OrderInv, Agree
<1>5. Promise!OrderInit
  BY <1>1 DEF Init, Promise!OrderInit
<1> QED BY <1>4, <1>5

\* Where no run dies and no other command is given, the runs of a folder keep the
\* promise of FolderOrder (runfolder.go:721, 960, 1047), however they are
\* invoked, for any folder and any number of runs: slices pass in order, a gate
\* that blocks ends the sequence, and it is completed only when all have passed.
THEOREM PromiseKept == ASSUME Undisturbed PROVE Spec => KeepsPromise
<1>1. Spec => [](FolderInv /\ OrderInv)
  BY FolderInitInv, FolderStep, OrderInit, OrderStep, PTL DEF Spec
<1>2. Init => Promise!OrderInit
  BY OrderInit
<1>3. FolderInv /\ OrderInv /\ [Next]_vars => [Promise!OrderNext]_(Promise!promise)
  BY OrderStep DEF PromiseStep
<1> QED BY <1>1, <1>2, <1>3, PTL DEF Spec, KeepsPromise, Promise!OrderSpec
=============================================================================
