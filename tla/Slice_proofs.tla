----------------------------- MODULE Slice_proofs -----------------------------
(***************************************************************************)
(* Theorems about WorktreeRuns, a worktree in which a slice or a shared    *)
(* run is committed and failed changes are isolated, for any paths,        *)
(* policies, workers and contents, and any number of steps and crashes.    *)
(***************************************************************************)
EXTENDS WorktreeRuns, SequenceTheorems, FiniteSetTheorems, TLAPS

-----------------------------------------------------------------------------
(* The history and the worktree.                                             *)

FileTree == [Paths -> Contents]

\* The history keeps the commits it has.
Grows ==
    /\ HEAD' \in Nat
    /\ HEAD' >= HEAD
    /\ \A h \in 1 .. HEAD : log'[h] = log[h]

LEMMA HistoryTyped ==
    ASSUME GitTypeOK
    PROVE  /\ HEAD \in Nat /\ HEAD # 0 /\ HEAD \in 1 .. HEAD
           /\ \A h \in 1 .. HEAD : log[h] \in FileTree
           /\ Tree \in FileTree
           /\ index \in FileTree
           /\ work \in FileTree
           /\ Capture \in Snapshots
           /\ Capture.head = HEAD
<1>1. /\ HEAD \in Nat /\ HEAD # 0 /\ HEAD \in 1 .. HEAD
      /\ \A h \in 1 .. HEAD : log[h] \in FileTree
  BY EmptySeq, ElementOfSeq, LenProperties DEF GitTypeOK, HEAD, FileTree
<1>2. [p \in Paths |-> IF p \in Dirty THEN work[p] ELSE "clean"] \in Entries
  BY DEF Entries, GitTypeOK
<1> QED BY <1>1, <1>2 DEF GitTypeOK, FileTree, Tree, Capture, Snapshots

LEMMA SameHistoryGrows == ASSUME GitTypeOK, log' = log PROVE Grows
BY HistoryTyped DEF Grows, HEAD

LEMMA CommitGrows ==
    ASSUME GitTypeOK, Commit
    PROVE  log' \in Seq(FileTree) /\ log' # <<>> /\ Grows /\ HEAD' = HEAD + 1
<1>1. log \in Seq(FileTree) /\ index \in FileTree /\ log' = Append(log, index)
  BY DEF GitTypeOK, FileTree, Commit
<1>2. /\ log' \in Seq(FileTree) /\ log' # <<>> /\ Len(log') = Len(log) + 1
      /\ \A h \in 1 .. Len(log) : log'[h] = log[h]
  BY <1>1, AppendProperties
<1> QED BY <1>2, HistoryTyped DEF Grows, HEAD

LEMMA AddTyped == ASSUME GitTypeOK, NEW paths, Add(paths) PROVE index' \in FileTree
BY DEF GitTypeOK, Add, FileTree

LEMMA RestoreTyped ==
    ASSUME GitTypeOK, NEW paths, Restore(paths)
    PROVE  index' \in FileTree /\ work' \in FileTree
BY HistoryTyped DEF Restore, FileTree

LEMMA EndingsPossible == Possible \subseteq Outcomes
BY DEF Possible, Ending, Outcomes

LEMMA NoBaselineTyped == NoBaseline \in Snapshots
BY DEF NoBaseline, Snapshots, Entries

-----------------------------------------------------------------------------
(* Types. The recovery attempts are counted before the changes are isolated, *)
(* and a shared run that has begun knows the commit to roll back to.         *)

Isolating == pc \in {"isolate", "patch", "split", "move", "clean"}

TypeInv ==
    /\ TypeOK
    /\ Isolating => ~shared /\ (~resuming => attempt < RecoveryAttempts /\ ~repair)
    /\ pc = "rollback" => shared
    /\ shared /\ prompt = 0 => pc = "off"
    /\ prompt \in Nat
    /\ prompt # 0 => checkpoint \in 1 .. HEAD
    /\ shared \in BOOLEAN

\* What a shared run keeps of this, if it has not been rolled back.
LEMMA CheckpointStays ==
    ASSUME TypeInv, Grows, prompt # 0
    PROVE  checkpoint \in 1 .. HEAD'
BY HistoryTyped DEF Grows, TypeInv, TypeOK

\* The type of what the steps of a run change beside the history and the worktree.
LEMMA RunStepKeepsType ==
    ASSUME TypeInv, GitTypeOK', Grows,
           pc' \in Steps, worker' \in Workers \cup {NoWorker}, baseline' \in Snapshots,
           repair' \in BOOLEAN, attempt' \in 0 .. RecoveryAttempts, approved' \subseteq Paths,
           error' \in Errors, outcome' \in [Workers -> Outcomes], item' \in Items,
           record' \in Records, commit' \in Nat, resuming' \in BOOLEAN,
           changes' \subseteq Paths, tracked' \subseteq Paths, left' \subseteq Paths,
           artifacts' \in [Workers -> Artifacts], retained' \in [Workers -> SUBSET Pairs],
           exposed' \in [Workers -> SUBSET Pairs],
           UNCHANGED bounds, UNCHANGED sharedVars, UNCHANGED shared,
           Isolating' => ~shared /\ (~resuming' => attempt' < RecoveryAttempts /\ ~repair'),
           pc' = "rollback" => shared,
           shared /\ prompt = 0 => pc' = "off"
    PROVE  TypeInv'
BY CheckpointStays DEF TypeInv, TypeOK, bounds, sharedVars

LEMMA ReasonsTyped ==
    /\ {"dirty", "launch", "contract", "worker", "policy", "commit", "ownership", "session",
        "none", "blocked", "isolated"} \subseteq Errors
    /\ Steps = {"off", "prepare", "mark", "start", "wait", "attribute", "check", "add", "staged",
                "recheck", "commit", "verify", "decide", "isolate", "patch", "split", "move",
                "clean", "rollback"}
    /\ Outcomes = {"none", "running", "pass", "pass-disconnect", "disconnect", "partial", "fail",
                   "cancelled", "launch-failed"}
BY DEF Errors, Steps, Outcomes

LEMMA SucceedTyped ==
    ASSUME TypeInv, NEW c \in Nat, Succeed(c)
    PROVE  pc' = "off" /\ item' \in Items /\ record' \in Records /\ commit' \in Nat
<1>1. [item EXCEPT !.status = "succeeded", !.worker = worker, !.error = "none"] \in Items
  BY ReasonsTyped DEF TypeInv, TypeOK, Items
<1>2. [worker |-> worker, baseline |-> baseline, attempts |-> attempt] \in Records
  BY DEF TypeInv, TypeOK, Records
<1> QED BY <1>1, <1>2 DEF Succeed

\* The steps of one attempt, of a slice or of a shared run.
LEMMA AttemptTyped ==
    ASSUME TypeInv, AttemptStep, UNCHANGED <<recoveryVars, bounds, sharedVars, shared>>,
           shared => prompt # 0
    PROVE  TypeInv'
<1> USE HistoryTyped, ReasonsTyped DEF TypeInv, TypeOK, FailWith, Isolating
<1>0. UNCHANGED <<resuming, changes, tracked, left, artifacts, retained, exposed>>
  BY DEF recoveryVars, isolationVars
<1>1. CASE UNCHANGED gitVars
  <2>1. GitTypeOK' /\ Grows
    BY <1>1, SameHistoryGrows DEF gitVars, GitTypeOK
  <2>2. CASE Start
    <3>1. baseline' \in Snapshots
      BY <2>2 DEF Start
    <3> HIDE DEF TypeInv
    <3>2. /\ pc' \in {"decide", "wait"} /\ worker' \in Workers \cup {NoWorker}
          /\ error' \in Errors /\ outcome' \in [Workers -> Outcomes]
      BY <2>2 DEF Start, TypeInv
    <3> QED BY <1>0, <2>1, <2>2, <3>1, <3>2, RunStepKeepsType DEF Start, TypeInv
  <2>3. CASE WorkerEnded
    <3>1. pc' \in {"attribute", "decide"} /\ error' \in Errors
      BY <2>3 DEF WorkerEnded
    <3> HIDE DEF TypeInv
    <3> QED BY <1>0, <2>1, <2>3, <3>1, RunStepKeepsType DEF WorkerEnded, TypeInv
  <2>4. CASE Attribute
    <3>1. /\ pc' \in {"decide", "off", "check"} /\ error' \in Errors /\ approved' \subseteq Paths
          /\ item' \in Items /\ record' \in Records /\ commit' \in Nat
      <4>1. Succeed(0) => pc' = "off" /\ item' \in Items /\ record' \in Records /\ commit' \in Nat
        BY SucceedTyped
      <4> HIDE DEF TypeInv
      <4>2. TypeOK
        BY DEF TypeInv
      <4> QED BY <2>4, <4>1, <4>2 DEF Attribute, Attributed, Between
    <3> HIDE DEF TypeInv
    <3> QED BY <1>0, <2>1, <2>4, <3>1, RunStepKeepsType DEF Attribute, TypeInv
  <2>5. CASE CheckAttributed \/ CheckStaged \/ Recheck
    <3>1. pc' \in {"add", "decide", "recheck", "commit"} /\ error' \in Errors
      BY <2>5 DEF CheckAttributed, CheckStaged, Recheck, Go
    <3> HIDE DEF TypeInv
    <3> QED BY <1>0, <2>1, <2>5, <3>1, RunStepKeepsType
           DEF CheckAttributed, CheckStaged, Recheck, TypeInv
  <2>6. CASE Verify
    <3>1. /\ pc' \in {"decide", "off"} /\ error' \in Errors
          /\ item' \in Items /\ record' \in Records /\ commit' \in Nat
      <4>1. Succeed(HEAD) => pc' = "off" /\ item' \in Items /\ record' \in Records /\ commit' \in Nat
        BY SucceedTyped
      <4> HIDE DEF TypeInv
      <4>2. TypeOK
        BY DEF TypeInv
      <4> QED BY <2>6, <4>1, <4>2 DEF Verify
    <3> HIDE DEF TypeInv
    <3> QED BY <1>0, <2>1, <2>6, <3>1, RunStepKeepsType DEF Verify, TypeInv
  <2>7. CASE AddApproved
    <3>1. pc' \in {"staged", "decide"} /\ error' \in Errors
      BY <2>7 DEF AddApproved, Go
    <3> HIDE DEF TypeInv
    <3> QED BY <1>0, <2>1, <2>7, <3>1, RunStepKeepsType DEF AddApproved, TypeInv
  <2>8. CASE CommitStaged
    <3>1. pc' \in {"verify", "decide"} /\ error' \in Errors
      BY <2>8 DEF CommitStaged
    <3> HIDE DEF TypeInv
    <3> QED BY <1>0, <2>1, <2>8, <3>1, RunStepKeepsType DEF CommitStaged, TypeInv
  <2> QED BY <2>2, <2>3, <2>4, <2>5, <2>6, <2>7, <2>8 DEF AttemptStep
<1>2. CASE AddApproved
  <2>1. GitTypeOK'
    BY <1>2, AddTyped DEF AddApproved, GitTypeOK, FileTree
  <2>2. Grows
    BY <1>2, SameHistoryGrows DEF AddApproved
  <2>3. pc' \in {"staged", "decide"} /\ error' \in Errors
    BY <1>2 DEF AddApproved, Go
  <2> HIDE DEF TypeInv
  <2> QED BY <1>0, <1>2, <2>1, <2>2, <2>3, RunStepKeepsType DEF AddApproved, TypeInv
<1>3. CASE CommitStaged
  <2>1. CASE Commit
    <3>1. GitTypeOK' /\ Grows
      BY <1>3, <2>1, CommitGrows DEF CommitStaged, GitTypeOK, FileTree
    <3>2. pc' \in {"verify", "decide"} /\ error' \in Errors
      BY <1>3 DEF CommitStaged
    <3> HIDE DEF TypeInv
    <3> QED BY <1>0, <1>3, <3>1, <3>2, RunStepKeepsType DEF CommitStaged, TypeInv
  <2>2. CASE ~Commit
    BY <1>1, <1>3, <2>2 DEF CommitStaged, gitVars
  <2> QED BY <2>1, <2>2
<1> QED BY <1>1, <1>2, <1>3
       DEF AttemptStep, Start, WorkerEnded, Attribute, CheckAttributed, CheckStaged, Recheck, Verify

\* The records of a slice that fails, or goes on.
LEMMA RecordsTyped ==
    ASSUME TypeInv
    PROVE  /\ \A why \in Errors, status \in {"running", "interrupted", "failed"},
                 w \in Workers \cup {NoWorker} :
                 /\ [status |-> status, error |-> why, worker |-> w] \in Items
                 /\ [item EXCEPT !.status = status] \in Items
                 /\ [item EXCEPT !.status = status, !.error = why] \in Items
                 /\ [item EXCEPT !.worker = w] \in Items
                 /\ [item EXCEPT !.error = why] \in Items
                 /\ [record EXCEPT !.worker = w] \in Records
           /\ \A attempts \in 0 .. RecoveryAttempts :
                 /\ [worker |-> worker, baseline |-> baseline, attempts |-> attempts] \in Records
                 /\ [record EXCEPT !.attempts = attempts] \in Records
           /\ record.attempts \in 0 .. RecoveryAttempts
           /\ record.baseline \in Snapshots
           /\ Evidence \in Workers \cup {NoWorker}
           /\ item.worker \in Workers \cup {NoWorker}
           /\ Failed \in Workers \cup {NoWorker}
<1>1. item \in Items /\ record \in Records
  BY DEF TypeInv, TypeOK
<1>2. /\ record.attempts \in 0 .. RecoveryAttempts
      /\ record.baseline \in Snapshots
      /\ Evidence \in Workers \cup {NoWorker}
      /\ item.worker \in Workers \cup {NoWorker}
  BY <1>1 DEF Evidence, Items, Records
<1>3. Failed \in Workers \cup {NoWorker}
  BY <1>2 DEF Failed, TypeInv, TypeOK
<1>4. ASSUME NEW why \in Errors, NEW status \in {"running", "interrupted", "failed"},
             NEW w \in Workers \cup {NoWorker}
      PROVE  /\ [status |-> status, error |-> why, worker |-> w] \in Items
             /\ [item EXCEPT !.status = status] \in Items
             /\ [item EXCEPT !.status = status, !.error = why] \in Items
             /\ [item EXCEPT !.worker = w] \in Items
             /\ [item EXCEPT !.error = why] \in Items
             /\ [record EXCEPT !.worker = w] \in Records
  BY <1>1 DEF Items, Records
<1>5. ASSUME NEW attempts \in 0 .. RecoveryAttempts
      PROVE  /\ [worker |-> worker, baseline |-> baseline, attempts |-> attempts] \in Records
             /\ [record EXCEPT !.attempts = attempts] \in Records
  <2>1. worker \in Workers \cup {NoWorker} /\ baseline \in Snapshots
    BY DEF TypeInv, TypeOK
  <2> QED BY <1>1, <2>1 DEF Records
<1> QED BY <1>2, <1>3, <1>4, <1>5

LEMMA FailTyped ==
    ASSUME TypeInv, NEW why \in Errors, Fail(why)
    PROVE  /\ pc' = "off" /\ item' \in Items /\ record' \in Records
           /\ UNCHANGED <<attemptVars, resuming>>
<1>1. item' = [status |-> "failed", error |-> why,
               worker |-> IF worker = NoWorker THEN item.worker ELSE worker]
  BY DEF Fail
<1>2. worker \in Workers \cup {NoWorker} /\ attempt \in 0 .. RecoveryAttempts
  BY DEF TypeInv, TypeOK
<1> QED BY <1>1, <1>2, RecordsTyped DEF Fail

\* Isolation ends: with an error, or with nothing in the way of a retry.
LEMMA IsolationEndsTyped ==
    ASSUME TypeInv, Isolating, Blocked \/ Isolated
    PROVE  /\ pc' \in {"off", "mark", "start"} /\ item' \in Items /\ record' \in Records
           /\ worker' \in Workers \cup {NoWorker} /\ baseline' \in Snapshots
           /\ repair' \in BOOLEAN /\ attempt' \in 0 .. RecoveryAttempts
           /\ approved' \subseteq Paths /\ error' \in Errors /\ resuming' \in BOOLEAN
<1>1. /\ worker \in Workers \cup {NoWorker} /\ baseline \in Snapshots
      /\ repair \in BOOLEAN /\ attempt \in 0 .. RecoveryAttempts
      /\ approved \subseteq Paths /\ error \in Errors /\ resuming \in BOOLEAN
      /\ item \in Items /\ record \in Records
      /\ ~resuming => attempt < RecoveryAttempts
  BY DEF TypeInv, TypeOK
<1>2. CASE Blocked
  BY <1>1, <1>2, FailTyped, ReasonsTyped DEF Blocked, attemptVars
<1>3. CASE Isolated
  <2>1. CASE resuming
    BY <1>1, <1>3, <2>1, RecordsTyped, ReasonsTyped DEF Isolated, attemptVars
  <2>2. CASE ~resuming
    <3>1. attempt + 1 \in 0 .. RecoveryAttempts
      BY <1>1, <2>2, AttemptsAssumption
    <3> QED BY <1>1, <1>3, <2>2, <3>1, RecordsTyped DEF Isolated
  <2> QED BY <2>1, <2>2
<1> QED BY <1>2, <1>3

\* The first steps of a run, and what it decides after a failure.
LEMMA DecisionsTyped ==
    ASSUME TypeInv, ~shared, Invoke \/ Prepare \/ MarkRunning \/ Decide,
           UNCHANGED <<bounds, sharedVars, shared>>
    PROVE  TypeInv'
<1> USE ReasonsTyped
<1>0. /\ worker \in Workers \cup {NoWorker} /\ baseline \in Snapshots
      /\ repair \in BOOLEAN /\ attempt \in 0 .. RecoveryAttempts
      /\ approved \subseteq Paths /\ error \in Errors /\ resuming \in BOOLEAN
      /\ item \in Items /\ record \in Records /\ commit \in Nat
      /\ outcome \in [Workers -> Outcomes]
      /\ changes \subseteq Paths /\ tracked \subseteq Paths /\ left \subseteq Paths
      /\ artifacts \in [Workers -> Artifacts] /\ retained \in [Workers -> SUBSET Pairs]
      /\ exposed \in [Workers -> SUBSET Pairs]
  BY DEF TypeInv, TypeOK
<1>00. /\ record.attempts \in 0 .. RecoveryAttempts /\ RecoveryAttempts \in Nat
       /\ record.baseline \in Snapshots /\ NoBaseline \in Snapshots
       /\ [item EXCEPT !.status = "running", !.error = "none"] \in Items
  BY RecordsTyped, NoBaselineTyped, AttemptsAssumption
<1>1. UNCHANGED gitVars
  BY DEF Invoke, Prepare, MarkRunning, Decide
<1>2. GitTypeOK' /\ Grows
  BY <1>1, SameHistoryGrows DEF gitVars, GitTypeOK, TypeInv, TypeOK
<1>3. CASE Invoke
  BY <1>0, <1>2, <1>3, RunStepKeepsType
     DEF Invoke, attemptVars, recoveryVars, isolationVars, Isolating
<1>4. CASE Prepare
  <2>1. /\ record' \in Records /\ pc' \in {"mark", "off", "isolate"} /\ resuming' \in BOOLEAN
        /\ pc' = "isolate" => resuming'
    <3>1. Repairs => record.attempts + 1 \in 0 .. RecoveryAttempts
      BY <1>00 DEF Repairs
    <3> QED BY <1>0, <1>4, <3>1, RecordsTyped DEF Prepare
  <2> QED BY <1>0, <1>2, <1>4, <2>1, RunStepKeepsType DEF Prepare, attemptVars, Isolating
<1>5. CASE MarkRunning
  <2>1. /\ item' \in Items /\ repair' \in BOOLEAN /\ attempt' \in 0 .. RecoveryAttempts
        /\ baseline' \in Snapshots /\ pc' = "start" /\ worker' = NoWorker /\ error' = "none"
        /\ approved' = {}
    BY <1>00, <1>5, AttemptsAssumption DEF MarkRunning
  <2> QED BY <1>0, <1>2, <1>5, <2>1, RunStepKeepsType
         DEF MarkRunning, recoveryVars, isolationVars, Isolating
<1>6. CASE Decide
  <2>1. CASE Fail(error)
    <3>1. /\ pc' = "off" /\ item' \in Items /\ record' \in Records
          /\ UNCHANGED <<attemptVars, resuming>>
      BY <1>0, <2>1, FailTyped
    <3> QED BY <1>0, <1>2, <1>6, <3>1, RunStepKeepsType DEF Decide, attemptVars, Isolating
  <2>2. CASE ~Fail(error) /\ pc' = "start"
    <3>1. attempt + 1 \in 0 .. RecoveryAttempts
      BY <1>0, <1>6, <2>2, AttemptsAssumption DEF Decide
    <3>2. /\ repair' = TRUE /\ attempt' = attempt + 1
          /\ item' \in Items /\ record' \in Records
          /\ UNCHANGED <<worker, baseline, approved, error, resuming>>
      BY <1>0, <1>6, <2>2, <3>1, RecordsTyped DEF Decide
    <3> QED BY <1>0, <1>2, <1>6, <2>2, <3>1, <3>2, RunStepKeepsType DEF Decide, Isolating
  <2>3. CASE ~Fail(error) /\ pc' # "start"
    <3>1. /\ pc' = "isolate" /\ resuming' = FALSE /\ attempt < RecoveryAttempts
          /\ ~repair /\ UNCHANGED <<attemptVars, item, record>>
      BY <1>6, <2>3 DEF Decide
    <3> QED BY <1>0, <1>2, <1>6, <3>1, RunStepKeepsType DEF Decide, attemptVars
  <2> QED BY <2>1, <2>2, <2>3
<1> QED BY <1>3, <1>4, <1>5, <1>6

LEMMA ContentsTyped ==
    ASSUME GitTypeOK, NEW paths \in SUBSET Paths
    PROVE  /\ Contained(paths) \in SUBSET Pairs
           /\ Patch \in SUBSET Pairs
           /\ \A p \in Paths : <<p, work[p]>> \in Pairs
BY DEF GitTypeOK, Contained, Patch, Pairs

LEMMA IsolationTyped ==
    ASSUME TypeInv, ~shared,
           \/ Isolate \/ WritePatch \/ RestoreTracked \/ CheckClean
           \/ \E p \in Paths : Split(p) \/ MoveUntracked(p),
           UNCHANGED <<bounds, sharedVars, shared>>
    PROVE  TypeInv'
<1> USE ReasonsTyped
<1>0. /\ worker \in Workers \cup {NoWorker} /\ baseline \in Snapshots
      /\ repair \in BOOLEAN /\ attempt \in 0 .. RecoveryAttempts
      /\ approved \subseteq Paths /\ error \in Errors /\ resuming \in BOOLEAN
      /\ item \in Items /\ record \in Records /\ commit \in Nat
      /\ outcome \in [Workers -> Outcomes]
      /\ changes \subseteq Paths /\ tracked \subseteq Paths /\ left \subseteq Paths
      /\ artifacts \in [Workers -> Artifacts] /\ retained \in [Workers -> SUBSET Pairs]
      /\ exposed \in [Workers -> SUBSET Pairs]
      /\ Isolating /\ GitTypeOK /\ (~resuming => attempt < RecoveryAttempts /\ ~repair)
  BY DEF TypeInv, TypeOK, Isolating, Isolate, WritePatch, Split, RestoreTracked, CheckClean,
         MoveUntracked
<1>1. Blocked \/ Isolated =>
           /\ pc' \in {"off", "mark", "start"} /\ item' \in Items /\ record' \in Records
           /\ worker' \in Workers \cup {NoWorker} /\ baseline' \in Snapshots
           /\ repair' \in BOOLEAN /\ attempt' \in 0 .. RecoveryAttempts
           /\ approved' \subseteq Paths /\ error' \in Errors /\ resuming' \in BOOLEAN
  BY <1>0, IsolationEndsTyped
<1>2. UNCHANGED gitVars => GitTypeOK' /\ Grows
  BY <1>0, SameHistoryGrows DEF gitVars, GitTypeOK
<1>3. \A w \in Workers : artifacts[w].patch \in SUBSET Pairs /\ artifacts[w].files \in SUBSET Pairs
  BY <1>0 DEF Artifacts
<1>4. CASE Isolate
  <2>1. GitTypeOK' /\ Grows
    BY <1>2, <1>4 DEF Isolate
  <2>2. UNCHANGED <<outcome, commit, tracked, left, artifacts>>
    BY <1>4 DEF Isolate
  <2>3. CASE (Blocked \/ Isolated) /\ UNCHANGED <<changes, retained, exposed>>
    BY <1>0, <1>1, <2>1, <2>2, <2>3, RunStepKeepsType DEF Isolating
  <2>4. CASE /\ pc' = "mark"
             /\ UNCHANGED <<attemptVars, item, record, resuming, changes, retained, exposed>>
    BY <1>0, <2>1, <2>2, <2>4, RunStepKeepsType DEF Isolating, attemptVars
  <2>5. CASE /\ pc' = "patch"
             /\ changes' = Attributed(FailedBaseline)
             /\ retained' = [w \in Workers |->
                                 IF w = Failed THEN Contained(changes')
                                               ELSE retained[w] \ Contained(changes')]
             /\ exposed' = [exposed EXCEPT ![Failed] = {}]
             /\ UNCHANGED <<attemptVars, item, record, resuming>>
    <3>1. changes' \in SUBSET Paths
      BY <2>5 DEF Attributed, Between
    <3>2. retained' \in [Workers -> SUBSET Pairs]
      BY <1>0, <2>5, <3>1, ContentsTyped
    <3>3. exposed' \in [Workers -> SUBSET Pairs]
      BY <1>0, <2>5
    <3> QED BY <1>0, <2>1, <2>2, <2>5, <3>1, <3>2, <3>3, RunStepKeepsType
           DEF Isolating, attemptVars
  <2> QED BY <1>4, <2>3, <2>4, <2>5 DEF Isolate
<1>5. CASE WritePatch
  <2>1. GitTypeOK' /\ Grows
    BY <1>2, <1>5 DEF WritePatch
  <2>2. artifacts' \in [Workers -> Artifacts]
    BY <1>0, <1>3, <1>5, ContentsTyped DEF WritePatch, Artifacts
  <2>3. tracked' \in SUBSET Paths /\ left' \in SUBSET Paths /\ pc' = "split"
    BY <1>5 DEF WritePatch
  <2> QED BY <1>0, <1>5, <2>1, <2>2, <2>3, RunStepKeepsType DEF WritePatch, Isolating, attemptVars
<1>9. ASSUME NEW p \in Paths, Split(p) PROVE TypeInv'
  <2>1. GitTypeOK' /\ Grows
    BY <1>2, <1>9 DEF Split
  <2>2. /\ changes' \in SUBSET Paths /\ left' \in SUBSET Paths /\ tracked' \in SUBSET Paths
        /\ pc' \in {"split", "move"}
    BY <1>0, <1>9 DEF Split
  <2> QED BY <1>0, <1>9, <2>1, <2>2, RunStepKeepsType DEF Split, Isolating, attemptVars
<1>6. ASSUME NEW p \in Paths, MoveUntracked(p) PROVE TypeInv'
  <2>1. GitTypeOK' /\ Grows
    <3>1. "absent" \in Contents
      BY DEF Contents
    <3>2. work' \in FileTree
      BY <1>0, <1>6, <3>1 DEF MoveUntracked, GitTypeOK, FileTree
    <3> QED BY <1>0, <1>6, <3>2, SameHistoryGrows DEF MoveUntracked, GitTypeOK, FileTree
  <2>2. artifacts' \in [Workers -> Artifacts]
    <3> DEFINE files == {pair \in artifacts[Failed].files : pair[1] # p} \cup {<<p, work[p]>>}
    <3>1. CASE Failed \in Workers
      <4>1. files \in SUBSET Pairs
        BY <1>0, <1>3, <3>1, ContentsTyped
      <4>2. artifacts' = artifacts \/ artifacts' = [artifacts EXCEPT ![Failed].files = files]
        BY <1>6 DEF MoveUntracked
      <4> HIDE DEF files
      <4> QED BY <1>0, <1>3, <3>1, <4>1, <4>2 DEF Artifacts
    <3>2. CASE Failed \notin Workers
      BY <1>0, <1>6, <3>2 DEF MoveUntracked
    <3> QED BY <3>1, <3>2
  <2> QED BY <1>0, <1>6, <2>1, <2>2, RunStepKeepsType DEF MoveUntracked, Isolating, attemptVars
<1>7. CASE RestoreTracked
  <2>1. UNCHANGED <<log, outcome, commit, changes, tracked, left, artifacts, retained, exposed>>
    BY <1>7 DEF RestoreTracked
  <2>2. CASE Restore(tracked) /\ pc' = "clean" /\ UNCHANGED <<attemptVars, item, record, resuming>>
    <3>1. GitTypeOK' /\ Grows
      BY <1>0, <2>1, <2>2, RestoreTyped, SameHistoryGrows DEF GitTypeOK, FileTree
    <3> QED BY <1>0, <2>1, <2>2, <3>1, RunStepKeepsType DEF Isolating, attemptVars
  <2>3. CASE Blocked /\ UNCHANGED <<index, work>>
    <3>1. GitTypeOK' /\ Grows
      BY <1>2, <2>1, <2>3 DEF gitVars
    <3> QED BY <1>0, <1>1, <2>1, <2>3, <3>1, RunStepKeepsType DEF Isolating
  <2> QED BY <1>7, <2>2, <2>3 DEF RestoreTracked
<1>8. CASE CheckClean
  <2>1. GitTypeOK' /\ Grows
    BY <1>2, <1>8 DEF CheckClean
  <2> QED BY <1>0, <1>1, <1>8, <2>1, RunStepKeepsType DEF CheckClean, Isolating
<1> QED BY <1>4, <1>5, <1>6, <1>7, <1>8, <1>9

\* git reset --hard.
LEMMA RollbackTyped ==
    ASSUME TypeInv, Rollback
    PROVE  GitTypeOK' /\ HEAD' = checkpoint /\ prompt # 0 /\ checkpoint \in 1 .. HEAD
<1>1. /\ checkpoint \in 1 .. HEAD /\ HEAD \in Nat /\ GitTypeOK /\ prompt # 0
      /\ log[checkpoint] \in FileTree
  BY HistoryTyped DEF TypeInv, TypeOK, Rollback
<1>2. \A h \in 1 .. checkpoint : log[h] \in FileTree
  BY <1>1, HistoryTyped
<1>3. /\ log' \in Seq(FileTree) /\ Len(log') = checkpoint
  BY <1>1, <1>2, SubSeqProperties DEF Rollback
<1>4. log' # <<>>
  BY <1>1, <1>3, EmptySeq
<1>5. index' \in FileTree /\ work' \in FileTree
  BY <1>1 DEF Rollback, FileTree, GitTypeOK
<1> QED BY <1>1, <1>3, <1>4, <1>5 DEF GitTypeOK, HEAD, FileTree

LEMMA SharedTyped ==
    ASSUME TypeInv, shared, SharedStep, UNCHANGED <<recoveryVars, bounds, shared>>
    PROVE  TypeInv'
<1> USE ReasonsTyped
<1>0. /\ worker \in Workers \cup {NoWorker} /\ baseline \in Snapshots
      /\ repair \in BOOLEAN /\ attempt \in 0 .. RecoveryAttempts
      /\ approved \subseteq Paths /\ error \in Errors /\ resuming \in BOOLEAN
      /\ item \in Items /\ record \in Records /\ commit \in Nat
      /\ outcome \in [Workers -> Outcomes]
      /\ changes \subseteq Paths /\ tracked \subseteq Paths /\ left \subseteq Paths
      /\ artifacts \in [Workers -> Artifacts] /\ retained \in [Workers -> SUBSET Pairs]
      /\ exposed \in [Workers -> SUBSET Pairs]
      /\ GitTypeOK /\ prompt \in Nat /\ (prompt # 0 => checkpoint \in 1 .. HEAD)
      /\ prompt = 0 => pc = "off"
      /\ UNCHANGED <<resuming, changes, tracked, left, artifacts, retained, exposed>>
  BY DEF TypeInv, TypeOK, recoveryVars, isolationVars
<1>00. workerSteps' = workerSteps /\ userSteps' = userSteps /\ crashes' = crashes
  BY DEF bounds
<1>1. UNCHANGED gitVars => GitTypeOK' /\ Grows /\ HEAD' = HEAD
  BY <1>0, SameHistoryGrows DEF gitVars, GitTypeOK, HEAD
<1>2. CASE \/ AttemptStep /\ UNCHANGED sharedVars /\ pc # "off"
  BY <1>0, <1>2, AttemptTyped
<1>3. CASE SharedInvoke
  <2>1. /\ GitTypeOK' /\ prompt' = 1 /\ checkpoint' \in 1 .. HEAD' /\ pc' = "start"
    BY <1>0, <1>1, <1>3, HistoryTyped DEF SharedInvoke
  <2> QED BY <1>0, <1>00, <1>3, <2>1 DEF SharedInvoke, attemptVars, TypeInv, TypeOK, Isolating
<1>4. CASE SharedStart
  <2>1. /\ GitTypeOK' /\ Grows /\ UNCHANGED sharedVars
        /\ baseline' \in Snapshots /\ pc' \in {"decide", "wait"} /\ error' \in Errors
        /\ worker' \in Workers \cup {NoWorker} /\ outcome' \in [Workers -> Outcomes]
        /\ commit' = 0 /\ prompt # 0
    BY <1>0, <1>1, <1>4, HistoryTyped DEF SharedStart, FailWith
  <2> QED BY <1>0, <1>4, <2>1, RunStepKeepsType DEF SharedStart, Isolating
<1>5. CASE SharedWorkerEnded
  <2>1. /\ GitTypeOK' /\ Grows /\ UNCHANGED sharedVars
        /\ pc' \in {"decide", "rollback", "attribute"} /\ error' \in Errors /\ prompt # 0
    BY <1>0, <1>1, <1>5 DEF SharedWorkerEnded
  <2> QED BY <1>0, <1>5, <2>1, RunStepKeepsType DEF SharedWorkerEnded, Isolating
<1>6. CASE Rollback
  <2>1. GitTypeOK' /\ HEAD' = checkpoint /\ prompt # 0 /\ checkpoint \in 1 .. HEAD /\ HEAD \in Nat
    BY <1>0, <1>6, RollbackTyped, HistoryTyped
  <2>2. checkpoint \in 1 .. HEAD'
    BY <2>1
  <2> QED BY <1>0, <1>00, <1>6, <2>1, <2>2
         DEF Rollback, attemptVars, sharedVars, TypeInv, TypeOK, Isolating
<1>7. CASE SharedAttribute
  <2>1. /\ GitTypeOK' /\ HEAD' = HEAD
        /\ pc' \in {"decide", "start", "check"} /\ error' \in Errors /\ prompt # 0
        /\ prompt' \in Nat \ {0} /\ approved' \subseteq Paths /\ checkpoint' = checkpoint
    BY <1>0, <1>1, <1>7 DEF SharedAttribute, FailWith, NextPrompt, Attributed, Between
  <2> QED BY <1>0, <1>00, <1>7, <2>1 DEF SharedAttribute, TypeInv, TypeOK, Isolating
<1>8. CASE SharedRecheck
  <2>1. /\ GitTypeOK' /\ Grows /\ UNCHANGED sharedVars
        /\ pc' \in {"decide", "commit"} /\ error' \in Errors /\ prompt # 0
    BY <1>0, <1>1, <1>8 DEF SharedRecheck, Go, FailWith
  <2> QED BY <1>0, <1>8, <2>1, RunStepKeepsType DEF SharedRecheck, Isolating
<1>9. CASE SharedVerify
  <2>1. /\ GitTypeOK' /\ HEAD' = HEAD /\ HEAD \in Nat /\ commit' \in Nat
        /\ pc' \in {"decide", "start"} /\ error' \in Errors /\ prompt # 0
        /\ prompt' \in Nat \ {0} /\ checkpoint' \in 1 .. HEAD
    BY <1>0, <1>1, <1>9, HistoryTyped DEF SharedVerify, FailWith, NextPrompt, sharedVars
  <2> QED BY <1>0, <1>00, <1>9, <2>1 DEF SharedVerify, TypeInv, TypeOK, Isolating
<1>10. CASE SharedEnd
  <2>1. GitTypeOK' /\ Grows /\ UNCHANGED sharedVars /\ pc' = "off"
    BY <1>0, <1>1, <1>10 DEF SharedEnd
  <2> QED BY <1>0, <1>10, <2>1, RunStepKeepsType DEF SharedEnd, attemptVars, Isolating
<1> QED BY <1>2, <1>3, <1>4, <1>5, <1>6, <1>7, <1>8, <1>9, <1>10
       DEF SharedStep, AttemptStep, CheckAttributed, AddApproved, CheckStaged, CommitStaged

-----------------------------------------------------------------------------
(* Others write, stage and commit.                                           *)

LEMMA EditTyped ==
    ASSUME TypeInv,
           \/ \E p \in Paths, content \in Contents : Write(p, content)
           \/ \E p \in Paths : Stage(p)
           \/ CommitIndex
    PROVE  /\ GitTypeOK' /\ Grows
           /\ retained' \in [Workers -> SUBSET Pairs]
           /\ exposed' \in [Workers -> SUBSET Pairs]
           /\ \A w \in Workers : retained'[w] \subseteq retained[w] /\ exposed[w] \subseteq exposed'[w]
<1>0. /\ GitTypeOK /\ retained \in [Workers -> SUBSET Pairs] /\ exposed \in [Workers -> SUBSET Pairs]
      /\ \A p \in Paths : <<p, work[p]>> \in Pairs
  BY ContentsTyped DEF TypeInv, TypeOK
<1>1. ASSUME NEW p \in Paths, NEW content \in Contents, Write(p, content)
      PROVE  /\ GitTypeOK' /\ Grows /\ exposed' = exposed
             /\ retained' \in [Workers -> SUBSET Pairs]
             /\ \A w \in Workers : retained'[w] \subseteq retained[w]
  <2>1. work' \in FileTree
    BY <1>0, <1>1 DEF Write, GitTypeOK, FileTree
  <2>2. /\ retained' \in [Workers -> SUBSET Pairs]
        /\ \A w \in Workers : retained'[w] \subseteq retained[w]
    BY <1>0, <1>1 DEF Write, GiveUp
  <2> QED BY <1>0, <1>1, <2>1, <2>2, SameHistoryGrows DEF Write, GitTypeOK, FileTree
<1>2. ASSUME NEW p \in Paths, Stage(p)
      PROVE  /\ GitTypeOK' /\ Grows /\ retained' = retained
             /\ exposed' \in [Workers -> SUBSET Pairs]
             /\ \A w \in Workers : exposed[w] \subseteq exposed'[w]
  <2>1. GitTypeOK' /\ Grows /\ retained' = retained
    BY <1>0, <1>2, AddTyped, SameHistoryGrows DEF Stage, GitTypeOK, FileTree
  <2>2. \/ exposed' = exposed
        \/ exposed' = [exposed EXCEPT ![Failed] = @ \cup {<<p, work[p]>>}]
    BY <1>2 DEF Stage
  <2> QED BY <1>0, <2>1, <2>2
<1>3. CASE CommitIndex
  BY <1>0, <1>3, CommitGrows DEF CommitIndex, GitTypeOK, FileTree
<1> QED BY <1>0, <1>1, <1>2, <1>3

\* What a worker or the user writes is a content.
LEMMA ActsEdit ==
    ASSUME TypeInv, UserActs \/ \E w \in Workers : WorkerActs(w)
    PROVE  \/ \E p \in Paths, content \in Contents : Write(p, content)
           \/ \E p \in Paths : Stage(p)
           \/ CommitIndex
<1>1. \A p \in Paths : Tree[p] \in Contents
  BY HistoryTyped DEF TypeInv, TypeOK, FileTree
<1>2. \A w \in Workers : \A pair \in Held(w) : pair[1] \in Paths /\ pair[2] \in Contents
  BY DEF TypeInv, TypeOK, Held, Artifacts, Pairs
<1>3. {"absent", "user"} \cup Workers \subseteq Contents
  BY DEF Contents
<1>4. CASE UserActs
  BY <1>1, <1>2, <1>3, <1>4 DEF UserActs
<1>5. ASSUME NEW w \in Workers, WorkerActs(w)
      PROVE  \/ \E p \in Paths, content \in Contents : Write(p, content)
             \/ \E p \in Paths : Stage(p)
             \/ CommitIndex
  BY <1>3, <1>5 DEF WorkerActs
<1> QED BY <1>4, <1>5

LEMMA EnvironmentTyped ==
    ASSUME TypeInv, EnvironmentStep, UNCHANGED sharedVars, UNCHANGED shared
    PROVE  TypeInv'
<1>1. CASE UserActs \/ \E w \in Workers : WorkerActs(w)
  <2>1. /\ GitTypeOK' /\ Grows /\ retained' \in [Workers -> SUBSET Pairs]
        /\ exposed' \in [Workers -> SUBSET Pairs]
    BY <1>1, ActsEdit, EditTyped
  <2>2. prompt # 0 => checkpoint \in 1 .. HEAD'
    BY <2>1, CheckpointStays
  <2> QED BY <1>1, <2>1, <2>2
         DEF UserActs, WorkerActs, sliceVars, isolationVars, sharedVars, TypeInv, TypeOK, Isolating
<1>2. ASSUME NEW w \in Workers, WorkerEnds(w) /\ UNCHANGED bounds
      PROVE  TypeInv'
  <2>1. outcome' \in [Workers -> Outcomes]
    BY <1>2, EndingsPossible, ReasonsTyped DEF WorkerEnds, TypeInv, TypeOK
  <2>2. GitTypeOK' /\ HEAD' = HEAD
    BY <1>2 DEF WorkerEnds, gitVars, GitTypeOK, HEAD, TypeInv, TypeOK
  <2> QED BY <1>2, <2>1, <2>2
         DEF WorkerEnds, attemptVars, recoveryVars, isolationVars, bounds, sharedVars, TypeInv,
             TypeOK, Isolating
<1>3. CASE Crash \/ (Reconcile /\ UNCHANGED bounds)
  <2>1. GitTypeOK' /\ HEAD' = HEAD
    BY <1>3 DEF Crash, Reconcile, gitVars, GitTypeOK, HEAD, TypeInv, TypeOK
  <2>2. item' \in Items
    BY <1>3, RecordsTyped, ReasonsTyped DEF Crash, Reconcile, TypeInv, TypeOK
  <2>3. "off" \in Steps
    BY ReasonsTyped
  <2> QED BY <1>3, <2>1, <2>2, <2>3
         DEF Crash, Reconcile, attemptVars, recoveryVars, isolationVars, bounds, sharedVars, TypeInv,
             TypeOK, Isolating
<1> QED BY <1>1, <1>2, <1>3 DEF EnvironmentStep

LEMMA InitTyped == Init => TypeInv
<1> SUFFICES ASSUME Init PROVE TypeInv
  OBVIOUS
<1>1. FirstTree \in FileTree
  BY TreeAssumption DEF FileTree, Contents
<1>2. GitTypeOK /\ HEAD = 1
  BY <1>1, EmptySeq DEF Init, SliceInit, GitInit, GitTypeOK, FileTree, HEAD
<1>3. [status |-> "pending", worker |-> NoWorker, error |-> "none"] \in Items
  BY ReasonsTyped DEF Items
<1>4. [worker |-> NoWorker, baseline |-> NoBaseline, attempts |-> 0] \in Records
  BY NoBaselineTyped, AttemptsAssumption DEF Records
<1>5. NoArtifact \in Artifacts
  BY DEF NoArtifact, Artifacts
<1>6. /\ [w \in Workers |-> "none"] \in [Workers -> Outcomes]
      /\ 0 \in 0 .. RecoveryAttempts /\ "none" \in Errors /\ "off" \in Steps
  BY ReasonsTyped, AttemptsAssumption
<1> QED BY <1>2, <1>3, <1>4, <1>5, <1>6, NoBaselineTyped
       DEF Init, SliceInit, SharedInit, TypeInv, TypeOK, Isolating

LEMMA TypeInvHolds == Spec => []TypeInv
<1>1. ASSUME TypeInv, [Next]_vars PROVE TypeInv'
  <2>1. CASE UNCHANGED vars
    BY <1>1, <2>1 DEF vars, slice, gitVars, sliceVars, recoveryVars, isolationVars, bounds,
                      sharedVars, TypeInv, TypeOK, GitTypeOK, Isolating, HEAD
  <2>2. CASE ~shared /\ FolderStep /\ UNCHANGED <<bounds, sharedVars, shared>>
    BY <1>1, <2>2, AttemptTyped, DecisionsTyped, IsolationTyped DEF FolderStep, RecoveryStep
  <2>3. CASE shared /\ SharedStep /\ UNCHANGED <<recoveryVars, bounds, shared>>
    BY <1>1, <2>3, SharedTyped
  <2>4. CASE EnvironmentStep /\ UNCHANGED <<sharedVars, shared>>
    BY <1>1, <2>4, EnvironmentTyped
  <2> QED BY <1>1, <2>1, <2>2, <2>3, <2>4 DEF Next
<1> QED BY <1>1, InitTyped, PTL DEF Spec

\* Every record, worktree, artifact and history keeps its type, and a slice never
\* spends more recovery attempts than it has.
THEOREM SliceTypeCorrect == Spec => []TypeOK
BY TypeInvHolds, PTL DEF TypeInv

-----------------------------------------------------------------------------
(* The commit of a slice.                                                    *)

\* The run of a slice is held to the role it declares, too.
LEMMA SlicesAllowed == Permitted \subseteq OwnPermitted /\ (~shared => Allowed = Permitted)
BY DEF Permitted, Allowed

LEMMA AllowedStays == UNCHANGED shared => Allowed' = Allowed
BY DEF Allowed

Checking == pc \in {"check", "add", "staged", "recheck", "commit", "verify"}

\* The snapshot of a run whose worker was launched, or is to repair what it left.
Snapshotted ==
    \/ pc \in {"wait", "attribute"} \/ Checking
    \/ pc = "start" /\ repair /\ ~shared

\* A commit is recorded by the last step of an attempt only, after which a slice
\* is done and a shared run takes another snapshot.
CommitInv ==
    /\ commit \in 0 .. HEAD
    /\ commit # 0 => IF shared THEN pc \in {"off", "start", "decide"} /\ prompt # 0
                               ELSE pc = "off" /\ item.status = "succeeded"
    /\ Snapshotted \/ commit # 0 => baseline.head \in 1 .. HEAD
    /\ Checking => approved \subseteq Allowed
    /\ CommitExact

LEMMA BetweenStays ==
    ASSUME Grows, NEW a \in 1 .. HEAD, NEW b \in 1 .. HEAD
    PROVE  {p \in Paths : log'[a][p] # log'[b][p]} = Between(a, b)
BY DEF Grows, Between

\* No commit is recorded.
LEMMA NothingCommitted ==
    ASSUME TypeInv, CommitInv, Grows, commit' = 0, UNCHANGED shared,
           Snapshotted' => baseline'.head \in 1 .. HEAD',
           Checking' => approved' \subseteq Allowed
    PROVE  CommitInv'
BY AllowedStays DEF CommitInv, CommitExact, Grows

\* The commit that is recorded stays what it is.
LEMMA CommitStays ==
    ASSUME TypeInv, CommitInv, Grows, UNCHANGED <<commit, baseline, approved, shared>>,
           commit # 0 => IF shared THEN pc' \in {"off", "start", "decide"} /\ prompt' # 0
                                   ELSE pc' = "off" /\ item'.status = "succeeded",
           Snapshotted' => Snapshotted \/ commit # 0,
           Checking' => Checking
    PROVE  CommitInv'
<1>1. baseline.head \in 1 .. HEAD => baseline.head \in 1 .. HEAD'
  BY HistoryTyped DEF Grows, TypeInv, TypeOK
<1>2. commit' \in 0 .. HEAD'
  BY HistoryTyped DEF Grows, CommitInv, TypeInv, TypeOK
<1>3. ASSUME commit # 0 PROVE Between(baseline.head, commit)' = Between(baseline.head, commit)
  <2>1. baseline.head \in 1 .. HEAD /\ commit \in 1 .. HEAD
    BY <1>3, HistoryTyped DEF CommitInv, TypeInv, TypeOK
  <2>2. Between(baseline.head, commit)' = {p \in Paths : log'[baseline.head][p] # log'[commit][p]}
    BY DEF Between
  <2> QED BY <2>1, <2>2, BetweenStays
<1> QED BY <1>1, <1>2, <1>3, AllowedStays DEF CommitInv, CommitExact

LEMMA AttemptCommits ==
    ASSUME TypeInv, CommitInv, AttemptStep, UNCHANGED shared, commit = 0,
           shared => ~(Start \/ Attribute \/ Verify)
    PROVE  CommitInv'
<1> USE HistoryTyped DEF FailWith
<1>0. GitTypeOK /\ HEAD \in Nat
  BY DEF TypeInv, TypeOK
<1>1. Grows
  <2>1. log' = log \/ Commit
    BY DEF AttemptStep, Start, WorkerEnded, Attribute, CheckAttributed, AddApproved, CheckStaged,
           Recheck, CommitStaged, Verify, gitVars
  <2> QED BY <1>0, <2>1, SameHistoryGrows, CommitGrows
<1>2. baseline.head \in 1 .. HEAD => baseline.head \in 1 .. HEAD'
  BY <1>0, <1>1 DEF Grows
<1>3. CASE Start
  <2>1. commit' = 0 /\ pc' \in {"decide", "wait"} /\ HEAD' = HEAD
    BY <1>3 DEF Start, gitVars, HEAD
  <2>2. baseline'.head \in 1 .. HEAD
    BY <1>0, <1>3 DEF Start, CommitInv, Snapshotted
  <2> QED BY <1>1, <2>1, <2>2, NothingCommitted DEF Checking
<1>4. CASE WorkerEnded
  <2>1. commit' = 0 /\ pc' \in {"decide", "attribute"} /\ baseline' = baseline /\ pc = "wait"
    BY <1>4 DEF WorkerEnded
  <2> QED BY <1>1, <1>2, <2>1, NothingCommitted DEF Checking, Snapshotted, CommitInv
<1>5. CASE Attribute
  <2>1. /\ commit' = 0 /\ baseline' = baseline /\ pc = "attribute"
        /\ pc' \in {"decide", "off"} \/ (pc' = "check" /\ approved' \subseteq Allowed)
    BY <1>5, SlicesAllowed DEF Attribute, Succeed
  <2> QED BY <1>1, <1>2, <2>1, NothingCommitted DEF Checking, Snapshotted, CommitInv
<1>6. CASE CheckAttributed \/ AddApproved \/ CheckStaged \/ Recheck \/ CommitStaged
  <2>1. commit' = 0 /\ baseline' = baseline /\ approved' = approved /\ Checking
    BY <1>6 DEF CheckAttributed, AddApproved, CheckStaged, Recheck, CommitStaged, Checking
  <2> QED BY <1>1, <1>2, <2>1, NothingCommitted DEF Snapshotted, CommitInv
<1>7. CASE Verify
  <2>1. CASE Between(baseline.head, HEAD) = approved /\ Succeed(HEAD)
    <3>1. /\ pc' = "off" /\ item'.status = "succeeded" /\ commit' = HEAD
          /\ UNCHANGED <<log, baseline, approved>> /\ ~shared
      BY <1>7, <2>1 DEF Verify, Succeed, gitVars, TypeInv, TypeOK, Items
    <3>2. HEAD' = HEAD /\ Between(baseline.head, commit)' = Between(baseline.head, HEAD)
      BY <3>1 DEF Between, HEAD
    <3>3. baseline.head \in 1 .. HEAD /\ approved \subseteq Allowed
      BY <1>7 DEF Verify, CommitInv, Snapshotted, Checking
    <3> QED BY <1>0, <2>1, <3>1, <3>2, <3>3, AllowedStays DEF CommitInv, CommitExact, Checking
  <2>2. CASE pc' = "decide" /\ commit' = 0
    BY <1>1, <2>2, NothingCommitted DEF Checking, Snapshotted
  <2> QED BY <1>7, <2>1, <2>2 DEF Verify
<1> QED BY <1>3, <1>4, <1>5, <1>6, <1>7 DEF AttemptStep

LEMMA RecoveryCommits ==
    ASSUME TypeInv, CommitInv, ~shared, RecoveryStep, UNCHANGED shared, commit = 0
    PROVE  CommitInv'
<1> USE HistoryTyped
<1>0. /\ GitTypeOK /\ HEAD \in Nat /\ log' = log /\ commit' = 0 /\ HEAD' = HEAD
  BY DEF TypeInv, TypeOK, RecoveryStep, Invoke, Prepare, MarkRunning, Decide, Isolate, WritePatch,
         Split, MoveUntracked, RestoreTracked, CheckClean, gitVars, HEAD
<1>1. Grows
  BY <1>0, SameHistoryGrows
<1>2. CASE MarkRunning
  <2>1. repair' => baseline'.head = HEAD
    BY <1>2 DEF MarkRunning, Repairable, Isolable
  <2>2. pc' = "start"
    BY <1>2 DEF MarkRunning
  <2> QED BY <1>0, <1>1, <2>1, <2>2, NothingCommitted DEF Snapshotted, Checking
<1>3. CASE Decide
  <2>1. /\ pc' \in {"off", "start", "isolate"}
        /\ pc' = "start" => baseline' = baseline /\ baseline.head = HEAD
    BY <1>3 DEF Decide, Fail, Repairable, Isolable
  <2> QED BY <1>0, <1>1, <2>1, NothingCommitted DEF Snapshotted, Checking
<1>4. ASSUME Blocked \/ Isolated, Isolating
      PROVE  pc' \in {"off", "mark"} \/ (pc' = "start" /\ ~repair')
  <2>1. CASE resuming
    BY <1>4, <2>1 DEF Blocked, Isolated
  <2>2. CASE ~resuming
    BY <1>4, <2>2 DEF Blocked, Isolated, Fail, TypeInv
  <2> QED BY <2>1, <2>2
<1>5. CASE Invoke \/ Prepare \/ WritePatch \/ \E p \in Paths : Split(p) \/ MoveUntracked(p)
  <2>1. pc' \in {"off", "prepare", "mark", "isolate", "split", "move"}
    BY <1>5 DEF Invoke, Prepare, WritePatch, Split, MoveUntracked
  <2> QED BY <1>0, <1>1, <2>1, NothingCommitted DEF Snapshotted, Checking
<1>6. CASE Isolate \/ RestoreTracked \/ CheckClean
  <2>1. pc' \in {"off", "mark", "patch", "clean"} \/ (pc' = "start" /\ ~repair')
    BY <1>4, <1>6 DEF Isolate, RestoreTracked, CheckClean, Isolating
  <2> QED BY <1>0, <1>1, <2>1, NothingCommitted DEF Snapshotted, Checking
<1> QED BY <1>2, <1>3, <1>5, <1>6 DEF RecoveryStep

LEMMA FolderCommits ==
    ASSUME TypeInv, CommitInv, ~shared, FolderStep, UNCHANGED shared
    PROVE  CommitInv'
<1>1. CASE commit = 0
  BY <1>1, AttemptCommits, RecoveryCommits DEF FolderStep
<1>2. CASE commit # 0
  <2>1. pc = "off" /\ item.status = "succeeded"
    BY <1>2 DEF CommitInv
  <2> QED BY <2>1 DEF FolderStep, AttemptStep, Start, WorkerEnded, Attribute, CheckAttributed,
             AddApproved, CheckStaged, Recheck, CommitStaged, Verify, RecoveryStep, Invoke,
             Prepare, MarkRunning, Decide, Isolate, WritePatch, Split, MoveUntracked, RestoreTracked,
             CheckClean
<1> QED BY <1>1, <1>2

LEMMA SharedCommits ==
    ASSUME TypeInv, CommitInv, shared, SharedStep, UNCHANGED shared
    PROVE  CommitInv'
<1> USE HistoryTyped DEF FailWith
<1>0. /\ GitTypeOK /\ HEAD \in Nat /\ commit \in 0 .. HEAD
      /\ commit # 0 => pc \in {"off", "start", "decide"} /\ prompt # 0
  BY DEF TypeInv, TypeOK, CommitInv
<1>1. CASE CheckAttributed \/ AddApproved \/ CheckStaged \/ CommitStaged
  <2>1. commit = 0 /\ ~(Start \/ Attribute \/ Verify)
    BY <1>0, <1>1 DEF CheckAttributed, AddApproved, CheckStaged, CommitStaged, Start, Attribute,
                      Verify
  <2> QED BY <1>1, <2>1, AttemptCommits DEF AttemptStep
<1>2. CASE Rollback
  <2>1. commit' = 0 /\ pc' = "decide"
    BY <1>0, <1>2 DEF Rollback
  <2>2. HEAD' \in Nat
    BY <1>2, RollbackTyped DEF GitTypeOK
  <2> QED BY <2>1, <2>2 DEF CommitInv, CommitExact, Snapshotted, Checking
<1>3. CASE ~Rollback /\ ~CommitStaged
  <2>0. UNCHANGED log
    BY <1>3 DEF SharedStep, SharedInvoke, SharedStart, SharedWorkerEnded, SharedAttribute,
                CheckAttributed, AddApproved, CheckStaged, SharedRecheck, SharedVerify, SharedEnd,
                gitVars
  <2>1. Grows /\ HEAD' = HEAD
    BY <1>0, <2>0, SameHistoryGrows DEF HEAD
  <2>2. CASE SharedInvoke
    <3>1. commit' = 0 /\ pc' = "start"
      BY <1>0, <2>2 DEF SharedInvoke
    <3> QED BY <2>1, <3>1, NothingCommitted DEF Snapshotted, Checking
  <2>3. CASE SharedStart
    <3>1. commit' = 0 /\ pc' \in {"decide", "wait"} /\ baseline'.head = HEAD
      BY <1>0, <2>3 DEF SharedStart
    <3> QED BY <1>0, <2>1, <3>1, NothingCommitted DEF Checking
  <2>4. CASE SharedWorkerEnded
    <3>1. /\ commit' = 0 /\ pc' \in {"decide", "rollback", "attribute"} /\ baseline' = baseline
          /\ baseline.head \in 1 .. HEAD
      BY <1>0, <2>4 DEF SharedWorkerEnded, CommitInv, Snapshotted
    <3> QED BY <2>1, <3>1, NothingCommitted DEF Checking
  <2>5. CASE SharedAttribute
    <3>1. /\ commit' = 0 /\ baseline' = baseline /\ baseline.head \in 1 .. HEAD
          /\ pc' \in {"decide", "start"} \/ (pc' = "check" /\ approved' \subseteq Allowed)
      BY <1>0, <2>5 DEF SharedAttribute, NextPrompt, CommitInv, Snapshotted, Allowed
    <3> QED BY <2>1, <3>1, NothingCommitted DEF Checking
  <2>6. CASE SharedRecheck
    <3>1. /\ commit' = 0 /\ baseline' = baseline /\ baseline.head \in 1 .. HEAD
          /\ approved' = approved /\ approved \subseteq Allowed
      BY <1>0, <2>6 DEF SharedRecheck, CommitInv, Snapshotted, Checking
    <3> QED BY <2>1, <3>1, NothingCommitted
  <2>7. CASE SharedVerify
    <3>1. CASE Between(baseline.head, HEAD) = approved /\ commit' = HEAD /\ NextPrompt
      <4>1. /\ pc' \in {"start", "decide"} /\ prompt' # 0 /\ UNCHANGED <<log, baseline, approved>>
        <5>1. prompt \in Nat /\ prompt # 0
          BY <2>7 DEF SharedVerify, TypeInv
        <5> QED BY <2>7, <3>1, <5>1 DEF SharedVerify, NextPrompt, gitVars
      <4>2. Between(baseline.head, commit)' = Between(baseline.head, HEAD)
        BY <3>1, <4>1 DEF Between
      <4>3. baseline.head \in 1 .. HEAD /\ approved \subseteq Allowed
        BY <2>7 DEF SharedVerify, CommitInv, Snapshotted, Checking
      <4> QED BY <1>0, <2>1, <3>1, <4>1, <4>2, <4>3, AllowedStays
             DEF CommitInv, CommitExact, Checking
    <3>2. CASE pc' = "decide" /\ commit' = commit
      <4>1. commit' = 0
        BY <1>0, <2>7, <3>2 DEF SharedVerify
      <4> QED BY <2>1, <3>2, <4>1, NothingCommitted DEF Snapshotted, Checking
    <3> QED BY <2>7, <3>1, <3>2 DEF SharedVerify
  <2>8. CASE SharedEnd
    <3>1. /\ pc' = "off" /\ UNCHANGED <<commit, baseline, approved, prompt>>
      BY <2>8 DEF SharedEnd, attemptVars, sharedVars
    <3> QED BY <1>0, <2>1, <3>1, CommitStays DEF Snapshotted, Checking
  <2> QED BY <1>1, <1>3, <2>2, <2>3, <2>4, <2>5, <2>6, <2>7, <2>8 DEF SharedStep
<1> QED BY <1>1, <1>2, <1>3

LEMMA EnvironmentCommits ==
    ASSUME TypeInv, CommitInv, EnvironmentStep, UNCHANGED <<sharedVars, shared>>
    PROVE  CommitInv'
<1>0. UNCHANGED <<commit, baseline, approved, repair, prompt, shared>>
  BY DEF EnvironmentStep, UserActs, WorkerActs, WorkerEnds, Crash, Reconcile, sliceVars,
         attemptVars, sharedVars
<1>1. Grows
  <2>1. CASE UserActs \/ \E w \in Workers : WorkerActs(w)
    BY <2>1, ActsEdit, EditTyped
  <2>2. CASE UNCHANGED gitVars
    BY <2>2, SameHistoryGrows DEF gitVars, TypeInv, TypeOK
  <2> QED BY <2>1, <2>2 DEF EnvironmentStep, WorkerEnds, Crash, Reconcile
<1>2. CASE UNCHANGED <<pc, item>>
  BY <1>0, <1>1, <1>2, CommitStays DEF CommitInv, Snapshotted, Checking
<1>3. CASE Crash
  <2>1. pc' = "off" /\ item' = item /\ pc # "off"
    BY <1>3 DEF Crash
  <2> QED BY <1>0, <1>1, <2>1, CommitStays DEF CommitInv, Snapshotted, Checking
<1>4. CASE Reconcile
  <2>1. pc' = pc /\ pc = "off" /\ item.status = "running"
    BY <1>4 DEF Reconcile
  <2> QED BY <1>0, <1>1, <2>1, CommitStays DEF CommitInv, Snapshotted, Checking
<1> QED BY <1>2, <1>3, <1>4 DEF EnvironmentStep, UserActs, WorkerActs, WorkerEnds, sliceVars

LEMMA CommitInvHolds == Spec => [](TypeInv /\ CommitInv)
<1>1. Init => CommitInv
  <2>1. Init => commit = 0 /\ pc = "off" /\ HEAD \in Nat
    BY EmptySeq DEF Init, SliceInit, GitInit, HEAD
  <2> QED BY <2>1 DEF CommitInv, CommitExact, Snapshotted, Checking
<1>2. ASSUME TypeInv, CommitInv, [Next]_vars PROVE CommitInv'
  <2>1. CASE UNCHANGED vars
    BY <1>2, <2>1 DEF vars, slice, gitVars, sliceVars, sharedVars, CommitInv, CommitExact,
                      Snapshotted, Checking, Between, HEAD, Allowed
  <2>2. CASE ~shared /\ FolderStep /\ UNCHANGED shared
    BY <1>2, <2>2, FolderCommits
  <2>3. CASE shared /\ SharedStep /\ UNCHANGED shared
    BY <1>2, <2>3, SharedCommits
  <2>4. CASE EnvironmentStep /\ UNCHANGED <<sharedVars, shared>>
    BY <1>2, <2>4, EnvironmentCommits
  <2> QED BY <1>2, <2>1, <2>2, <2>3, <2>4 DEF Next
<1> QED BY <1>1, <1>2, TypeInvHolds, PTL DEF Spec

\* The recorded commit of a slice, or of a prompt of a shared run, changes exactly the
\* paths that were attributed to its worker and permitted: to a slice by its policy and
\* its role, to a prompt of a shared run by its own policy. So it is whatever the user and the
\* worker stage, write and commit between any two Git commands of the run.
THEOREM CommitsAreExact == Spec => []CommitExact
<1>1. TypeInv /\ CommitInv => CommitExact
  BY DEF CommitInv
<1> QED BY <1>1, CommitInvHolds, PTL

-----------------------------------------------------------------------------
(* What an isolation keeps.                                                  *)

InHistory(pair) == \E h \in 1 .. HEAD : log[h][pair[1]] = pair[2]

\* A content that does not depend on the worktree any more.
Elsewhere(w, pair) == pair \in Held(w) \/ InHistory(pair)

\* The contents of worker w that no late git add has exposed.
Owed(w) == retained[w] \ exposed[w]

\* What is to be kept for another worker than the failed one is safe or not among paths.
OthersSafe(paths) ==
    \A w \in Workers \ {Failed} : \A x \in Owed(w) : x[1] \in paths => Elsewhere(w, x)

\* Until the patch is written, what is to be kept for the failed worker is in the
\* worktree. While the paths are told apart, it is so or in the patch; an untracked file
\* is in the worktree until it is moved.
KeepInv ==
    /\ shared => \A w \in Workers : retained[w] = {}
    /\ \A w \in Workers : \A pair \in Owed(w) :
          pair[2] # "absent" /\ (work[pair[1]] = pair[2] \/ Elsewhere(w, pair))
    /\ pc = "patch" =>
          /\ Failed \in Workers /\ changes \subseteq Permitted /\ OthersSafe(changes)
          /\ \A pair \in Owed(Failed) : pair[1] \in changes /\ work[pair[1]] = pair[2]
    /\ pc = "split" =>
          /\ Failed \in Workers /\ changes \cup tracked \cup left \subseteq Permitted
          /\ OthersSafe(changes \cup tracked \cup left)
          /\ \A pair \in Owed(Failed) :
                /\ pair[1] \in changes \cup left => work[pair[1]] = pair[2]
                /\ pair[1] \in changes => index[pair[1]] = "absent" \/ Elsewhere(Failed, pair)
                /\ pair[1] \notin changes \cup left => Elsewhere(Failed, pair)
    /\ pc = "move" =>
          /\ Failed \in Workers /\ tracked \cup left \subseteq Permitted
          /\ OthersSafe(tracked \cup left)
          /\ \A pair \in Owed(Failed) :
                IF pair[1] \in left THEN work[pair[1]] = pair[2] ELSE Elsewhere(Failed, pair)

LEMMA OwedTyped ==
    ASSUME TypeInv
    PROVE  \A w \in Workers : \A pair \in Owed(w) :
              pair = <<pair[1], pair[2]>> /\ pair[1] \in Paths /\ pair \in retained[w]
BY DEF TypeInv, TypeOK, Pairs, Owed

LEMMA HistoryStays ==
    ASSUME TypeInv, Grows, NEW pair, InHistory(pair)
    PROVE  InHistory(pair)'
<1>1. PICK h \in 1 .. HEAD : log[h][pair[1]] = pair[2]
  BY DEF InHistory
<1>2. h \in 1 .. HEAD' /\ log'[h] = log[h]
  BY HistoryTyped DEF Grows, TypeInv, TypeOK
<1> QED BY <1>1, <1>2 DEF InHistory

LEMMA ElsewhereStays ==
    ASSUME TypeInv, Grows, UNCHANGED artifacts
    PROVE  \A w \in Workers : \A pair : Elsewhere(w, pair) => Elsewhere(w, pair)'
BY HistoryStays DEF Elsewhere, Held

\* Others may overwrite what is retained, and then give up that it is, or stage it.
LEMMA EditsKeep ==
    ASSUME TypeInv, KeepInv, Grows,
           UNCHANGED <<artifacts, pc, changes, tracked, left, Failed, shared>>,
           \A w \in Workers : /\ retained'[w] \subseteq retained[w]
                              /\ exposed[w] \subseteq exposed'[w],
           \A w \in Workers : \A pair \in Owed(w)' :
              work[pair[1]] = pair[2] => work'[pair[1]] = pair[2],
           pc = "split" =>
              \A pair \in Owed(Failed)' :
                 /\ pair[1] \in changes /\ work[pair[1]] = pair[2] /\ index[pair[1]] = "absent"
                 => index'[pair[1]] = "absent"
    PROVE  KeepInv'
<1>0. \A w \in Workers : Owed(w)' \subseteq Owed(w)
  BY DEF Owed
<1>1. ASSUME NEW w \in Workers, NEW pair \in Owed(w)'
      PROVE  pair[2] # "absent" /\ (work'[pair[1]] = pair[2] \/ Elsewhere(w, pair)')
  BY <1>0, <1>1, ElsewhereStays DEF KeepInv
<1>2. shared' => \A w \in Workers : retained'[w] = {}
  BY DEF KeepInv
<1>3. ASSUME NEW paths, OthersSafe(paths)
      PROVE  \A w \in Workers \ {Failed'} : \A x \in Owed(w)' : x[1] \in paths => Elsewhere(w, x)'
  BY <1>0, <1>3, ElsewhereStays DEF OthersSafe
<1>4. CASE pc = "patch"
  <2>1. /\ Failed' \in Workers /\ changes' \subseteq Permitted /\ OthersSafe(changes)'
    BY <1>3, <1>4 DEF KeepInv, OthersSafe
  <2>2. ASSUME NEW pair \in Owed(Failed)'
        PROVE  pair[1] \in changes' /\ work'[pair[1]] = pair[2]
    BY <1>0, <1>4, <2>2 DEF KeepInv
  <2> QED BY <1>1, <1>2, <1>4, <2>1, <2>2 DEF KeepInv
<1>5. CASE pc = "split"
  <2>1. /\ Failed' \in Workers /\ (changes \cup tracked \cup left)' \subseteq Permitted
        /\ OthersSafe(changes \cup tracked \cup left)'
    BY <1>3, <1>5 DEF KeepInv, OthersSafe
  <2>2. ASSUME NEW pair \in Owed(Failed)'
        PROVE  /\ pair[1] \in (changes \cup left)' => work'[pair[1]] = pair[2]
               /\ pair[1] \in changes' => index'[pair[1]] = "absent" \/ Elsewhere(Failed, pair)'
               /\ pair[1] \notin (changes \cup left)' => Elsewhere(Failed, pair)'
    <3>1. /\ Failed \in Workers /\ Failed' = Failed /\ pair \in Owed(Failed)
          /\ pair[1] \in changes \cup left => work[pair[1]] = pair[2]
          /\ pair[1] \in changes => index[pair[1]] = "absent" \/ Elsewhere(Failed, pair)
          /\ pair[1] \notin changes \cup left => Elsewhere(Failed, pair)
      BY <1>0, <1>5, <2>2 DEF KeepInv
    <3>2. Elsewhere(Failed, pair) => Elsewhere(Failed, pair)'
      <4>1. PICK f \in Workers : f = Failed
        BY <3>1
      <4>2. Elsewhere(f, pair) => Elsewhere(f, pair)'
        BY ElsewhereStays
      <4> QED BY <3>1, <4>1, <4>2 DEF Elsewhere, Held
    <3> QED BY <1>5, <2>2, <3>1, <3>2
  <2> QED BY <1>1, <1>2, <1>5, <2>1, <2>2 DEF KeepInv
<1>6. CASE pc = "move"
  <2>1. /\ Failed' \in Workers /\ (tracked \cup left)' \subseteq Permitted
        /\ OthersSafe(tracked \cup left)'
    BY <1>3, <1>6 DEF KeepInv, OthersSafe
  <2>2. ASSUME NEW pair \in Owed(Failed)'
        PROVE  IF pair[1] \in left' THEN work'[pair[1]] = pair[2] ELSE Elsewhere(Failed, pair)'
    <3>1. /\ Failed \in Workers /\ Failed' = Failed /\ pair \in Owed(Failed)
          /\ IF pair[1] \in left THEN work[pair[1]] = pair[2] ELSE Elsewhere(Failed, pair)
      BY <1>0, <1>6, <2>2 DEF KeepInv
    <3>2. Elsewhere(Failed, pair) => Elsewhere(Failed, pair)'
      <4>1. PICK f \in Workers : f = Failed
        BY <3>1
      <4>2. Elsewhere(f, pair) => Elsewhere(f, pair)'
        BY ElsewhereStays
      <4> QED BY <3>1, <4>1, <4>2 DEF Elsewhere, Held
    <3> QED BY <2>2, <3>1, <3>2
  <2> QED BY <1>1, <1>2, <1>6, <2>1, <2>2 DEF KeepInv
<1>7. CASE pc \notin {"patch", "split", "move"}
  BY <1>1, <1>2, <1>7 DEF KeepInv
<1> QED BY <1>4, <1>5, <1>6, <1>7

LEMMA ActsKeep ==
    ASSUME TypeInv, KeepInv, EnvironmentStep, UNCHANGED shared
    PROVE  KeepInv'
<1>0. /\ GitTypeOK
      /\ retained \in [Workers -> SUBSET Pairs] /\ exposed \in [Workers -> SUBSET Pairs]
  BY DEF TypeInv, TypeOK
<1>1. CASE UserActs \/ \E w \in Workers : WorkerActs(w)
  <2>1. UNCHANGED <<artifacts, pc, changes, tracked, left, Failed>>
    BY <1>1 DEF UserActs, WorkerActs, sliceVars, isolationVars, Failed, Evidence
  <2>2. /\ Grows
        /\ \A w \in Workers : retained'[w] \subseteq retained[w] /\ exposed[w] \subseteq exposed'[w]
    BY <1>1, ActsEdit, EditTyped
  <2>3. CASE \E p \in Paths, content \in Contents : Write(p, content)
    <3>1. ASSUME NEW p \in Paths, NEW content \in Contents, Write(p, content),
                 NEW w \in Workers, NEW pair \in Owed(w)'
          PROVE  work[pair[1]] = pair[2] => work'[pair[1]] = pair[2]
      <4>1. /\ retained'[w] = retained[w] \ {<<p, work[p]>>}
            /\ work' = [work EXCEPT ![p] = content]
        BY <3>1 DEF Write, GiveUp
      <4>2. pair \in Paths \X Contents /\ pair # <<p, work[p]>>
        BY <1>0, <3>1, <4>1 DEF Pairs, Owed
      <4> QED BY <1>0, <4>1, <4>2, <3>1 DEF GitTypeOK
    <3>2. index' = index
      BY <2>3 DEF Write
    <3> QED BY <2>1, <2>2, <2>3, <3>1, <3>2, EditsKeep
  <2>4. ASSUME NEW p \in Paths, Stage(p) PROVE KeepInv'
    <3>1. /\ work' = work /\ retained' = retained /\ Add({p})
          /\ exposed' = IF Late(p) THEN [exposed EXCEPT ![Failed] = @ \cup {<<p, work[p]>>}]
                                   ELSE exposed
      BY <2>4 DEF Stage
    <3>2. ASSUME pc = "split", NEW pair \in Owed(Failed)', pair[1] \in changes,
                 work[pair[1]] = pair[2], index[pair[1]] = "absent"
          PROVE  index'[pair[1]] = "absent"
      <4>1. /\ Failed \in Workers /\ Failed' = Failed
            /\ pair \in retained[Failed] /\ pair \notin exposed'[Failed]
        BY <2>1, <3>1, <3>2 DEF KeepInv, Owed
      <4>2. pair = <<pair[1], pair[2]>> /\ pair[1] \in Paths
        BY <1>0, <4>1 DEF Pairs
      <4>3. CASE pair[1] = p
        <5>1. exposed'[Failed] = exposed[Failed] \cup {<<p, work[p]>>}
          BY <1>0, <3>1, <3>2, <4>1, <4>3 DEF Late
        <5> QED BY <3>2, <4>1, <4>2, <4>3, <5>1
      <4>4. CASE pair[1] # p
        BY <1>0, <3>1, <3>2, <4>2, <4>4 DEF Add
      <4> QED BY <4>3, <4>4
    <3> QED BY <2>1, <2>2, <3>1, <3>2, EditsKeep
  <2>5. CASE CommitIndex
    <3>1. UNCHANGED <<work, index>>
      BY <2>5 DEF CommitIndex
    <3> QED BY <2>1, <2>2, <3>1, EditsKeep
  <2> QED BY <1>1, <2>3, <2>4, <2>5, ActsEdit
<1>2. CASE ~(UserActs \/ \E w \in Workers : WorkerActs(w))
  <2>1. UNCHANGED <<gitVars, recoveryVars>> /\ (UNCHANGED <<pc, Failed>> \/ pc' = "off")
    BY <1>2 DEF EnvironmentStep, WorkerEnds, Crash, Reconcile, attemptVars, recoveryVars,
                isolationVars, Failed, Evidence
  <2>2. Grows
    BY <1>0, <2>1, SameHistoryGrows DEF gitVars
  <2>3. CASE UNCHANGED <<pc, Failed>>
    BY <2>1, <2>2, <2>3, EditsKeep DEF gitVars, recoveryVars, isolationVars
  <2>4. CASE pc' = "off"
    BY <2>1, <2>2, <2>4, ElsewhereStays DEF gitVars, recoveryVars, isolationVars, KeepInv, Owed
  <2> QED BY <2>1, <2>3, <2>4
<1> QED BY <1>1, <1>2

\* A step that leaves the worktree and the artifacts alone, outside of an isolation.
LEMMA OtherStepsKeep ==
    ASSUME TypeInv, KeepInv, Grows, UNCHANGED <<work, artifacts, retained, exposed, shared>>,
           pc' \notin {"patch", "split", "move"}
    PROVE  KeepInv'
BY ElsewhereStays DEF KeepInv, Owed

LEMMA FolderLogGrows ==
    ASSUME TypeInv, FolderStep
    PROVE  Grows
<1>1. log' = log \/ Commit
  BY DEF FolderStep, AttemptStep, Start, WorkerEnded, Attribute, CheckAttributed, AddApproved,
         CheckStaged, Recheck, CommitStaged, Verify, RecoveryStep, Invoke, Prepare, MarkRunning,
         Decide, Isolate, WritePatch, Split, MoveUntracked, RestoreTracked, CheckClean, gitVars
<1> QED BY <1>1, SameHistoryGrows, CommitGrows DEF TypeInv, TypeOK

\* A new isolation: it takes over what it finds.
LEMMA IsolateKeeps ==
    ASSUME TypeInv, KeepInv, Isolate, UNCHANGED shared, ~shared, Grows
    PROVE  KeepInv'
<1>1. CASE pc' # "patch"
  <2>1. /\ UNCHANGED <<work, artifacts, retained, exposed>>
        /\ pc' \notin {"patch", "split", "move"}
    BY <1>1 DEF Isolate, gitVars, Blocked, Isolated, Fail
  <2> QED BY <2>1, OtherStepsKeep
<1>2. CASE pc' = "patch"
  <2>1. /\ Isolable(FailedBaseline, Failed)
        /\ changes' = Attributed(FailedBaseline)
        /\ retained' = [w \in Workers |->
                            IF w = Failed THEN Contained(changes')
                                          ELSE retained[w] \ Contained(changes')]
        /\ exposed' = [exposed EXCEPT ![Failed] = {}]
        /\ UNCHANGED <<gitVars, artifacts, Failed>>
    BY <1>2 DEF Isolate, Blocked, Isolated, Fail, attemptVars, Failed, Evidence
  <2>2. changes' \subseteq Permitted /\ changes' \in SUBSET Paths /\ Failed \in Workers
    BY <2>1, RecordsTyped DEF Isolable, Attributed, Between
  <2>3. \A pair \in Contained(changes') :
            pair[1] \in changes' /\ work[pair[1]] = pair[2] /\ pair[2] # "absent"
    BY DEF Contained
  <2>4. ASSUME NEW w \in Workers \ {Failed}, NEW pair \in Owed(w)'
        PROVE  /\ pair \in Owed(w)
               /\ pair[1] \in changes' => Elsewhere(w, pair)
    <3>1. pair \in Owed(w) /\ pair \notin Contained(changes')
      <4>1. exposed'[w] = exposed[w]
        BY <2>1, <2>4 DEF TypeInv, TypeOK
      <4> QED BY <2>1, <2>4, <4>1 DEF Owed
    <3>2. pair = <<pair[1], pair[2]>> /\ pair[2] # "absent"
      BY <3>1, OwedTyped DEF KeepInv
    <3>3. pair[1] \in changes' => work[pair[1]] # pair[2]
      BY <3>1, <3>2 DEF Contained
    <3> QED BY <3>1, <3>3 DEF KeepInv
  <2>5. \A w \in Workers : \A pair : Elsewhere(w, pair) => Elsewhere(w, pair)'
    BY <2>1, ElsewhereStays
  <2>6. Owed(Failed)' \subseteq Contained(changes') /\ work' = work /\ Failed' = Failed
    BY <2>1, <2>2 DEF gitVars, Owed
  <2>7. ASSUME NEW w \in Workers, NEW pair \in Owed(w)'
        PROVE  pair[2] # "absent" /\ (work'[pair[1]] = pair[2] \/ Elsewhere(w, pair)')
    <3>1. CASE w = Failed
      BY <2>3, <2>6, <2>7, <3>1
    <3>2. CASE w # Failed
      <4>1. pair \in Owed(w)
        BY <2>4, <2>7, <3>2
      <4> QED BY <2>5, <2>6, <4>1 DEF KeepInv
    <3> QED BY <3>1, <3>2
  <2>8. OthersSafe(changes)'
    BY <2>4, <2>5, <2>6 DEF OthersSafe
  <2>9. \A pair \in Owed(Failed)' : pair[1] \in changes' /\ work'[pair[1]] = pair[2]
    BY <2>3, <2>6
  <2> QED BY <1>2, <2>2, <2>6, <2>7, <2>8, <2>9 DEF KeepInv
<1> QED BY <1>1, <1>2

\* What is tracked by now is in the patch, unless it is what HEAD has.
LEMMA PatchKeeps ==
    ASSUME TypeInv, KeepInv, WritePatch, UNCHANGED shared, ~shared, Grows
    PROVE  KeepInv'
<1>1. /\ pc = "patch" /\ pc' = "split" /\ tracked' = {} /\ left' = {}
      /\ UNCHANGED <<gitVars, changes, retained, exposed, Failed>>
      /\ artifacts' = [artifacts EXCEPT ![Failed].patch = Patch]
  BY DEF WritePatch, Failed, Evidence, attemptVars
<1>0. PICK f : f = Failed
  OBVIOUS
<1>2. /\ f \in Workers /\ changes \subseteq Permitted
      /\ \A pair \in Owed(f) : pair[1] \in changes /\ work[pair[1]] = pair[2]
      /\ \A w \in Workers \ {f} : \A x \in Owed(w) : x[1] \in changes => Elsewhere(w, x)
  BY <1>0, <1>1 DEF KeepInv, OthersSafe
<1>3. /\ \A w \in Workers \ {f} : artifacts'[w] = artifacts[w]
      /\ Patch \subseteq Held(f)'
  <2>1. artifacts[f] \in Artifacts /\ artifacts \in [Workers -> Artifacts]
    BY <1>2 DEF TypeInv, TypeOK
  <2>2. artifacts'[f].patch = Patch
    BY <1>0, <1>1, <1>2, <2>1 DEF Artifacts
  <2> QED BY <1>0, <1>1, <2>1, <2>2 DEF Held
<1>4. ASSUME NEW w \in Workers \ {f}, NEW pair, Elsewhere(w, pair)
      PROVE  Elsewhere(w, pair)'
  BY <1>3, <1>4, HistoryStays DEF Elsewhere, Held
<1>5. ASSUME NEW pair \in Owed(f), index[pair[1]] # "absent"
      PROVE  Elsewhere(f, pair)'
  <2>1. /\ pair = <<pair[1], pair[2]>> /\ pair[1] \in Paths /\ pair[2] # "absent"
        /\ work[pair[1]] = pair[2]
    BY <1>2, OwedTyped DEF KeepInv
  <2>2. CASE Tree[pair[1]] = pair[2]
    <3>1. InHistory(pair)
      BY <2>2, HistoryTyped DEF InHistory, Tree, TypeInv, TypeOK
    <3> QED BY <3>1, HistoryStays DEF Elsewhere
  <2>3. CASE Tree[pair[1]] # pair[2]
    <3>1. pair \in Patch
      BY <1>5, <2>1, <2>3 DEF Patch
    <3> QED BY <1>3, <3>1 DEF Elsewhere, Held
  <2> QED BY <2>2, <2>3
<1>6. work' = work /\ index' = index /\ Failed' = f /\ \A w : Owed(w)' = Owed(w)
  BY <1>0, <1>1 DEF gitVars, Owed
<1>7. OthersSafe(changes \cup tracked \cup left)'
  BY <1>1, <1>2, <1>4, <1>6 DEF OthersSafe
<1>8. ASSUME NEW w \in Workers, NEW pair \in Owed(w)
      PROVE  pair[2] # "absent" /\ (work[pair[1]] = pair[2] \/ Elsewhere(w, pair)')
  BY <1>2, <1>4, <1>8 DEF KeepInv
<1>9. ASSUME NEW pair \in Owed(Failed)'
      PROVE  /\ pair[1] \in changes' \cup left' => work'[pair[1]] = pair[2]
             /\ pair[1] \in changes' => index'[pair[1]] = "absent" \/ Elsewhere(Failed, pair)'
             /\ pair[1] \notin changes' \cup left' => Elsewhere(Failed, pair)'
  <2>1. pair \in Owed(f) /\ pair[1] \in changes' /\ work'[pair[1]] = pair[2]
    BY <1>1, <1>2, <1>6, <1>9
  <2>2. Elsewhere(f, pair)' => Elsewhere(Failed, pair)'
    BY <1>6 DEF Elsewhere, Held
  <2> QED BY <1>5, <1>6, <2>1, <2>2
<1> QED BY <1>1, <1>2, <1>6, <1>7, <1>8, <1>9 DEF KeepInv

\* A path that is tracked when git ls-files looks for it was so when the patch was written,
\* but for those that a late git add has exposed.
LEMMA SplitKeeps ==
    ASSUME TypeInv, KeepInv, NEW p \in Paths, Split(p), UNCHANGED shared, ~shared, Grows
    PROVE  KeepInv'
<1>1. /\ pc = "split" /\ pc' \in {"split", "move"} /\ p \in changes /\ changes' = changes \ {p}
      /\ IF index[p] = "absent" THEN left' = left \cup {p} /\ tracked' = tracked
                                ELSE tracked' = tracked \cup {p} /\ left' = left
      /\ pc' = "move" => changes' = {}
      /\ UNCHANGED <<log, index, work, artifacts, retained, exposed, Failed>>
  BY DEF Split, Failed, Evidence, attemptVars, gitVars
<1>0. PICK f : f = Failed
  OBVIOUS
<1>2. /\ f \in Workers /\ changes \cup tracked \cup left \subseteq Permitted
      /\ \A w \in Workers \ {f} : \A x \in Owed(w) :
            x[1] \in changes \cup tracked \cup left => Elsewhere(w, x)
      /\ \A pair \in Owed(f) :
            /\ pair[1] \in changes \cup left => work[pair[1]] = pair[2]
            /\ pair[1] \in changes => index[pair[1]] = "absent" \/ Elsewhere(f, pair)
            /\ pair[1] \notin changes \cup left => Elsewhere(f, pair)
  BY <1>0, <1>1 DEF KeepInv, OthersSafe
<1>3. Failed' = f /\ \A w \in Workers : /\ Owed(w)' = Owed(w)
                                       /\ \A pair : Elsewhere(w, pair) => Elsewhere(w, pair)'
  BY <1>0, <1>1, ElsewhereStays DEF Owed
<1>4. changes' \cup tracked' \cup left' = changes \cup tracked \cup left
  BY <1>1
<1>5. OthersSafe(changes \cup tracked \cup left)'
  BY <1>2, <1>3, <1>4 DEF OthersSafe
<1>6. ASSUME NEW pair \in Owed(Failed)'
      PROVE  /\ pair[1] \in changes' \cup left' => work'[pair[1]] = pair[2]
             /\ pair[1] \in changes' => index'[pair[1]] = "absent" \/ Elsewhere(Failed, pair)'
             /\ pair[1] \notin changes' \cup left' => Elsewhere(Failed, pair)'
  <2>1. pair \in Owed(f)
    BY <1>2, <1>3, <1>6
  <2>2. Elsewhere(f, pair) => Elsewhere(Failed, pair)'
    <3>1. Elsewhere(f, pair) => Elsewhere(f, pair)'
      BY <1>2, <1>3
    <3> QED BY <1>3, <3>1 DEF Elsewhere, Held
  <2>3. CASE pair[1] = p
    BY <1>1, <1>2, <2>1, <2>2, <2>3
  <2>4. CASE pair[1] # p
    BY <1>1, <1>2, <2>1, <2>2, <2>4
  <2> QED BY <2>3, <2>4
<1>7. ASSUME NEW w \in Workers, NEW pair \in Owed(w)'
      PROVE  pair[2] # "absent" /\ (work'[pair[1]] = pair[2] \/ Elsewhere(w, pair)')
  BY <1>1, <1>3, <1>7 DEF KeepInv
<1>8. Failed' \in Workers /\ changes' \cup tracked' \cup left' \subseteq Permitted
  BY <1>2, <1>3, <1>4
<1>9. CASE pc' = "split"
  BY <1>5, <1>6, <1>7, <1>8, <1>9 DEF KeepInv
<1>10. CASE pc' = "move"
  <2>1. changes' = {} /\ OthersSafe(tracked \cup left)'
    BY <1>1, <1>5, <1>10 DEF OthersSafe
  <2>2. \A pair \in Owed(Failed)' :
            IF pair[1] \in left' THEN work'[pair[1]] = pair[2] ELSE Elsewhere(Failed, pair)'
    BY <1>6, <2>1
  <2> QED BY <1>7, <1>8, <1>10, <2>1, <2>2 DEF KeepInv
<1> QED BY <1>1, <1>9, <1>10

\* An untracked file takes its content along; what was moved before from its place is
\* not among what is to be kept.
LEMMA MoveKeeps ==
    ASSUME TypeInv, KeepInv, NEW p \in Paths, MoveUntracked(p), UNCHANGED shared, ~shared, Grows
    PROVE  KeepInv'
<1> DEFINE files == {pair \in artifacts[Failed].files : pair[1] # p} \cup {<<p, work[p]>>}
<1>1. /\ pc = "move" /\ pc' = "move" /\ p \in left /\ left' = left \ {p}
      /\ UNCHANGED <<tracked, retained, exposed, Failed>>
      /\ work' = [work EXCEPT ![p] = "absent"]
      /\ IF work[p] = "absent" THEN artifacts' = artifacts
                               ELSE artifacts' = [artifacts EXCEPT ![Failed].files = files]
  BY DEF MoveUntracked, Failed, Evidence, attemptVars
<1>0. PICK f : f = Failed
  OBVIOUS
<1>2. /\ f \in Workers /\ tracked \cup left \subseteq Permitted
      /\ \A pair \in Owed(f) :
            IF pair[1] \in left THEN work[pair[1]] = pair[2] ELSE Elsewhere(f, pair)
      /\ \A w \in Workers \ {f} : \A x \in Owed(w) :
            x[1] \in tracked \cup left => Elsewhere(w, x)
  BY <1>0, <1>1 DEF KeepInv, OthersSafe
<1>3. /\ artifacts \in [Workers -> Artifacts] /\ artifacts[f] \in Artifacts
      /\ work \in [Paths -> Contents]
  BY <1>2 DEF TypeInv, TypeOK, GitTypeOK
<1>30. \A w : Owed(w)' = Owed(w)
  BY <1>1 DEF Owed
<1>4. \A w \in Workers \ {f} : artifacts'[w] = artifacts[w]
  BY <1>0, <1>1, <1>3
<1>5. /\ artifacts'[f].patch = artifacts[f].patch
      /\ work[p] # "absent" => artifacts'[f].files = files
      /\ work[p] = "absent" => artifacts'[f].files = artifacts[f].files
  <2> HIDE DEF files
  <2> QED BY <1>0, <1>1, <1>2, <1>3 DEF Artifacts
<1>6. ASSUME NEW w \in Workers \ {f}, NEW pair, Elsewhere(w, pair)
      PROVE  Elsewhere(w, pair)'
  BY <1>4, <1>6, HistoryStays DEF Elsewhere, Held
<1>7. ASSUME NEW pair, pair[1] # p, Elsewhere(f, pair)
      PROVE  Elsewhere(f, pair)'
  <2>1. pair \in Held(f) => pair \in Held(f)'
    BY <1>0, <1>1, <1>5, <1>7 DEF Held
  <2> QED BY <1>1, <1>7, <2>1, HistoryStays DEF Elsewhere
<1>8. ASSUME NEW pair \in Owed(f)
      PROVE  /\ pair[2] # "absent"
             /\ IF pair[1] \in left' THEN work'[pair[1]] = pair[2] ELSE Elsewhere(f, pair)'
  <2>1. /\ pair = <<pair[1], pair[2]>> /\ pair[1] \in Paths /\ pair[2] # "absent"
    BY <1>2, OwedTyped DEF KeepInv
  <2>2. CASE pair[1] = p
    <3>1. pair = <<p, work[p]>> /\ work[p] # "absent"
      BY <1>1, <1>2, <2>1, <2>2
    <3>2. pair \in Held(f)'
      BY <1>1, <1>5, <3>1 DEF Held
    <3> QED BY <1>1, <2>1, <2>2, <3>2 DEF Elsewhere
  <2>3. CASE pair[1] # p /\ pair[1] \in left
    BY <1>1, <1>2, <1>3, <2>1, <2>3
  <2>4. CASE pair[1] # p /\ pair[1] \notin left
    BY <1>1, <1>2, <1>7, <2>1, <2>4
  <2> QED BY <2>2, <2>3, <2>4
<1>9. ASSUME NEW w \in Workers \ {f}, NEW x \in Owed(w)
      PROVE  /\ x[2] # "absent"
             /\ work'[x[1]] = x[2] \/ Elsewhere(w, x)'
             /\ x[1] \in tracked \cup left => Elsewhere(w, x)'
  <2>1. x[1] \in Paths /\ x[2] # "absent" /\ (work[x[1]] = x[2] \/ Elsewhere(w, x))
    BY OwedTyped DEF KeepInv
  <2>2. CASE x[1] \in tracked \cup left
    <3>1. Elsewhere(w, x)
      BY <1>2, <2>2
    <3> QED BY <1>6, <2>1, <3>1
  <2>3. CASE x[1] \notin tracked \cup left
    <3>1. work'[x[1]] = work[x[1]]
      BY <1>1, <1>3, <2>1, <2>3
    <3> QED BY <1>6, <2>1, <2>3, <3>1
  <2> QED BY <2>2, <2>3
<1>10. ASSUME NEW w \in Workers, NEW pair \in Owed(w)'
       PROVE  pair[2] # "absent" /\ (work'[pair[1]] = pair[2] \/ Elsewhere(w, pair)')
  <2>1. CASE w = f
    BY <1>1, <1>30, <1>8, <1>10, <2>1
  <2>2. CASE w # f
    BY <1>1, <1>30, <1>9, <1>10, <2>2
  <2> QED BY <2>1, <2>2
<1>11. Failed' = f
  BY <1>0, <1>1
<1>12. OthersSafe(tracked \cup left)'
  BY <1>1, <1>30, <1>9, <1>11 DEF OthersSafe
<1>13. \A pair \in Owed(Failed)' :
           IF pair[1] \in left' THEN work'[pair[1]] = pair[2] ELSE Elsewhere(Failed, pair)'
  BY <1>2, <1>30, <1>8, <1>11 DEF Elsewhere, Held
<1> QED BY <1>1, <1>2, <1>10, <1>11, <1>12, <1>13 DEF KeepInv

LEMMA RestoreKeeps ==
    ASSUME TypeInv, KeepInv, RestoreTracked, UNCHANGED shared, ~shared, Grows
    PROVE  KeepInv'
<1>1. /\ pc = "move" /\ left = {} /\ UNCHANGED <<artifacts, retained, exposed>>
      /\ pc' \notin {"patch", "split", "move"}
      /\ work' = work \/ Restore(tracked)
  BY DEF RestoreTracked, Blocked, Fail
<1>2. ASSUME NEW w \in Workers, NEW pair \in Owed(w)
      PROVE  pair[2] # "absent" /\ (work'[pair[1]] = pair[2] \/ Elsewhere(w, pair)')
  <2>1. /\ pair[1] \in Paths /\ pair[2] # "absent"
        /\ work[pair[1]] = pair[2] \/ Elsewhere(w, pair)
    BY OwedTyped DEF KeepInv
  <2>2. CASE Elsewhere(w, pair)
    BY <1>1, <2>1, <2>2, ElsewhereStays
  <2>3. CASE ~Elsewhere(w, pair)
    <3>1. pair[1] \notin tracked
      BY <1>1, <2>3 DEF KeepInv, OthersSafe
    <3>2. work'[pair[1]] = work[pair[1]]
      BY <1>1, <2>1, <3>1 DEF Restore
    <3> QED BY <2>1, <2>3, <3>2
  <2> QED BY <2>2, <2>3
<1> QED BY <1>1, <1>2 DEF KeepInv, Owed

LEMMA FolderKeeps ==
    ASSUME TypeInv, KeepInv, ~shared, FolderStep, UNCHANGED shared
    PROVE  KeepInv'
<1>0. Grows
  BY FolderLogGrows
<1>1. CASE AttemptStep /\ UNCHANGED recoveryVars
  <2>1. /\ UNCHANGED <<work, artifacts, retained, exposed>>
        /\ pc' \notin {"patch", "split", "move"}
    BY <1>1 DEF AttemptStep, Start, WorkerEnded, Attribute, CheckAttributed, AddApproved,
                CheckStaged, Recheck, CommitStaged, Verify, gitVars, recoveryVars, isolationVars,
                FailWith, Go, Succeed
  <2> QED BY <1>0, <2>1, OtherStepsKeep
<1>2. CASE Invoke \/ Prepare \/ MarkRunning \/ Decide \/ CheckClean
  <2>1. /\ UNCHANGED <<work, artifacts, retained, exposed>>
        /\ pc' \notin {"patch", "split", "move"}
    BY <1>2 DEF Invoke, Prepare, MarkRunning, Decide, CheckClean, Blocked, Isolated, Fail, gitVars,
                recoveryVars, isolationVars
  <2> QED BY <1>0, <2>1, OtherStepsKeep
<1> QED BY <1>0, <1>1, <1>2, IsolateKeeps, PatchKeeps, SplitKeeps, MoveKeeps, RestoreKeeps
       DEF FolderStep, RecoveryStep

LEMMA SharedKeeps ==
    ASSUME TypeInv, KeepInv, shared, SharedStep, UNCHANGED <<recoveryVars, shared>>
    PROVE  KeepInv'
<1>1. \A w \in Workers : retained'[w] = {}
  BY DEF KeepInv, recoveryVars, isolationVars
<1>2. pc' \notin {"patch", "split", "move"}
  BY DEF SharedStep, SharedInvoke, SharedStart, SharedWorkerEnded, Rollback, SharedAttribute,
         CheckAttributed, AddApproved, CheckStaged, CommitStaged, SharedRecheck, SharedVerify,
         SharedEnd, FailWith, Go, NextPrompt
<1> QED BY <1>1, <1>2 DEF KeepInv, Owed

LEMMA KeepInvHolds == Spec => [](TypeInv /\ KeepInv)
<1>1. Init => KeepInv
  BY DEF Init, SliceInit, KeepInv, Owed
<1>2. ASSUME TypeInv, KeepInv, [Next]_vars PROVE KeepInv'
  <2>1. CASE UNCHANGED vars
    BY <1>2, <2>1 DEF vars, slice, gitVars, sliceVars, recoveryVars, isolationVars, KeepInv,
                      OthersSafe, Owed, Elsewhere, Held, InHistory, HEAD, Failed, Evidence
  <2>2. CASE ~shared /\ FolderStep /\ UNCHANGED shared
    BY <1>2, <2>2, FolderKeeps
  <2>3. CASE shared /\ SharedStep /\ UNCHANGED <<recoveryVars, shared>>
    BY <1>2, <2>3, SharedKeeps
  <2>4. CASE EnvironmentStep /\ UNCHANGED shared
    BY <1>2, <2>4, ActsKeep
  <2> QED BY <1>2, <2>1, <2>2, <2>3, <2>4 DEF Next
<1> QED BY <1>1, <1>2, TypeInvHolds, PTL DEF Spec

\* A content that an isolation set out to keep is in the worktree, in the artifact or in
\* the history at every moment, also if the run dies half way, until somebody overwrites
\* it, another isolation takes it over, or it is staged after the patch was written and
\* before git ls-files looks for it.
THEOREM IsolationKeepsUnstaged == Spec => []IsolationKeeps
<1>1. TypeInv /\ KeepInv => IsolationKeeps
  BY DEF KeepInv, IsolationKeeps, Safe, Elsewhere, InHistory, Owed
<1> QED BY <1>1, KeepInvHolds, PTL

\* A run never touches the index or the worktree outside the paths that it may change, but
\* for the rollback of a shared one: what it stages was attributed and permitted, what it
\* moves and restores was so when the isolation began.
THEOREM OutsideStaysUntouched == Spec => OutsideUntouched
<1>1. ASSUME TypeInv, CommitInv, KeepInv, Ours
      PROVE  ~TouchedOutside
  <2>1. /\ work \in [Paths -> Contents] /\ index \in [Paths -> Contents]
        /\ ~shared => Allowed = Permitted
    BY <1>1, SlicesAllowed DEF TypeInv, TypeOK, GitTypeOK
  <2>2. CASE AddApproved
    <3>1. /\ approved \subseteq Allowed /\ work' = work
          /\ index' = index \/ Add(approved)
      BY <1>1, <2>2 DEF AddApproved, CommitInv, Checking
    <3> QED BY <2>1, <3>1 DEF Add, TouchedOutside
  <2>3. ASSUME ~shared, NEW q \in Paths, MoveUntracked(q)
        PROVE  ~TouchedOutside
    <3>1. /\ q \in Permitted /\ index' = index /\ work' = [work EXCEPT ![q] = "absent"]
      BY <1>1, <2>3 DEF MoveUntracked, KeepInv
    <3> QED BY <2>1, <2>3, <3>1 DEF TouchedOutside
  <2>4. CASE ~shared /\ RestoreTracked
    <3>1. /\ tracked \subseteq Permitted
          /\ (work' = work /\ index' = index) \/ Restore(tracked)
      BY <1>1, <2>4 DEF RestoreTracked, KeepInv
    <3> QED BY <2>1, <2>4, <3>1 DEF Restore, TouchedOutside
  <2>5. CASE UNCHANGED <<index, work>>
    BY <2>5 DEF TouchedOutside
  <2>6. CASE ~shared /\ FolderStep
    BY <2>2, <2>3, <2>4, <2>5, <2>6
       DEF FolderStep, AttemptStep, Start, WorkerEnded, Attribute, CheckAttributed, CheckStaged,
           Recheck, CommitStaged, Verify, RecoveryStep, Invoke, Prepare, MarkRunning, Decide,
           Isolate, WritePatch, Split, CheckClean, gitVars
  <2>7. CASE shared /\ pc # "rollback" /\ SharedStep
    BY <2>2, <2>5, <2>7
       DEF SharedStep, SharedInvoke, SharedStart, SharedWorkerEnded, Rollback, SharedAttribute,
           CheckAttributed, CheckStaged, CommitStaged, SharedRecheck, SharedVerify, SharedEnd,
           gitVars
  <2> QED BY <1>1, <2>6, <2>7 DEF Ours
<1>2. TypeInv /\ CommitInv /\ KeepInv => [TouchedOutside => ~Ours]_vars
  BY <1>1
<1> QED BY <1>2, CommitInvHolds, KeepInvHolds, PTL DEF OutsideUntouched

-----------------------------------------------------------------------------
(* The report of a worker.                                                   *)

\* An answer, line by line.
LEMMA LinesOf ==
    ASSUME NEW answer \in Answers
    PROVE  /\ \E n \in Nat : DOMAIN answer = 1 .. n
           /\ \A i \in DOMAIN answer : answer[i] \in Lines
           /\ \A key \in DOMAIN Values : \A i \in Fields(answer, key) :
                 answer[i] = <<key, answer[i][2]>>
<1>1. PICK n \in 0 .. MaxLines : answer \in [1 .. n -> Lines]
  BY DEF Answers, SeqOf
<1>2. n \in Nat /\ DOMAIN answer = 1 .. n /\ \A i \in DOMAIN answer : answer[i] \in Lines
  BY <1>1, LinesAssumption
<1>3. ASSUME NEW line \in Lines
      PROVE  line = <<line[1], line[2]>>
  <2>1. CASE line = Prose
    BY <2>1 DEF Prose
  <2>2. ASSUME NEW key \in DOMAIN Values, line \in {key} \X (Values[key] \cup {"other"})
        PROVE  line = <<line[1], line[2]>>
    BY <2>2
  <2> QED BY <2>1, <2>2 DEF Lines
<1> QED BY <1>2, <1>3 DEF Fields

\* A key is reported more than once if two different lines do.
LEMMA SingleField ==
    ASSUME NEW answer \in Answers, NEW key
    PROVE  Cardinality(Fields(answer, key)) > 1 <=>
              \E i, j \in Fields(answer, key) : i # j
<1> DEFINE F == Fields(answer, key)
<1>1. IsFiniteSet(F)
  <2>1. PICK n \in Nat : DOMAIN answer = 1 .. n
    BY LinesOf
  <2>2. IsFiniteSet(1 .. n)
    BY FS_Interval
  <2> QED BY <2>1, <2>2, FS_Subset DEF Fields
<1>2. ASSUME NEW i \in F, NEW j \in F, i # j
      PROVE  Cardinality(F) > 1
  <2>1. {i} \in SUBSET F /\ {i} # F
    BY <1>2
  <2>2. Cardinality({i}) = 1
    BY FS_Singleton
  <2>3. Cardinality({i}) <= Cardinality(F) /\ Cardinality({i}) # Cardinality(F)
    BY <1>1, <2>1, FS_Subset
  <2> QED BY <1>1, <2>2, <2>3, FS_CardinalityType
<1>3. ASSUME Cardinality(F) > 1
      PROVE  \E i, j \in F : i # j
  <2>1. F # {}
    BY <1>3, FS_EmptySet
  <2>2. PICK i \in F : TRUE
    BY <2>1
  <2>3. Cardinality({i}) = 1 /\ ~(1 > 1)
    BY FS_Singleton
  <2>4. F # {i}
    BY <1>3, <2>3
  <2> QED BY <2>2, <2>4
<1> QED BY <1>2, <1>3

\* What is read off a field that is reported once, or not at all.
LEMMA ReportedOnce ==
    ASSUME NEW answer \in Answers, NEW key \in DOMAIN Values, NEW value \in Values[key],
           \A i, j \in Fields(answer, key) : i = j
    PROVE  /\ Reported(answer, key) = value <=> Once(answer, key, value)
           /\ Once(answer, key, value) =>
                \A i \in Fields(answer, key) : answer[i][2] \in Values[key]
<1> DEFINE F == Fields(answer, key)
           good == {i \in F : answer[i][2] \in Values[key]}
<1>1. value # "none"
  BY DEF Values
<1>2. \A i \in F : i \in DOMAIN answer /\ answer[i] = <<key, answer[i][2]>>
  BY LinesOf DEF Fields
<1>3. \A i \in DOMAIN answer : answer[i][1] = key => i \in F
  BY DEF Fields
<1>4. Reported(answer, key) = IF good = {} THEN "none" ELSE answer[Max(good)][2]
  BY DEF Reported
<1>5. ASSUME NEW i \in good
      PROVE  Max(good) = i
  <2>1. good = {i}
    BY <1>5
  <2>2. i >= i
    BY LinesOf, <1>2, <1>5
  <2> QED BY <2>1, <2>2 DEF Max
<1>6. ASSUME Reported(answer, key) = value
      PROVE  Once(answer, key, value)
  <2>1. PICK i : i \in good
    BY <1>1, <1>4, <1>6
  <2>2. answer[i] = <<key, value>>
    BY <1>2, <1>4, <1>5, <1>6, <2>1
  <2> QED BY <1>2, <1>3, <2>1, <2>2 DEF Once
<1>7. ASSUME Once(answer, key, value)
      PROVE  /\ Reported(answer, key) = value
             /\ \A i \in F : answer[i][2] \in Values[key]
  <2>1. PICK i \in DOMAIN answer : answer[i] = <<key, value>>
    BY <1>7 DEF Once
  <2>2. i \in good /\ F = {i}
    BY <1>3, <2>1
  <2> QED BY <1>4, <1>5, <2>1, <2>2
<1> QED BY <1>6, <1>7

\* README.md:606: an answer is accepted that reports each field once, and each as it should be.
LEMMA ContractKept == Contract
<1> SUFFICES ASSUME NEW answer \in Answers
             PROVE  Accepts(answer) <=>
                        Once(answer, "STATUS", "PASS") /\ Once(answer, "NEXT_PROMPT_SAFE", "yes")
  <2>1. ASSUME NEW answer, NEW d \in BOOLEAN, NEW c \in BOOLEAN
        PROVE  Ending(FALSE, answer, d, c) \in Passed <=> Accepts(answer)
    <3>1. Accepts(answer) => ~Partial(answer)
      BY DEF Accepts, Partial
    <3>2. CASE Accepts(answer)
      BY <3>1, <3>2 DEF Ending, Passed
    <3>3. CASE ~Accepts(answer)
      BY <3>3 DEF Ending, Passed
    <3> QED BY <3>2, <3>3
  <2> QED BY <2>1 DEF Contract
<1> DEFINE Single(key) == \A i, j \in Fields(answer, key) : i = j
<1>1. /\ DOMAIN Values = {"STATUS", "NEXT_PROMPT_SAFE"}
      /\ "PASS" \in Values["STATUS"] /\ "yes" \in Values["NEXT_PROMPT_SAFE"]
  BY DEF Values
<1>2. \A key : Cardinality(Fields(answer, key)) > 1 <=> ~Single(key)
  BY SingleField
<1>3. ASSUME NEW key \in DOMAIN Values, NEW value \in Values[key], Single(key)
      PROVE  /\ Reported(answer, key) = value <=> Once(answer, key, value)
             /\ Once(answer, key, value) =>
                  \A i \in Fields(answer, key) : answer[i][2] \in Values[key]
  BY <1>3, ReportedOnce
<1>4. ASSUME NEW key, NEW value, Once(answer, key, value)
      PROVE  Single(key) /\ answer # <<>>
  <2>1. DOMAIN <<>> = {}
    OBVIOUS
  <2> QED BY <1>4, <2>1 DEF Once, Fields
<1>5. Duplicate(answer) <=> ~Single("STATUS") \/ ~Single("NEXT_PROMPT_SAFE")
  BY <1>1, <1>2 DEF Duplicate
<1> HIDE DEF Single
<1>6. ASSUME Accepts(answer)
      PROVE  Once(answer, "STATUS", "PASS") /\ Once(answer, "NEXT_PROMPT_SAFE", "yes")
  BY <1>1, <1>3, <1>5, <1>6 DEF Accepts
<1>7. ASSUME Once(answer, "STATUS", "PASS"), Once(answer, "NEXT_PROMPT_SAFE", "yes")
      PROVE  Accepts(answer)
  <2>1. Single("STATUS") /\ Single("NEXT_PROMPT_SAFE") /\ answer # <<>>
    BY <1>4, <1>7
  <2>2. /\ Reported(answer, "STATUS") = "PASS"
        /\ Reported(answer, "NEXT_PROMPT_SAFE") = "yes"
        /\ ~Malformed(answer)
    BY <1>1, <1>3, <1>7, <2>1 DEF Malformed
  <2> QED BY <1>5, <2>1, <2>2 DEF Accepts
<1> QED BY <1>6, <1>7

\* README.md:606: a worker whose engine exits with zero has passed exactly if its
\* answer, of any number of lines, says STATUS: PASS and NEXT_PROMPT_SAFE: yes and
\* neither field a second time, well formed or not.
THEOREM ReportsAreExact == Spec => []ContractExact
<1>1. ContractExact
  BY ContractKept DEF ContractExact
<1> QED BY <1>1, PTL
=============================================================================
