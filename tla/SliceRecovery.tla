--------------------------- MODULE SliceRecovery ---------------------------
(***************************************************************************)
(* A slice over all its attempts and invocations: the decision after a     *)
(* failure, the repair of a failed validation, the isolation of the        *)
(* changes of a failed worker into an artifact before a clean retry, and   *)
(* the resume of a failed slice in a worktree that is not clean.           *)
(*                                                                         *)
(* The sequence has one slice. Its run may die between any two steps; the  *)
(* worker of a run that died goes on.                                      *)
(***************************************************************************)
EXTENDS SliceCommit, CompletionReport

CONSTANTS
    NumWorkerSteps,   \* bound on what workers do to the worktree
    NumUserSteps,     \* bound on what the user does to it
    UserAt,           \* the steps of the run before which the user may act
    MaxCrashes        \* bound on crashes

ASSUME BoundsAssumption == NumWorkerSteps \in Nat /\ NumUserSteps \in Nat /\ MaxCrashes \in Nat

VARIABLES
    resuming,     \* whether the isolation was started by a resume
    changes,      \* the paths to isolate that are still to be told apart
    tracked,      \* those that Git tracks, to be restored
    left,         \* the untracked ones that are still to be moved
    artifacts,    \* per worker, the contents in its patch and its moved files
    retained,     \* history: per worker, the contents its last isolation set out to keep,
                  \* without those that one for another worker took over
    exposed,      \* history: per worker, those that were staged too late for its patch
    workerSteps, userSteps, crashes

isolationVars == <<resuming, changes, tracked, left, artifacts>>
recoveryVars == <<isolationVars, retained, exposed>>
bounds == <<workerSteps, userSteps, crashes>>
slice == <<gitVars, sliceVars, recoveryVars, bounds>>

Steps == {"off", "prepare", "mark", "start", "wait", "attribute", "check", "add", "staged",
          "recheck", "commit", "verify", "decide", "isolate", "patch", "split", "move", "clean",
          "rollback"}

Pairs == Paths \X Contents
Artifacts == [patch : SUBSET Pairs, files : SUBSET Pairs]
NoArtifact == [patch |-> {}, files |-> {}]
Held(w) == artifacts[w].patch \cup artifacts[w].files

-----------------------------------------------------------------------------
(* What the records and the logs allow.                                     *)

\* The worker whose evidence counts: that of the prompt record, else that of
\* the sequence item.
Evidence == IF record.worker # NoWorker THEN record.worker ELSE item.worker

\* Mutant: the paths are not compared with the policy.
IsolableAny(before, w) == w # NoWorker /\ before.head # 0 /\ HEAD = before.head

Isolable(before, w) ==
    /\ w # NoWorker
    /\ before.head # 0
    /\ HEAD = before.head
    /\ Attributed(before) \subseteq Permitted

Ended(w, how) == w \in Workers /\ outcome[w] = how

RecoverableFailure(why, w) ==
    /\ why \notin {"none", "dirty", "policy", "contract"}
    /\ \/ w = NoWorker
       \/ why = "launch"
       \/ Ended(w, "launch-failed")
       \/ Ended(w, "disconnect") \/ Ended(w, "pass-disconnect")

\* A declared validation command failed. Another worker must not be active.
Repairable(before, w) ==
    /\ Isolable(before, w)
    /\ Ended(w, "partial")
    /\ Attributed(before) # {}
    /\ \A v \in Workers \ {w} : outcome[v] # "running"

\* Mutant: every resume may repair once more.
RepairsAgain == Repairable(record.baseline, Evidence)

Repairs == Repairable(record.baseline, Evidence) /\ record.attempts < RecoveryAttempts

\* resumedRecoveryCandidate finds the failed slice and proves it safe.
Candidate ==
    /\ item.status = "failed"
    /\ Isolable(record.baseline, Evidence)
    /\ RecoverableFailure(item.error, Evidence) \/ Repairs

\* It fails only if the retained changes cannot be isolated.
CandidateFails == item.status = "failed" /\ ~Isolable(record.baseline, Evidence)

-----------------------------------------------------------------------------
(* The run.                                                                 *)

\* Preflight of run-folder, with --resume if there is something to resume.
Invoke ==
    /\ pc = "off"
    /\ item.status \in {"pending", "failed", "interrupted"}
    /\ Dirty = {} \/ Candidate
    /\ pc' = "prepare"
    /\ UNCHANGED <<gitVars, attemptVars, outcome, item, record, commit, recoveryVars>>

\* prepareResumedRecovery, in a worktree that is not clean: the repair is
\* counted, or the isolation begins; an error ends the run, and a slice that is
\* no candidate any more is attempted all the same.
Prepare ==
    /\ pc = "prepare"
    /\ \/ /\ Dirty = {} \/ (~Candidate /\ ~CandidateFails)
          /\ pc' = "mark"
          /\ UNCHANGED <<record, resuming>>
       \/ /\ Dirty # {} /\ CandidateFails
          /\ pc' = "off"
          /\ UNCHANGED <<record, resuming>>
       \/ /\ Dirty # {} /\ Candidate /\ Repairs
          /\ record' = [record EXCEPT !.attempts = @ + 1]
          /\ pc' = "mark"
          /\ UNCHANGED resuming
       \/ /\ Dirty # {} /\ Candidate /\ ~Repairs
          /\ pc' = "isolate"
          /\ resuming' = TRUE
          /\ UNCHANGED record
    /\ UNCHANGED <<gitVars, attemptVars, outcome, item, commit, changes, tracked, left, artifacts,
                   retained, exposed>>

\* The slice is marked running. A failed one that can be repaired goes on where
\* it stopped.
MarkRunning ==
    LET repairs == /\ item.status = "failed"
                   /\ Repairable(record.baseline, Evidence)
                   /\ record.attempts <= RecoveryAttempts
    IN  /\ pc = "mark"
        /\ pc' = "start"
        /\ item' = [item EXCEPT !.status = "running", !.error = "none"]
        /\ repair' = repairs
        /\ attempt' = IF repairs THEN record.attempts ELSE 0
        /\ baseline' = IF repairs THEN record.baseline ELSE NoBaseline
        /\ worker' = NoWorker
        /\ approved' = {}
        /\ error' = "none"
        /\ UNCHANGED <<gitVars, outcome, record, commit, recoveryVars>>

\* The slice is recorded as failed, with the worker of the item if the attempt
\* has none.
Fail(why) ==
    /\ pc' = "off"
    /\ item' = [status |-> "failed", error |-> why,
                worker |-> IF worker = NoWorker THEN item.worker ELSE worker]
    /\ record' = [worker |-> worker, baseline |-> baseline, attempts |-> attempt]
    /\ UNCHANGED <<attemptVars, resuming>>

\* The decision after a failed attempt: give up, repair, or isolate and retry.
Decide ==
    /\ pc = "decide"
    /\ \/ /\ repair \/ attempt >= RecoveryAttempts
          /\ Fail(error)
       \/ /\ ~repair /\ attempt < RecoveryAttempts
          /\ Repairable(baseline, worker)
          /\ pc' = "start"
          /\ repair' = TRUE
          /\ attempt' = attempt + 1
          /\ item' = [item EXCEPT !.worker = worker]
          /\ record' = [worker |-> worker, baseline |-> baseline, attempts |-> attempt + 1]
          /\ UNCHANGED <<worker, baseline, approved, error, resuming>>
       \/ /\ ~repair /\ attempt < RecoveryAttempts
          /\ ~Repairable(baseline, worker)
          /\ \/ /\ ~RecoverableFailure(error, worker)
                /\ Fail(error)
             \/ /\ RecoverableFailure(error, worker)
                /\ pc' = "isolate"
                /\ resuming' = FALSE
                /\ UNCHANGED <<attemptVars, item, record>>
    /\ UNCHANGED <<gitVars, outcome, commit, changes, tracked, left, artifacts, retained, exposed>>

-----------------------------------------------------------------------------
(* isolateRecoveryChanges.                                                  *)

Failed == IF resuming THEN Evidence ELSE worker
FailedBaseline == IF resuming THEN record.baseline ELSE baseline

\* Isolation is blocked. A resume leaves the slice as it was.
Blocked ==
    IF resuming THEN pc' = "off" /\ UNCHANGED <<attemptVars, item, record, resuming>>
                ELSE Fail("blocked")

\* Nothing is left in the way of a retry. The prompt record is saved.
Isolated ==
    \/ /\ resuming
       /\ pc' = "mark"
       /\ item' = [item EXCEPT !.error = "isolated"]
       /\ record' = [record EXCEPT !.worker = Failed]
       /\ UNCHANGED <<attemptVars, resuming>>
    \/ /\ ~resuming
       /\ pc' = "start"
       /\ attempt' = attempt + 1
       /\ item' = [item EXCEPT !.worker = worker]
       /\ record' = [worker |-> worker, baseline |-> baseline, attempts |-> attempt]
       /\ UNCHANGED <<worker, baseline, repair, approved, error, resuming>>

\* What some paths hold in the worktree.
Contained(paths) == {<<p, work[p]>> : p \in {q \in paths : work[q] # "absent"}}

Isolate ==
    LET changed == Attributed(FailedBaseline)
    IN  /\ pc = "isolate"
        /\ \/ /\ ~Isolable(FailedBaseline, Failed)
              /\ Blocked
              /\ UNCHANGED <<changes, retained, exposed>>
           \/ /\ Isolable(FailedBaseline, Failed)
              /\ changed = {}
              /\ IF resuming THEN pc' = "mark" /\ UNCHANGED <<attemptVars, item, record, resuming>>
                             ELSE Isolated
              /\ UNCHANGED <<changes, retained, exposed>>
           \/ /\ Isolable(FailedBaseline, Failed)
              /\ changed # {}
              /\ pc' = "patch"
              /\ changes' = changed
              /\ retained' = [w \in Workers |->
                                 IF w = Failed THEN Contained(changed)
                                               ELSE retained[w] \ Contained(changed)]
              /\ exposed' = [exposed EXCEPT ![Failed] = {}]
              /\ UNCHANGED <<attemptVars, item, record, resuming>>
        /\ UNCHANGED <<gitVars, outcome, commit, tracked, left, artifacts>>

\* The patch is written over one that is there.
WritePatch ==
    /\ pc = "patch"
    /\ artifacts' = [artifacts EXCEPT ![Failed].patch = Patch]
    /\ tracked' = {}
    /\ left' = {}
    /\ pc' = "split"
    /\ UNCHANGED <<gitVars, attemptVars, outcome, item, record, commit, resuming, changes,
                   retained, exposed>>

\* Only now, and path by path, git ls-files tells whether a path is tracked.
Split(p) ==
    /\ pc = "split"
    /\ p \in changes
    /\ changes' = changes \ {p}
    /\ IF index[p] = "absent" THEN left' = left \cup {p} /\ UNCHANGED tracked
                              ELSE tracked' = tracked \cup {p} /\ UNCHANGED left
    /\ pc' = IF changes = {p} THEN "move" ELSE "split"
    /\ UNCHANGED <<gitVars, attemptVars, outcome, item, record, commit, resuming, artifacts,
                   retained, exposed>>

\* An untracked file is renamed into the artifact, over one that is there.
MoveUntracked(p) ==
    /\ pc = "move"
    /\ p \in left
    /\ left' = left \ {p}
    /\ work' = [work EXCEPT ![p] = "absent"]
    /\ artifacts' = IF work[p] = "absent" THEN artifacts
                    ELSE [artifacts EXCEPT ![Failed].files =
                             {pair \in @ : pair[1] # p} \cup {<<p, work[p]>>}]
    /\ UNCHANGED <<log, index, pc, attemptVars, outcome, item, record, commit, resuming, changes,
                   tracked, retained, exposed>>

\* git restore refuses a path that is neither in the index nor in HEAD.
RestoreTracked ==
    /\ pc = "move"
    /\ left = {}
    /\ \/ /\ \A p \in tracked : index[p] # "absent" \/ Tree[p] # "absent"
          /\ Restore(tracked)
          /\ pc' = "clean"
          /\ UNCHANGED <<attemptVars, item, record, resuming>>
       \/ /\ \E p \in tracked : index[p] = "absent" /\ Tree[p] = "absent"
          /\ Blocked
          /\ UNCHANGED <<index, work>>
    /\ UNCHANGED <<log, outcome, commit, changes, tracked, left, artifacts, retained, exposed>>

CheckClean ==
    /\ pc = "clean"
    /\ IF Dirty = {} THEN Isolated ELSE Blocked
    /\ UNCHANGED <<gitVars, outcome, commit, changes, tracked, left, artifacts, retained, exposed>>

RecoveryStep ==
    \/ Invoke
    \/ Prepare
    \/ MarkRunning
    \/ Decide
    \/ Isolate
    \/ WritePatch
    \/ \E p \in Paths : Split(p)
    \/ \E p \in Paths : MoveUntracked(p)
    \/ RestoreTracked
    \/ CheckClean

-----------------------------------------------------------------------------
(* Those who work in the worktree.                                          *)

\* Who overwrites a content gives up that it is retained.
GiveUp(p) ==
    retained' = [w \in Workers |-> retained[w] \ {<<p, work[p]>>}]

\* Somebody writes or deletes file p.
Write(p, content) ==
    /\ content # work[p]
    /\ work' = [work EXCEPT ![p] = content]
    /\ GiveUp(p)
    /\ UNCHANGED <<log, index, exposed>>

\* A file that the patch does not have, because Git did not track it, is about to be
\* taken for a tracked one.
Late(p) == pc = "split" /\ p \in changes /\ index[p] = "absent"

\* Somebody runs git add for one path.
Stage(p) ==
    /\ index[p] # work[p]
    /\ Add({p})
    /\ exposed' = IF Late(p) THEN [exposed EXCEPT ![Failed] = @ \cup {<<p, work[p]>>}] ELSE exposed
    /\ UNCHANGED <<log, work, retained>>

\* Somebody runs git commit.
CommitIndex ==
    /\ Commit
    /\ UNCHANGED <<index, work, retained, exposed>>

WorkerActs(w) ==
    /\ outcome[w] = "running"
    /\ workerSteps < NumWorkerSteps
    /\ workerSteps' = workerSteps + 1
    /\ \/ \E p \in Paths, content \in {"absent", w} : Write(p, content)
       \/ \E p \in Paths : Stage(p)
       \/ CommitIndex
    /\ UNCHANGED <<sliceVars, isolationVars, userSteps, crashes>>

WorkerEnds(w) ==
    /\ outcome[w] = "running"
    /\ \E how \in Possible \cup {"cancelled"} : outcome' = [outcome EXCEPT ![w] = how]
    /\ UNCHANGED <<gitVars, pc, attemptVars, item, record, commit, recoveryVars>>

\* The user edits, restores what is in HEAD or in an artifact, stages, commits.
UserActs ==
    /\ userSteps < NumUserSteps
    /\ pc \in UserAt
    /\ userSteps' = userSteps + 1
    /\ \/ \E p \in Paths : Write(p, "user")
       \/ \E p \in Paths : Write(p, Tree[p])
       \/ \E w \in Workers : \E pair \in Held(w) : Write(pair[1], pair[2])
       \/ \E p \in Paths : Stage(p)
       \/ CommitIndex
    /\ UNCHANGED <<sliceVars, isolationVars, workerSteps, crashes>>

(* The run dies; a reconcile finds its slice.                               *)

Crash ==
    /\ crashes < MaxCrashes
    /\ pc # "off"
    /\ pc' = "off"
    /\ crashes' = crashes + 1
    /\ UNCHANGED <<gitVars, attemptVars, outcome, item, record, commit, recoveryVars,
                   workerSteps, userSteps>>

Reconcile ==
    /\ pc = "off"
    /\ item.status = "running"
    /\ item' = [item EXCEPT !.status = "interrupted"]
    /\ UNCHANGED <<gitVars, pc, attemptVars, outcome, record, commit, recoveryVars>>

-----------------------------------------------------------------------------
SliceInit ==
    /\ GitInit
    /\ pc = "off"
    /\ worker = NoWorker
    /\ baseline = NoBaseline
    /\ repair = FALSE
    /\ attempt = 0
    /\ approved = {}
    /\ error = "none"
    /\ outcome = [w \in Workers |-> "none"]
    /\ item = [status |-> "pending", worker |-> NoWorker, error |-> "none"]
    /\ record = [worker |-> NoWorker, baseline |-> NoBaseline, attempts |-> 0]
    /\ commit = 0
    /\ resuming = FALSE
    /\ changes = {}
    /\ tracked = {}
    /\ left = {}
    /\ artifacts = [w \in Workers |-> NoArtifact]
    /\ retained = [w \in Workers |-> {}]
    /\ exposed = [w \in Workers |-> {}]
    /\ workerSteps = 0
    /\ userSteps = 0
    /\ crashes = 0

FolderStep ==
    \/ AttemptStep /\ UNCHANGED recoveryVars
    \/ RecoveryStep

EnvironmentStep ==
    \/ \E w \in Workers : WorkerActs(w)
    \/ \E w \in Workers : WorkerEnds(w) /\ UNCHANGED bounds
    \/ UserActs
    \/ Crash
    \/ Reconcile /\ UNCHANGED bounds

-----------------------------------------------------------------------------
(* Every variable keeps its shape. *)
TypeOK ==
    /\ GitTypeOK
    /\ pc \in Steps
    /\ worker \in Workers \cup {NoWorker}
    /\ baseline \in Snapshots
    /\ repair \in BOOLEAN
    /\ attempt \in 0..RecoveryAttempts
    /\ approved \subseteq Paths
    /\ error \in Errors
    /\ outcome \in [Workers -> Outcomes]
    /\ item \in Items
    /\ record \in Records
    /\ commit \in Nat
    /\ resuming \in BOOLEAN
    /\ changes \subseteq Paths
    /\ tracked \subseteq Paths
    /\ left \subseteq Paths
    /\ artifacts \in [Workers -> Artifacts]
    /\ retained \in [Workers -> SUBSET Pairs]
    /\ exposed \in [Workers -> SUBSET Pairs]

\* A content is in the worktree, in the artifact or in the history.
Safe(w, pair) ==
    \/ work[pair[1]] = pair[2]
    \/ pair \in Held(w)
    \/ \E h \in 1..HEAD : log[h][pair[1]] = pair[2]

(* Isolation never loses what it set out to keep: a content that a failed   *)
(* slice left is in the worktree, in the artifact or in the history at      *)
(* every moment, also if the run dies half way, until somebody else         *)
(* overwrites it. Left out are untracked files that somebody stages between *)
(* the patch and the git ls-files that looks for them: the restore deletes  *)
(* them, and neither the patch nor the moved files have them.               *)
IsolationKeeps ==
    \A w \in Workers : \A pair \in retained[w] \ exposed[w] : Safe(w, pair)

(* "A zero engine exit is only successful when the final structured result  *)
(* contains exactly one STATUS: PASS and exactly one NEXT_PROMPT_SAFE: yes. *)
(* Missing, malformed, duplicate, blocked, partial, or unsafe reports stop  *)
(* the sequence" (README.md:606): of every answer that the worker a run     *)
(* waits for may give.                                                      *)
ContractExact == pc = "wait" => Contract
=============================================================================
